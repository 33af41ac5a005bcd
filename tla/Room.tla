-------------------------------- MODULE Room -------------------------------
(***************************************************************************)
(* A room of gcore/room.go as a value.  Every method runs under the lock   *)
(* of the room and is an operator that returns the next room.              *)
(*                                                                         *)
(* No program of the repository closes or removes a room, so the states of *)
(* a room, which only Join looks at, are left out.                         *)
(***************************************************************************)
EXTENDS Integers, FiniteSets

\* A room for max players; without a limit when max is zero.
NewRoom(max) == [max |-> max, members |-> {}]

mayJoin(room, c) ==
    /\ c \notin room.members
    /\ room.max > 0 => Cardinality(room.members) < room.max

Joined(room, c) == [room EXCEPT !.members = @ \cup {c}]

mayLeave(room, c) == c \in room.members

Left(room, c) == [room EXCEPT !.members = @ \ {c}]

=============================================================================
