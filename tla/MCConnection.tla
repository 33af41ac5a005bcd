---- MODULE MCConnection ----
(* One connection on small instances. *)
EXTENDS Connection
====
