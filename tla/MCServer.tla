---- MODULE MCServer ----
(* The server on small instances. *)
EXTENDS Server
====
