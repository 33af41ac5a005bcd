---- MODULE MCGameService ----
(* The game service on a small instance. *)
EXTENDS GameService
====
