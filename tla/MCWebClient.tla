---- MODULE MCWebClient ----
(* The page of the web game with two rooms and two generations. *)
EXTENDS WebClient
====
