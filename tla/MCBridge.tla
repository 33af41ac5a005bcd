---- MODULE MCBridge ----
(* The bridge on small instances. *)
EXTENDS Bridge
====
