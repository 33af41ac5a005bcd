---- MODULE MCMsgHandle ----
(* The worker pool on small instances. *)
EXTENDS MsgHandle
====
