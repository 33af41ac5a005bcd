---- MODULE MCJSONFileStore ----
(* The JSON file store on small instances. *)
EXTENDS JSONFileStore
====
