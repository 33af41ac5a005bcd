---- MODULE MCSessionManager ----
(* The session manager on small instances. *)
EXTENDS SessionManager, TLC

\* Tokens and accounts are interchangeable.
Symmetry == Permutations(Tokens) \cup Permutations(Accounts)
====
