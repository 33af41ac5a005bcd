---- MODULE MCUnityServer ----
(* The Unity example on small instances. *)
EXTENDS UnityServer

\* The origin, a place out of its view and a position that the world refuses.
Places == {<<0, 0>>, <<5, 0>>, NotFinite}
\* The origin, a place at the border of its view and one beyond it.
Near == {<<0, 0>>, <<2, 0>>, <<5, 0>>}
====
