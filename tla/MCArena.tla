---- MODULE MCArena ----
(* The web game's world on a line with a crystal in reach of the spawn point, from
   where a move leads away; one arena holds both players, the other one is
   full with one. *)
EXTENDS Arena, TLC

Places == 1 :> 2 @@ 2 :> 1
CrystalsAt == 1 :> <<2, 1>>
SpawnAt == <<1, 1>>
East == {<<1, 0>>}
====
