------------------------------ MODULE MCBlocking ------------------------------
(* Every launch of up to MaxTiles x MaxTiles outputs on up to 2 x 2 cores. *)
EXTENDS Blocking

CONSTANTS MaxTiles, Budgets

MCLaunches ==
  [ M : 1 .. MaxTiles, N : 1 .. MaxTiles, K : {1, 2, 4, 6},
    coresX : 1 .. 2, coresY : 1 .. 2, l1 : Budgets, useDram : BOOLEAN ]
===============================================================================
