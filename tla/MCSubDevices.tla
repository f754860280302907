----------------------------- MODULE MCSubDevices -----------------------------
(* Jobs of up to MaxRows rows of elements, on up to MaxCores rows of cores. *)
EXTENDS SubDevices

CONSTANTS MaxRows, MaxCores, Budgets

MCLaunches ==
  [ M : 1 .. MaxRows, N : {1, 4, 6}, K : {2, 6}, coresX : 1 .. 2,
    coresY : 1 .. MaxCores, l1 : Budgets, useDram : BOOLEAN ]

MCJobs ==
  { j \in [ whole : MCLaunches, groups : 1 .. MaxCores ] :
      j.groups <= j.whole.coresY /\ j.groups <= j.whole.M }
===============================================================================
