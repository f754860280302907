------------------------------ MODULE MCDispatch ------------------------------
(***************************************************************************)
(* Every test of up to MaxIters iterations, warmups and launches per trace *)
(* that packs and unpacks on the host, and those with at most one of each  *)
(* that do it on the device.                                               *)
(***************************************************************************)
EXTENDS Dispatch

CONSTANT MaxIters

Tests(max, zeros, device) ==
  [ test : {"direct", "async", "trace", "sync"}, iters : 0 .. max,
    warmup : 0 .. max, ops : 1 .. max, dram : BOOLEAN, check : BOOLEAN,
    zeros : zeros, packDevice : device, unpackDevice : device, fp32 : device ]

MCJobs == Tests(MaxIters, {FALSE}, {FALSE}) \cup Tests(1, BOOLEAN, BOOLEAN)
===============================================================================
