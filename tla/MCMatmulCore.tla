----------------------------- MODULE MCMatmulCore -----------------------------
(***************************************************************************)
(* Small programs for MatmulCore: 1 to 3 K blocks, 1 to 4 outer blocks,    *)
(* 1 to 4 subblocks, with and without fully padded subblocks at the edge.  *)
(***************************************************************************)
EXTENDS MatmulCore

Launch(h, w, k, sh, sw, nh, nw, dram) ==
  [ numBlocksH |-> h, numBlocksW |-> w, numBlocks |-> k, subH |-> sh,
    subW |-> sw, nzH |-> nh, nzW |-> nw, useDram |-> dram ]

MCPrograms ==
  { Launch(2, 2, 3, 2, 2, 1, 1, TRUE),    \* padding in both directions
    Launch(2, 2, 1, 1, 2, 1, 2, TRUE),    \* no K loop: nothing is spilled
    Launch(1, 3, 2, 2, 2, 2, 1, TRUE),    \* padded columns only
    Launch(3, 1, 2, 2, 1, 1, 1, TRUE),    \* padded rows only
    Launch(2, 1, 4, 1, 1, 1, 1, TRUE),    \* one subblock, long K loop
    Launch(1, 1, 3, 2, 2, 1, 2, FALSE),   \* the L1 kernels, spilling
    Launch(1, 1, 1, 2, 1, 2, 1, FALSE) }  \* the L1 kernels, one K block
===============================================================================
