----------------------------- MODULE MCMatmulGrid -----------------------------
(***************************************************************************)
(* Launches for MatmulGrid, with tiles of 2 x 2 elements.  In the first    *)
(* set every outer block but a core's last one is full, and with L1        *)
(* tensors the cores' columns are all of one width; in two of the others   *)
(* they need not be, and the third has K in mid-tile.                      *)
(***************************************************************************)
EXTENDS MatmulGrid

Of(dram, m, n, k, x, y, l1) ==
  [ M |-> m, N |-> n, K |-> k, coresX |-> x, coresY |-> y, l1 |-> l1,
    useDram |-> dram ]

MCLaunches ==
  { Of(TRUE, 5, 6, 1, 2, 2, 14),    \* one 2x2 block a core, edges of one tile
    Of(TRUE, 4, 13, 3, 2, 2, 10),   \* blocks along N, the last one not full
    Of(TRUE, 14, 4, 2, 2, 2, 10),   \* blocks along M, the last one not full
    Of(TRUE, 8, 8, 8, 2, 2, 12),    \* blocks along N, all full
    Of(TRUE, 5, 9, 1, 2, 1, 23),    \* a 3x3 block with a padded column
    Of(TRUE, 8, 6, 4, 1, 2, 6),     \* no blocking fits
    Of(FALSE, 7, 8, 2, 2, 2, 60),   \* four tiles a core, M in mid-tile
    Of(FALSE, 9, 6, 2, 1, 2, 60),   \* the last row of cores short of a row
    Of(FALSE, 4, 3, 2, 1, 2, 60),   \* N in mid-tile on one column of cores
    Of(FALSE, 10, 2, 2, 1, 4, 60) } \* no rows are left for the last cores

MCEdgeLaunches ==
  { Of(TRUE, 4, 10, 2, 2, 1, 10), Of(TRUE, 9, 4, 2, 1, 4, 40) }

MCUnalignedLaunches == { Of(TRUE, 4, 4, 3, 2, 1, 40) }

MCL1Launches == { Of(FALSE, 4, 10, 2, 2, 1, 60) }
===============================================================================
