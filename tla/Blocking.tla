------------------------------- MODULE Blocking -------------------------------
(***************************************************************************)
(* How the host sizes a matmul launch before it builds the program: the    *)
(* share of each core, the blocking that fits the core's L1, the subblocks *)
(* and the L1 addresses (test_compute_mm and its helpers).                 *)
(*                                                                         *)
(* Sizes and addresses are in tiles, addresses from l1_unreserved_base: in *)
(* the code every size is a multiple of single_tile_size.                  *)
(***************************************************************************)
EXTENDS Integers, FiniteSets, Sequences

CONSTANTS
  Launches,   \* the launches the tool may be asked for
  TileSide    \* rows, and columns, of a tile

(***************************************************************************)
(* A launch: the matrices in elements, the grid of cores, the tiles of L1  *)
(* a core has free, and whether the matrices live in DRAM or in the L1s.   *)
(***************************************************************************)
Launch ==
  [ M : Nat \ {0}, N : Nat \ {0}, K : Nat \ {0},
    coresX : Nat \ {0}, coresY : Nat \ {0}, l1 : Nat, useDram : BOOLEAN ]

ASSUME LaunchesAssumption ==
  Launches \subseteq Launch /\ TileSide \in Nat \ {0}

VARIABLES
  launch,   \* what was asked for; never changes
  phase,    \* how far the host is: "grid", "place", "ready", "rejected"
  plan,     \* the blocking chosen
  layout    \* the L1 addresses chosen

setupVars == <<launch, phase, plan, layout>>
-------------------------------------------------------------------------------
\* get_aligned_input_tile_num, in each dimension.
AlignedTiles(elements) == (elements + (TileSide - 1)) \div TileSide

Mt == AlignedTiles(launch.M)

Nt == AlignedTiles(launch.N)

Kt == AlignedTiles(launch.K)

PerCore(tiles, cores) == ((tiles - 1) \div cores) + 1

PerCoreMt == PerCore(Mt, launch.coresY)

PerCoreNt == PerCore(Nt, launch.coresX)

\* What is left of n in the last of its parts of size d.
LastPart(n, d) == IF n % d = 0 THEN d ELSE n % d

\* Rows of tiles given to row y of the cores: only the last may be short.
ValidRows(y) ==
  IF y = launch.coresY - 1 THEN LastPart(Mt, PerCoreMt) ELSE PerCoreMt

\* With L1 tensors each row of cores is sent its rows of A, and get_row_slice
\* throws if they reach beyond the matrix.
RowsRunOut ==
  ~launch.useDram /\ \E y \in 0 .. launch.coresY - 1 :
                        y * PerCoreMt + ValidRows(y) > Mt

Divisors(n) == { d \in 1 .. n : n % d = 0 }

\* Mutant: K is not checked to be a multiple of the block width.
BlockWidthsAny == {4, 2, 1}

BlockWidths == { b \in {4, 2, 1} : Kt % b = 0 }

\* Mutant: the input CBs are sized as if they were single-buffered.
CBTilesSingleBuffered(h, w, b) == h * b + w * b + h * w + 2

\* The CBs of a block of h x w output tiles and b tiles along K; the output
\* and the partial sums share theirs, and two tiles are for zeros.
CBTiles(h, w, b) == 2 * h * b + 2 * w * b + h * w + 2

\* What the DRAM heuristic compares with the free L1.
DynamicNeed(h, w, b) == CBTiles(h, w, b)

\* What get_in0_block_w compares with it: output and partial sums counted
\* apart, and the three tensors of the core's share unless they are in DRAM.
StaticNeed(h, w, b) ==
  CBTiles(h, w, b) + h * w
    + (IF launch.useDram THEN 0 ELSE h * b + w * b + h * w)

\* The scan of get_dynamic_l1_block_params: taller blocks first, then wider
\* ones, then longer steps along K; the first that fits is taken.
ScannedBefore(c, d) ==
  \/ c[1] > d[1]
  \/ c[1] = d[1] /\ c[2] > d[2]
  \/ c[1] = d[1] /\ c[2] = d[2] /\ c[3] > d[3]

FirstScanned(choices) ==
  CHOOSE c \in choices : \A d \in choices \ {c} : ScannedBefore(c, d)

\* Mutant: the width of a block is never divided.
DynamicFitsFullWidth(pcM, pcN) ==
  { c \in Divisors(pcM) \X {pcN} \X BlockWidths :
      DynamicNeed(c[1], c[2], c[3]) <= launch.l1 }

DynamicFits(pcM, pcN) ==
  { c \in Divisors(pcM) \X Divisors(pcN) \X BlockWidths :
      DynamicNeed(c[1], c[2], c[3]) <= launch.l1 }

StaticFits(pcM, pcN) ==
  { c \in {pcM} \X {pcN} \X BlockWidths :
      StaticNeed(c[1], c[2], c[3]) <= launch.l1 }

\* <<out_block_h, out_block_w, in0_block_w>>; a zero width if nothing fits.
BlockParams(pcM, pcN) ==
  LET fits == IF launch.useDram THEN DynamicFits(pcM, pcN)
                                ELSE StaticFits(pcM, pcN)
  IN  IF fits = {} THEN <<pcM, pcN, 0>> ELSE FirstScanned(fits)

SubblockChoices ==
  << <<4, 2>>, <<2, 4>>, <<8, 1>>, <<1, 8>>, <<7, 1>>, <<1, 7>>, <<3, 2>>,
     <<2, 3>>, <<6, 1>>, <<1, 6>>, <<5, 1>>, <<1, 5>>, <<2, 2>>, <<4, 1>>,
     <<1, 4>>, <<3, 1>>, <<1, 3>>, <<2, 1>>, <<1, 2>>, <<1, 1>> >>

\* The first of the choices that divides the block.
OutSubblock(h, w) ==
  LET divides == { i \in DOMAIN SubblockChoices :
                     h % SubblockChoices[i][1] = 0 /\
                     w % SubblockChoices[i][2] = 0 }
  IN  SubblockChoices[CHOOSE i \in divides : \A j \in divides : i <= j]
-------------------------------------------------------------------------------
SetupInit ==
  /\ launch \in Launches
  /\ phase = "grid" /\ plan = <<>> /\ layout = <<>>

\* Share the matrices out over the cores and choose the blocking, or give up:
\* test_compute_mm logs "Insufficient L1 memory" and returns false.
ChooseBlocks ==
  /\ phase = "grid"
  /\ LET block == BlockParams(PerCoreMt, PerCoreNt)
         sub == OutSubblock(block[1], block[2])
     IN  IF block[3] = 0
         THEN phase' = "rejected" /\ UNCHANGED plan
         ELSE /\ phase' = "place"
              /\ plan' = [ blockH |-> block[1], blockW |-> block[2],
                           in0W |-> block[3],
                           numBlocksH |-> PerCoreMt \div block[1],
                           numBlocksW |-> PerCoreNt \div block[2],
                           numBlocks |-> Kt \div block[3],
                           subH |-> sub[1], subW |-> sub[2] ]
  /\ UNCHANGED <<launch, layout>>

\* Mutant: the zeros are addressed as if the in1 CB had a single buffer.
In2CBAddrOneIn1Buffer(h, w, b) == 2 * h * b + w * b

In2CBAddr(h, w, b) == 2 * h * b + 2 * w * b

\* get_all_buffers_addresses, called with the block and not the core's share;
\* it lays out partial sums and output one after the other.  With DRAM the
\* tensors' addresses come from their buffers instead.
Addresses(h, w, b) ==
  LET in0 == In2CBAddr(h, w, b) + 2 + h * w + h * w
      in1 == in0 + h * b
      out == in1 + w * b
  IN  [ in2CB |-> In2CBAddr(h, w, b),
        in0 |-> IF launch.useDram THEN 0 ELSE in0,
        in1 |-> IF launch.useDram THEN 0 ELSE in1,
        out |-> IF launch.useDram THEN 0 ELSE out ]

PlaceBuffers ==
  /\ phase = "place"
  /\ layout' = Addresses(plan.blockH, plan.blockW, plan.in0W)
  /\ phase' = "ready"
  /\ UNCHANGED <<launch, plan>>

SetupDone == phase \in {"ready", "rejected"}

SetupFinished == SetupDone /\ UNCHANGED setupVars

SetupNext == ChooseBlocks \/ PlaceBuffers \/ SetupFinished

SetupSpec == SetupInit /\ [][SetupNext]_setupVars
-------------------------------------------------------------------------------
(* Where the allocator of the runtime puts the CBs: one after the other    *)
(* from the base, in the order create_program_compute_mm creates them.     *)

CBSizes ==
  << 2 * plan.blockH * plan.in0W, 2 * plan.blockW * plan.in0W, 2,
     plan.blockH * plan.blockW >>

CBStart(i) ==
  CASE i = 1 -> 0
    [] i = 2 -> CBSizes[1]
    [] i = 3 -> CBSizes[1] + CBSizes[2]
    [] i = 4 -> CBSizes[1] + CBSizes[2] + CBSizes[3]

CBEnd == CBStart(4) + CBSizes[4]
-------------------------------------------------------------------------------
(* Properties *)

\* Types of the setup.
SetupTypeOK ==
  /\ launch \in Launch
  /\ phase \in {"grid", "place", "ready", "rejected"}
  /\ phase \in {"place", "ready"} =>
       /\ plan.in0W \in {1, 2, 4} /\ plan.numBlocks >= 1
       /\ plan.numBlocksH >= 1 /\ plan.numBlocksW >= 1

(* The CBs the program will create fit the core's L1, and with L1 tensors  *)
(* the tensors lie above all of them and also fit: the two heuristics and  *)
(* the address layout add up the same buffers independently.               *)
BuffersFitL1 ==
  phase = "ready" =>
    /\ CBEnd <= launch.l1
    /\ ~launch.useDram =>
         /\ CBEnd <= layout.in0
         /\ layout.in0 + plan.blockH * plan.in0W <= layout.in1
         /\ layout.in1 + plan.blockW * plan.in0W <= layout.out
         /\ layout.out + PerCoreMt * PerCoreNt <= launch.l1

(* The zeros the host writes into L1, which the kernels copy into padding, *)
(* land in CB2, where no producer overwrites them, and in no other CB.     *)
ZerosInsideCB2 ==
  phase = "ready" =>
    CBStart(3) <= layout.in2CB /\ layout.in2CB < CBStart(3) + CBSizes[3]

(* With the matrices in DRAM a launch is refused only if not even a block  *)
(* of one tile fits, however large the matrices are.                       *)
DramRefusedOnlyForTinyL1 ==
  phase = "rejected" /\ launch.useDram => launch.l1 < CBTiles(1, 1, 1)

(* The comment of get_dynamic_l1_block_params says it goes from the        *)
(* largest output block to the smallest: then the first that fits has no   *)
(* larger one that also fits.                                              *)
LargestBlockChosen ==
  phase = "ready" /\ launch.useDram =>
    \A c \in DynamicFits(PerCoreMt, PerCoreNt) :
      c[1] * c[2] <= plan.blockH * plan.blockW
===============================================================================
