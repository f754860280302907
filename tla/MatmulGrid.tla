------------------------------ MODULE MatmulGrid ------------------------------
(***************************************************************************)
(* A launch on the whole grid: the host sizes it (Blocking), derives the   *)
(* runtime arguments of every core (create_program_compute_mm) and         *)
(* enqueues it; all cores write their tiles, with DRAM into one output     *)
(* buffer, concurrently and with nothing to keep them apart but those      *)
(* arguments, otherwise each into its own L1; then the host reads the      *)
(* output back and stitches the matrix together.                           *)
(*                                                                         *)
(* What a core computes is abstracted to which row of A and which column   *)
(* of B (with L1 tensors, of the core's own part of it) its kernels read   *)
(* for each tile; MatmulCore is about the kernels of one core.  The NoC    *)
(* writes of a subblock land in any order before the barrier that follows. *)
(***************************************************************************)
EXTENDS Blocking

CONSTANT NotWritten   \* a tile of the output nobody has written

ASSUME NotWrittenAssumption == NotWritten \notin [row : Int, col : Int]

VARIABLES
  out,      \* per home of the output: tile id -> the row of A and the column
            \* of B the tile was computed from
  stray,    \* <<home, tile id>> of what was written beyond it
  todo,     \* per core: the subblocks still to be written
  flight,   \* per core: the NoC writes issued and not yet landed
  vec       \* the result on the host, by element

gridVars == <<launch, phase, plan, layout, out, stray, todo, flight, vec>>
-------------------------------------------------------------------------------
(* The arguments of the core at <<x, y>> *)

Cores == (0 .. launch.coresX - 1) \X (0 .. launch.coresY - 1)

ValidM(c) == ValidRows(c[2])

ValidN(c) ==
  IF c[1] = launch.coresX - 1 THEN LastPart(Nt, PerCoreNt) ELSE PerCoreNt

LastOuterH(c) == LastPart(ValidM(c), plan.blockH)

LastOuterW(c) == LastPart(ValidN(c), plan.blockW)

Nonzero(n, sub) == ((n - 1) \div sub) + 1

\* Where a core's output is kept: its home, the tiles that has, the tile id
\* the core starts at and the tile ids from a row of tiles to the next.
Home(c) == IF launch.useDram THEN "dram" ELSE c

Homes == { Home(c) : c \in Cores }

OutTiles ==
  0 .. (IF launch.useDram THEN Mt * Nt ELSE PerCoreMt * PerCoreNt) - 1

\* Mutant: the row of a core is not scaled by the width of the output.
OutStartUnscaled(c) ==
  IF launch.useDram THEN c[2] * PerCoreMt + c[1] * PerCoreNt ELSE 0

OutStart(c) ==
  IF launch.useDram THEN c[2] * PerCoreMt * Nt + c[1] * PerCoreNt ELSE 0

\* Mutant: the stride of the DRAM buffer is used for the L1s too.
OutStrideGlobal(c) == Nt

OutStride(c) == IF launch.useDram THEN Nt ELSE ValidN(c)
-------------------------------------------------------------------------------
(* The loops of the kernels.  A subblock is <<bh, bw, sbh, sbw>>.          *)

LastBh(bh) == bh = plan.numBlocksH - 1

LastBw(bw) == bw = plan.numBlocksW - 1

NonzeroH(c, bh) == IF LastBh(bh) THEN Nonzero(LastOuterH(c), plan.subH)
                                 ELSE plan.blockH \div plan.subH

NonzeroW(c, bw) == IF LastBw(bw) THEN Nonzero(LastOuterW(c), plan.subW)
                                 ELSE plan.blockW \div plan.subW

Subblocks(c) ==
  { p \in (0 .. plan.numBlocksH - 1) \X (0 .. plan.numBlocksW - 1)
          \X (0 .. plan.blockH - 1) \X (0 .. plan.blockW - 1) :
      p[3] < NonzeroH(c, p[1]) /\ p[4] < NonzeroW(c, p[2]) }

\* The order of the four nested loops.
Before(p, q) ==
  \E i \in 1 .. 4 : p[i] < q[i] /\ \A j \in 1 .. i - 1 : p[j] = q[j]

First(S) == CHOOSE p \in S : \A q \in S \ {p} : Before(p, q)

\* The valid tiles of a subblock, and the gap they leave in its rows in L1.
Height(c, p) ==
  IF LastBh(p[1]) /\ p[3] = NonzeroH(c, p[1]) - 1
  THEN LastPart(LastOuterH(c), plan.subH) ELSE plan.subH

Width(c, p) ==
  IF LastBw(p[2]) /\ p[4] = NonzeroW(c, p[2]) - 1
  THEN LastPart(LastOuterW(c), plan.subW) ELSE plan.subW

\* Mutant: the padded tiles at the end of a row are not skipped.
RowGapForgotten(c, p) == 0

RowGap(c, p) == plan.subW - Width(c, p)

\* The row of A (column of B) the readers put at row i (column j) of block
\* bh (bw).  Past the valid ones of the last block that is a row (column) of
\* zeros, but for the rows of the L1 reader: it keeps the low half of the
\* address of the zeros, which does not say whose L1 they are in.
Zero == -1

Anything == -2

PaddingRow == IF launch.useDram THEN Zero ELSE Anything

ReadRow(c, bh, i) ==
  IF ~LastBh(bh) \/ i < LastOuterH(c)
  THEN c[2] * PerCoreMt + bh * plan.blockH + i ELSE PaddingRow

ReadCol(c, bw, j) ==
  IF ~LastBw(bw) \/ j < LastOuterW(c)
  THEN c[1] * PerCoreNt + bw * plan.blockW + j ELSE Zero

\* The NoC writes of a subblock: the read address in L1 runs through the
\* subblock, row by row, whatever tile id the tile goes to.
Writes(c, p) ==
  LET slot(h, w) == h * (Width(c, p) + RowGap(c, p)) + w
  IN  { [ tile |-> OutStart(c)
                     + (p[1] * plan.blockH + p[3] * plan.subH + h)
                         * OutStride(c)
                     + p[2] * plan.blockW + p[4] * plan.subW + w,
          row |-> ReadRow(c, p[1],
                          p[3] * plan.subH + slot(h, w) \div plan.subW),
          col |-> ReadCol(c, p[2],
                          p[4] * plan.subW + (slot(h, w) % plan.subW)) ] :
        h \in 0 .. Height(c, p) - 1, w \in 0 .. Width(c, p) - 1 }
-------------------------------------------------------------------------------
GridInit ==
  /\ SetupInit
  /\ out = [h \in Homes |-> [t \in OutTiles |-> NotWritten]]
  /\ stray = {}
  /\ todo = [c \in Cores |-> {}]
  /\ flight = [c \in Cores |-> {}]
  /\ vec = <<>>

Setup ==
  /\ ChooseBlocks \/ PlaceBuffers
  /\ UNCHANGED <<out, stray, todo, flight, vec>>

LoadFails ==
  /\ phase = "ready" /\ RowsRunOut
  /\ phase' = "failed"
  /\ UNCHANGED <<launch, plan, layout, out, stray, todo, flight, vec>>

\* EnqueueMeshWorkload: every core is given its arguments and starts.
Enqueue ==
  /\ phase = "ready" /\ ~RowsRunOut
  /\ phase' = "running"
  /\ todo' = [c \in Cores |-> Subblocks(c)]
  /\ UNCHANGED <<launch, plan, layout, out, stray, flight, vec>>

\* The barrier of the subblock before has been passed; issue the next.
IssueWrites(c) ==
  /\ phase = "running" /\ flight[c] = {} /\ todo[c] # {}
  /\ flight' = [flight EXCEPT ![c] = Writes(c, First(todo[c]))]
  /\ todo' = [todo EXCEPT ![c] = @ \ {First(@)}]
  /\ UNCHANGED <<launch, phase, plan, layout, out, stray, vec>>

Land(c) ==
  \E w \in flight[c] :
    /\ flight' = [flight EXCEPT ![c] = @ \ {w}]
    /\ IF w.tile \in OutTiles
       THEN /\ out' = [out EXCEPT ![Home(c)][w.tile] =
                                    [row |-> w.row, col |-> w.col]]
            /\ UNCHANGED stray
       ELSE stray' = stray \cup {<<Home(c), w.tile>>} /\ UNCHANGED out
    /\ UNCHANGED <<launch, phase, plan, layout, todo, vec>>

\* Finish returns once every kernel of every core has.
FinishWait ==
  /\ phase = "running"
  /\ \A c \in Cores : todo[c] = {} /\ flight[c] = {}
  /\ phase' = "finished"
  /\ UNCHANGED <<launch, plan, layout, out, stray, todo, flight, vec>>
-------------------------------------------------------------------------------
(* The read-back: which element of the product ends up where *)

Indices == 0 .. launch.M * launch.N - 1

\* Row i and column j of a tile that holds `content`.
Element(content, i, j) ==
  IF content = NotWritten THEN NotWritten
  ELSE [row |-> content.row * TileSide + i, col |-> content.col * TileSide + j]

\* Element (r, k) of tiles untilized in rows of `width` tiles.
Untilized(tiles, width, r, k) ==
  Element(tiles[(r \div TileSide) * width + (k \div TileSide)],
          r % TileSide, k % TileSide)

\* With DRAM the whole buffer is read, then trimmed to M x N.
DramResult ==
  [i \in Indices |->
     Untilized(out["dram"], Nt, i \div launch.N, i % launch.N)]

\* With L1 tensors the cores' buffers are read in full, y before x before
\* rows before columns, and an element <<y, x, r, k>> of them is dropped only
\* if its place is beyond the whole result; the last one copied remains.
CopiedTo(i) ==
  { p \in (0 .. launch.coresY - 1) \X (0 .. launch.coresX - 1)
          \X (0 .. PerCoreMt * TileSide - 1)
          \X (0 .. PerCoreNt * TileSide - 1) :
      (p[1] * PerCoreMt * TileSide + p[3]) * launch.N
        + p[2] * PerCoreNt * TileSide + p[4] = i }

Last(S) == CHOOSE p \in S : \A q \in S \ {p} : Before(q, p)

L1Result ==
  [i \in Indices |->
     IF CopiedTo(i) = {} THEN NotWritten
     ELSE LET p == Last(CopiedTo(i))
          IN  Untilized(out[<<p[2], p[1]>>], PerCoreNt, p[3], p[4])]

\* The host's vectors of A and B are whole tiles, padding included and random
\* like the rest.  The products, by the places in them, that the kernels add
\* up for element e of the output, ...
ProductTerms(e) ==
  { << e.row * Kt * TileSide + k, k * Nt * TileSide + e.col >> :
      k \in 0 .. Kt * TileSide - 1 }

\* ... and those that matmul_reference adds up for index i of the result.
ReferenceTerms(i) ==
  { << (i \div launch.N) * launch.K + k, k * launch.N + (i % launch.N) >> :
      k \in 0 .. launch.K - 1 }

ReadBack ==
  /\ phase = "finished"
  /\ vec' = IF launch.useDram THEN DramResult ELSE L1Result
  /\ phase' = "read"
  /\ UNCHANGED <<launch, plan, layout, out, stray, todo, flight>>

GridDone ==
  phase \in {"read", "failed", "rejected"} /\ UNCHANGED gridVars

GridNext == Setup \/ LoadFails \/ Enqueue \/ FinishWait \/ ReadBack \/ GridDone
              \/ \E c \in Cores : IssueWrites(c) \/ Land(c)

GridSpec == GridInit /\ [][GridNext]_gridVars
-------------------------------------------------------------------------------
(* Properties *)

\* The sizes for which create_program_compute_mm is written: with DRAM every
\* row and column of cores has a share of the matrix, and of the outer blocks
\* of any core only the last one may reach beyond its share.
SharesFilled ==
  /\ launch.useDram => /\ (launch.coresY - 1) * PerCoreMt < Mt
                       /\ (launch.coresX - 1) * PerCoreNt < Nt
  /\ phase \notin {"grid", "rejected"} =>
       /\ (plan.numBlocksH - 1) * plan.blockH < LastPart(Mt, PerCoreMt)
       /\ (plan.numBlocksW - 1) * plan.blockW < LastPart(Nt, PerCoreNt)

\* The sizes for which the read-back of L1 tensors is: their columns of cores
\* hold all of N, without padding if there are several.
ColumnsFilled ==
  ~launch.useDram =>
    launch.coresX = 1 \/ launch.N = launch.coresX * PerCoreNt * TileSide

\* No tile is ever written twice: not by two cores at once, not by one core
\* after another, and nothing is written beyond the output buffer.
EachTileWrittenOnce ==
  /\ stray = {}
  /\ \A c \in Cores : \A w \in flight[c] :
       /\ w.tile \in OutTiles => out[Home(c)][w.tile] = NotWritten
       /\ \A d \in Cores \ {c} : \A v \in flight[d] :
            Home(d) = Home(c) => v.tile # w.tile

(* When Finish returns, the DRAM buffer holds at every tile the product of *)
(* that tile's row of A and column of B, the edge cores with fewer tiles   *)
(* included.                                                               *)
ProductComplete ==
  phase = "finished" /\ launch.useDram =>
    \A r \in 0 .. Mt - 1 : \A k \in 0 .. Nt - 1 :
      out["dram"][r * Nt + k] = [row |-> r, col |-> k]

(* What the host validates is the product, element by element: writers and *)
(* read-back agree on every stride, and padding reaches no element.        *)
ReadbackExact ==
  phase = "read" =>
    \A i \in Indices :
      vec[i] = [row |-> i \div launch.N, col |-> i % launch.N]

(* matmul_reference takes A for an M x K matrix and B for a K x N one and  *)
(* is given what was sent: what the device's result is compared with is    *)
(* that result, term by term.                                              *)
ReferenceIsProduct ==
  phase = "read" /\ launch.useDram =>
    \A i \in Indices : ReferenceTerms(i) = ProductTerms(vec[i])
===============================================================================
