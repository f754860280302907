------------------------------ MODULE MatmulCore ------------------------------
(***************************************************************************)
(* One Tensix core executing the matmul program of                         *)
(* create_program_compute_mm: three kernels that run concurrently and      *)
(* communicate only through circular buffers (CBs) in the core's L1.       *)
(*                                                                         *)
(*   in0 reader         RISCV_1   fills CB0 with blocks of A               *)
(*   in1 reader/writer  RISCV_0   fills CB1 with blocks of B, then drains  *)
(*                                CB16 to memory                           *)
(*   compute            TRISC     multiplies, keeping partial sums in CB24 *)
(*                                and final sums in CB16                   *)
(*                                                                         *)
(* CB16 and CB24 are created by one CircularBufferConfig: they have their  *)
(* own FIFO counters but the SAME memory.                                  *)
(*                                                                         *)
(* The loops over bh and bw of each kernel are one loop over o, the index  *)
(* of the outer block; the loops over in0_subblock and in1_subblock of the *)
(* compute kernel are one loop over s.  CB0 and CB1 are counted in blocks, *)
(* CB16 and CB24 in subblocks: every call of the kernels on them moves a   *)
(* multiple of that unit.                                                  *)
(***************************************************************************)
EXTENDS CircularBuffer, Sequences

CONSTANTS
  Programs,     \* argument sets the host may launch the core with
  NotWritten    \* an output subblock nobody has written back yet

(***************************************************************************)
(* An argument set: numBlocksH and numBlocksW outer blocks, numBlocks      *)
(* blocks along K, subH x subW subblocks in an outer block; in the last    *)
(* outer row (column) only nzH (nzW) rows (columns) of subblocks hold      *)
(* valid tiles.  The L1 kernels (useDram = FALSE) have no outer loops.     *)
(***************************************************************************)
Program ==
  [ numBlocksH : Nat \ {0}, numBlocksW : Nat \ {0}, numBlocks : Nat \ {0},
    subH : Nat \ {0}, subW : Nat \ {0}, nzH : Nat \ {0}, nzW : Nat \ {0},
    useDram : BOOLEAN ]

ASSUME ProgramsAssumption ==
  /\ Programs \subseteq Program
  /\ \A p \in Programs :
       /\ p.nzH <= p.subH /\ p.nzW <= p.subW
       /\ ~p.useDram => p.numBlocksH = 1 /\ p.numBlocksW = 1

VARIABLES
  args,         \* the argument set of this launch; never changes
  reader,       \* in0 reader: [pc, o, k]
  rw,           \* in1 reader/writer: [pc, o, k, sbh, sbw]
  compute,      \* compute kernel: [pc, o, k, s, reload, toWait]
  cbIn0, cbIn1, cbOut, cbPart,  \* CB0, CB1, CB16, CB24: [cnt, wr, rd]
  in0L1, in1L1, \* contents of the two slots of CB0 and of CB1
  outL1,        \* contents of the memory CB16 and CB24 share
  dst,          \* the DST registers: the products summed so far
  written       \* what the writer has stored, by outer block and subblock

vars == <<args, reader, rw, compute, cbIn0, cbIn1, cbOut, cbPart,
          in0L1, in1L1, outL1, dst, written>>
-------------------------------------------------------------------------------
(* The loops over all outer blocks, and over the subblocks of one.         *)

NumOuter == args.numBlocksH * args.numBlocksW

NumSubblocks == args.subH * args.subW
-------------------------------------------------------------------------------
(* Which block of A and of B a reader fetches for outer block o, K block   *)
(* k: the DRAM kernels advance along K, and restart A for every column and *)
(* B for every row of outer blocks; the L1 kernels re-read block 0 of A    *)
(* and lay out columns of the identity that depend on k.                   *)

RowOf(o) == o \div args.numBlocksW

ColOf(o) == o % args.numBlocksW

ABlock(row, col) == [mat |-> "A", row |-> row, col |-> col]

BBlock(row, col) == [mat |-> "B", row |-> row, col |-> col]

\* Mutant: A moves on with every outer block, as if bw did not re-read it.
In0BlockNotReread(o, k) == ABlock(o, IF args.useDram THEN k ELSE 0)

In0Block(o, k) == ABlock(RowOf(o), IF args.useDram THEN k ELSE 0)

In1Block(o, k) == BBlock(k, ColOf(o))

\* What a slot holds while the asynchronous NoC reads into it are in flight.
InFlight == [mat |-> "none", row |-> 0, col |-> 0]

\* Rows and columns of subblocks the writer stores; only the last outer row
\* and column use the boundary arguments.
RowsToStore(o) ==
  IF RowOf(o) = args.numBlocksH - 1 THEN args.nzH ELSE args.subH

\* Mutant: off by one, the boundary arguments are never used.
ColsToStoreUnpadded(o) ==
  IF ColOf(o) = args.numBlocksW THEN args.nzW ELSE args.subW

ColsToStore(o) ==
  IF ColOf(o) = args.numBlocksW - 1 THEN args.nzW ELSE args.subW

\* Mutant: the padded tail of a row of subblocks is forgotten.
WSkipForgotten(o) == 0

WSkip(o) == args.subW - ColsToStore(o)

\* Mutant: the padded rows of subblocks are forgotten.
HSkipForgotten(o) == 0

HSkip(o) == (args.subH - RowsToStore(o)) * args.subW
-------------------------------------------------------------------------------
Init ==
  /\ args \in Programs
  /\ reader = [pc |-> "reserve", o |-> 0, k |-> 0]
  /\ rw = [pc |-> "reserve", o |-> 0, k |-> 0, sbh |-> 0, sbw |-> 0]
  /\ compute = [pc |-> "wait", o |-> 0, k |-> 0, s |-> 0,
                reload |-> FALSE, toWait |-> 1]
  /\ cbIn0 = EmptyCB /\ cbIn1 = EmptyCB
  /\ cbOut = EmptyCB /\ cbPart = EmptyCB
  /\ in0L1 = [i \in 0 .. NumBuffer - 1 |-> InFlight]
  /\ in1L1 = [i \in 0 .. NumBuffer - 1 |-> InFlight]
  /\ outL1 = [i \in 0 .. NumSubblocks - 1 |-> [s |-> i, sum |-> <<>>]]
  /\ dst = <<>>
  /\ written = [o \in 0 .. NumOuter - 1 |->
                  [s \in 0 .. NumSubblocks - 1 |-> NotWritten]]
-------------------------------------------------------------------------------
(* in0 reader *)

In0Reserve ==
  /\ reader.pc = "reserve"
  /\ HasRoom(cbIn0, 1, NumBuffer)
  /\ in0L1' = [in0L1 EXCEPT ![cbIn0.wr] = InFlight]
  /\ reader' = [reader EXCEPT !.pc = "read"]
  /\ UNCHANGED <<args, rw, compute, cbIn0, cbIn1, cbOut, cbPart, in1L1, outL1,
                 dst, written>>

\* Where a reader stands after the last K block of an outer block.
NextOuter(o) == o + 1

In0Push ==
  /\ reader.pc = "read"
  /\ in0L1' = [in0L1 EXCEPT ![cbIn0.wr] = In0Block(reader.o, reader.k)]
  /\ cbIn0' = PushBack(cbIn0, 1, NumBuffer)
  /\ reader' =
       IF reader.k + 1 < args.numBlocks
       THEN [reader EXCEPT !.pc = "reserve", !.k = @ + 1]
       ELSE [pc |-> IF NextOuter(reader.o) = NumOuter THEN "done" ELSE "reserve",
             o |-> NextOuter(reader.o), k |-> 0]
  /\ UNCHANGED <<args, rw, compute, cbIn1, cbOut, cbPart, in1L1, outL1, dst,
                 written>>
-------------------------------------------------------------------------------
(* in1 reader/writer *)

In1Reserve ==
  /\ rw.pc = "reserve"
  /\ HasRoom(cbIn1, 1, NumBuffer)
  /\ in1L1' = [in1L1 EXCEPT ![cbIn1.wr] = InFlight]
  /\ rw' = [rw EXCEPT !.pc = "read"]
  /\ UNCHANGED <<args, reader, compute, cbIn0, cbIn1, cbOut, cbPart, in0L1,
                 outL1, dst, written>>

\* After the last K block of this outer block the kernel turns to writing.
In1Push ==
  /\ rw.pc = "read"
  /\ in1L1' = [in1L1 EXCEPT ![cbIn1.wr] = In1Block(rw.o, rw.k)]
  /\ cbIn1' = PushBack(cbIn1, 1, NumBuffer)
  /\ rw' = IF rw.k + 1 < args.numBlocks
           THEN [rw EXCEPT !.pc = "reserve", !.k = @ + 1]
           ELSE [rw EXCEPT !.pc = "front", !.k = @ + 1, !.sbh = 0, !.sbw = 0]
  /\ UNCHANGED <<args, reader, compute, cbIn0, cbOut, cbPart, in0L1, outL1,
                 dst, written>>

\* cb_wait_front succeeds and the NoC writes of one subblock are issued.
StoreIssue ==
  /\ rw.pc = "front"
  /\ cbOut.cnt >= 1
  /\ rw' = [rw EXCEPT !.pc = "store"]
  /\ UNCHANGED <<args, reader, compute, cbIn0, cbIn1, cbOut, cbPart, in0L1,
                 in1L1, outL1, dst, written>>

\* The write barrier: what was stored is what the slot held until here.
StoreBarrier ==
  /\ rw.pc = "store"
  /\ written' = [written EXCEPT
                   ![rw.o][rw.sbh * args.subW + rw.sbw] = outL1[cbOut.rd]]
  /\ cbOut' = PopFront(cbOut, 1, NumSubblocks)
  /\ rw' = IF rw.sbw + 1 < ColsToStore(rw.o)
           THEN [rw EXCEPT !.pc = "front", !.sbw = @ + 1]
           ELSE [rw EXCEPT !.pc = "skipW", !.sbw = 0]
  /\ UNCHANGED <<args, reader, compute, cbIn0, cbIn1, cbPart, in0L1, in1L1,
                 outL1, dst>>

\* Mutant: cb_pop_front of the row tail without its cb_wait_front.
RowTailNotAwaited == TRUE

RowTailReady == cbOut.cnt >= WSkip(rw.o)

\* Pop the fully padded subblocks at the end of a row of subblocks.
SkipRowTail ==
  /\ rw.pc = "skipW"
  /\ RowTailReady
  /\ cbOut' = PopFront(cbOut, WSkip(rw.o), NumSubblocks)
  /\ rw' = [rw EXCEPT !.pc = IF rw.sbh + 1 < RowsToStore(rw.o)
                             THEN "front" ELSE "skipH",
                      !.sbh = @ + 1]
  /\ UNCHANGED <<args, reader, compute, cbIn0, cbIn1, cbPart, in0L1, in1L1,
                 outL1, dst, written>>

\* Pop the fully padded rows of subblocks and go to the next outer block.
SkipRows ==
  /\ rw.pc = "skipH"
  /\ cbOut.cnt >= HSkip(rw.o)
  /\ cbOut' = PopFront(cbOut, HSkip(rw.o), NumSubblocks)
  /\ rw' = [pc |-> IF NextOuter(rw.o) = NumOuter THEN "done" ELSE "reserve",
            o |-> NextOuter(rw.o), k |-> 0, sbh |-> 0, sbw |-> 0]
  /\ UNCHANGED <<args, reader, compute, cbIn0, cbIn1, cbPart, in0L1, in1L1,
                 outL1, dst, written>>
-------------------------------------------------------------------------------
(* compute *)

LastOut == compute.k = args.numBlocks - 1

\* acquire_dst, then reload this subblock's partial sum or start from zero.
SubblockStart(reload) == IF reload THEN "reload" ELSE "math"

WaitOperands ==
  /\ compute.pc = "wait"
  /\ cbIn0.cnt >= 1 /\ cbIn1.cnt >= 1
  /\ compute' = [compute EXCEPT !.pc = SubblockStart(compute.reload), !.s = 0]
  /\ dst' = <<>>
  /\ UNCHANGED <<args, reader, rw, cbIn0, cbIn1, cbOut, cbPart, in0L1, in1L1,
                 outL1, written>>

Reload ==
  /\ compute.pc = "reload"
  /\ cbPart.cnt >= 1
  /\ dst' = outL1[cbPart.rd].sum
  /\ cbPart' = PopFront(cbPart, 1, NumSubblocks)
  /\ compute' = [compute EXCEPT !.pc = "math"]
  /\ UNCHANGED <<args, reader, rw, cbIn0, cbIn1, cbOut, in0L1, in1L1, outL1,
                 written>>

MatmulTiles ==
  /\ compute.pc = "math"
  /\ dst' = Append(dst, <<in0L1[cbIn0.rd], in1L1[cbIn1.rd]>>)
  /\ compute' = [compute EXCEPT !.pc = "pack"]
  /\ UNCHANGED <<args, reader, rw, cbIn0, cbIn1, cbOut, cbPart, in0L1, in1L1,
                 outL1, written>>

\* Reserve and pack a final sum into CB16.
PackOut ==
  /\ compute.pc = "pack" /\ LastOut
  /\ HasRoom(cbOut, 1, NumSubblocks)
  /\ outL1' = [outL1 EXCEPT ![cbOut.wr] = [s |-> compute.s, sum |-> dst]]
  /\ compute' = [compute EXCEPT !.pc = "push"]
  /\ UNCHANGED <<args, reader, rw, cbIn0, cbIn1, cbOut, cbPart, in0L1, in1L1,
                 dst, written>>

\* Mutant: the wait asks for one subblock more than will be packed.
OutputDrainedAndOne ==
  compute.k = 0 => HasRoom(cbOut, compute.toWait + 1, NumSubblocks)

\* In the first K block a partial sum may only be packed once as many
\* subblocks of CB16 are free as partial sums will then be in the memory
\* the two CBs share: toWait grows by one subblock each time.
OutputDrained == compute.k = 0 => HasRoom(cbOut, compute.toWait, NumSubblocks)

PackPartial ==
  /\ compute.pc = "pack" /\ ~LastOut
  /\ OutputDrained
  /\ HasRoom(cbPart, 1, NumSubblocks)
  /\ outL1' = [outL1 EXCEPT ![cbPart.wr] = [s |-> compute.s, sum |-> dst]]
  /\ compute' = [compute EXCEPT !.pc = "push",
                                !.toWait = IF compute.k = 0 THEN @ + 1 ELSE @]
  /\ UNCHANGED <<args, reader, rw, cbIn0, cbIn1, cbOut, cbPart, in0L1, in1L1,
                 dst, written>>

\* cb_push_back to CB16 or CB24, release_dst, next subblock.
PushSubblock ==
  /\ compute.pc = "push"
  /\ IF LastOut
     THEN cbOut' = PushBack(cbOut, 1, NumSubblocks) /\ UNCHANGED cbPart
     ELSE cbPart' = PushBack(cbPart, 1, NumSubblocks) /\ UNCHANGED cbOut
  /\ compute' = [compute EXCEPT
                   !.pc = IF compute.s + 1 < NumSubblocks
                          THEN SubblockStart(compute.reload) ELSE "pop",
                   !.s = @ + 1]
  /\ dst' = <<>>
  /\ UNCHANGED <<args, reader, rw, cbIn0, cbIn1, in0L1, in1L1, outL1, written>>

\* Mutant: the partial sums of the first K block are not reloaded.
ReloadAfterSecond(k) == k > 0 /\ k + 1 < args.numBlocks /\ args.numBlocks > 1

\* enable_reload after the K block `k`: set once there are partial sums to
\* reload (spill), and FALSE again for a new outer block.
ReloadAfter(k) == k + 1 < args.numBlocks /\ args.numBlocks > 1

PopOperands ==
  /\ compute.pc = "pop"
  /\ cbIn0' = PopFront(cbIn0, 1, NumBuffer)
  /\ cbIn1' = PopFront(cbIn1, 1, NumBuffer)
  /\ compute' =
       IF compute.k + 1 < args.numBlocks
       THEN [compute EXCEPT !.pc = "wait", !.k = @ + 1, !.s = 0,
                            !.reload = ReloadAfter(compute.k)]
       ELSE [pc |-> IF NextOuter(compute.o) = NumOuter THEN "done" ELSE "wait",
             o |-> NextOuter(compute.o), k |-> 0, s |-> 0,
             reload |-> ReloadAfter(compute.k), toWait |-> 1]
  /\ UNCHANGED <<args, reader, rw, cbOut, cbPart, in0L1, in1L1, outL1, dst,
                 written>>
-------------------------------------------------------------------------------
Done == reader.pc = "done" /\ rw.pc = "done" /\ compute.pc = "done"

\* All three kernels have returned: the launch is over.
Finished == Done /\ UNCHANGED vars

ReaderStep == In0Reserve \/ In0Push

RWStep == In1Reserve \/ In1Push \/ StoreIssue \/ StoreBarrier
            \/ SkipRowTail \/ SkipRows

ComputeStep == WaitOperands \/ Reload \/ MatmulTiles \/ PackOut
                 \/ PackPartial \/ PushSubblock \/ PopOperands

Next == ReaderStep \/ RWStep \/ ComputeStep \/ Finished

\* Each kernel runs on a processor of its own and is never descheduled.
Fairness == WF_vars(ReaderStep) /\ WF_vars(RWStep) /\ WF_vars(ComputeStep)

Spec == Init /\ [][Next]_vars /\ Fairness
-------------------------------------------------------------------------------
(* Properties *)

Block == [mat : {"A", "B", "none"}, row : Nat, col : Nat]

Subblock == [s : Nat, sum : Seq(Block \X Block)]

ASSUME NotWrittenAssumption == NotWritten \notin Subblock

\* Types: in particular every CB stays within its capacity and every CB
\* position is inside the buffer, the wrap rule of cb_push_back/cb_pop_front.
TypeOK ==
  /\ args \in Programs
  /\ reader \in [pc : {"reserve", "read", "done"}, o : 0 .. NumOuter,
                 k : 0 .. args.numBlocks - 1]
  /\ rw \in [pc : {"reserve", "read", "front", "store", "skipW", "skipH",
                   "done"},
             o : 0 .. NumOuter, k : 0 .. args.numBlocks,
             sbh : 0 .. args.subH, sbw : 0 .. args.subW - 1]
  /\ compute \in [pc : {"wait", "reload", "math", "pack", "push", "pop", "done"},
                  o : 0 .. NumOuter, k : 0 .. args.numBlocks - 1,
                  s : 0 .. NumSubblocks, reload : BOOLEAN,
                  toWait : 1 .. NumSubblocks + 1]
  /\ cbIn0 \in CB(NumBuffer) /\ cbIn1 \in CB(NumBuffer)
  /\ cbOut \in CB(NumSubblocks) /\ cbPart \in CB(NumSubblocks)
  /\ in0L1 \in [0 .. NumBuffer - 1 -> Block]
  /\ in1L1 \in [0 .. NumBuffer - 1 -> Block]
  /\ outL1 \in [0 .. NumSubblocks - 1 ->
                  [s : 0 .. NumSubblocks - 1, sum : Seq(Block \X Block)]]
  /\ dst \in Seq(Block \X Block)
  /\ DOMAIN written = 0 .. NumOuter - 1

\* The slot compute has packed a subblock into and not pushed yet.
PackTarget == IF LastOut THEN cbOut.wr ELSE cbPart.wr

(* CB16 and CB24 share their memory: no slot may ever hold an output the   *)
(* writer still has to store and a partial sum still to be reloaded, and   *)
(* the compute kernel packs only into a slot that holds neither.           *)
SharedMemoryExclusive ==
  /\ Live(cbOut, NumSubblocks) \cap Live(cbPart, NumSubblocks) = {}
  /\ compute.pc = "push" =>
       PackTarget \notin Live(cbOut, NumSubblocks) \cup Live(cbPart, NumSubblocks)

\* One K step of outer block o, and the complete sum: one product per K
\* block, in K order.  The L1 kernels multiply block 0 of A every time.
Product(o, k) == <<ABlock(RowOf(o), IF args.useDram THEN k ELSE 0),
                   BBlock(k, ColOf(o))>>

FullSum(o) == [ i \in 1 .. args.numBlocks |-> Product(o, i - 1) ]

(* When the compute kernel multiplies, the fronts of CB0 and CB1, filled by *)
(* two kernels that never talk to each other, are the blocks of A and of B *)
(* of its own outer block and K block, completely read.                    *)
OperandsPaired ==
  compute.pc = "math" =>
    <<in0L1[cbIn0.rd], in1L1[cbIn1.rd]>> = Product(compute.o, compute.k)

(* By the time the first partial sum of an outer block is packed, every    *)
(* output of the previous one has been stored: the kernel that feeds B is  *)
(* the one that drains CB16, so the growing wait on CB16 never blocks.     *)
PartialsFindOutputDrained ==
  (compute.pc = "pack" /\ ~LastOut /\ compute.k = 0) => cbOut.cnt = 0

(* A launch leaves no circular buffer with an entry in it, whatever padding *)
(* the writer skipped, and the shared memory aligned for another block.    *)
LeavesBuffersEmpty ==
  Done => /\ cbIn0.cnt = 0 /\ cbIn1.cnt = 0
          /\ cbOut = EmptyCB /\ cbPart = EmptyCB

\* Where a kernel waits: the place it stands at, and what its CB lacks.
ReaderWaits == reader.pc = "reserve" /\ ~HasRoom(cbIn0, 1, NumBuffer)

RWWaits ==
  \/ rw.pc = "reserve" /\ ~HasRoom(cbIn1, 1, NumBuffer)
  \/ rw.pc = "front" /\ cbOut.cnt < 1
  \/ rw.pc = "skipW" /\ ~RowTailReady
  \/ rw.pc = "skipH" /\ cbOut.cnt < HSkip(rw.o)

ComputeWaits ==
  \/ compute.pc = "wait" /\ (cbIn0.cnt < 1 \/ cbIn1.cnt < 1)
  \/ compute.pc = "reload" /\ cbPart.cnt < 1
  \/ compute.pc = "pack" /\ LastOut /\ ~HasRoom(cbOut, 1, NumSubblocks)
  \/ /\ compute.pc = "pack" /\ ~LastOut
     /\ ~(OutputDrained /\ HasRoom(cbPart, 1, NumSubblocks))

(* The compute kernel waits for nothing but operands, and the three        *)
(* kernels never wait for each other in a circle: until all have returned  *)
(* one of them can go on, however they have been interleaved.              *)
NoCircularWait ==
  /\ ComputeWaits => compute.pc = "wait"
  /\ \/ Done
     \/ reader.pc # "done" /\ ~ReaderWaits
     \/ rw.pc # "done" /\ ~RWWaits
     \/ compute.pc # "done" /\ ~ComputeWaits

\* The subblocks of the output block the writer has to store.
HoldsValidTiles(o, s) ==
  /\ RowOf(o) = args.numBlocksH - 1 => s \div args.subW < args.nzH
  /\ ColOf(o) = args.numBlocksW - 1 => s % args.subW < args.nzW

Wanted ==
  [o \in 0 .. NumOuter - 1 |->
     [s \in 0 .. NumSubblocks - 1 |->
        IF HoldsValidTiles(o, s) THEN [s |-> s, sum |-> FullSum(o)]
                                 ELSE NotWritten]]

Promised == INSTANCE OutputBlocks WITH wanted <- Wanted

(* The three kernels together implement OutputBlocks: every valid subblock *)
(* is stored once, at its own place, with one product per K block, in K    *)
(* order; padding never is; and the launch completes all of them.          *)
ImplementsOutputBlocks == Promised!Spec

(* All three kernels return: none waits for ever on a circular buffer.     *)
Termination == <>Done
===============================================================================
