------------------------------ MODULE FusedMatmul ------------------------------
(***************************************************************************)
(* The compute kernel kept beside the one in use, with all it can be       *)
(* compiled for: a fused bias (FUSE_BIAS), an activation by the packer     *)
(* (PACK_RELU) or by the SFPU, accumulation in L1 by the packer            *)
(* (PACKER_L1_ACC) and an untilized output, over several batch elements.   *)
(*                                                                         *)
(* Its operands come from the single-core readers, which leave the output  *)
(* in CB16, or from a reader/writer like that of MatmulCore, which drains  *)
(* CB16 before it fetches for the next batch element.  None of them feeds  *)
(* CB3, where the kernel waits for the bias: whoever does is not in the    *)
(* repository, and is a part of the environment here (FeedBias).           *)
(*                                                                         *)
(* CB0 and CB1 are counted in blocks, CB16 and CB24 in strips: one row of  *)
(* tiles of a subblock, the least the kernel moves when it untilizes.      *)
(* Which block is at the front of CB0 and CB1 is MatmulCore's subject, and *)
(* the data formats the packer is configured for are left out.             *)
(***************************************************************************)
EXTENDS CircularBuffer, Sequences

CONSTANTS
  FusedPrograms,  \* the variants the kernel may be compiled for
  NotWritten      \* a strip of the output that is not available yet

(***************************************************************************)
(* A variant: numBlocks blocks along K, subH x subW subblocks of `rows`    *)
(* strips; shared: CB16 and CB24 are one memory; drained: a writer drains  *)
(* CB16.                                                                   *)
(***************************************************************************)
FusedProgram ==
  [ numBlocks : Nat \ {0}, subH : Nat \ {0}, subW : Nat \ {0},
    rows : Nat \ {0}, batch : Nat \ {0}, bias : BOOLEAN, l1Acc : BOOLEAN,
    untilize : BOOLEAN, act : {"none", "relu", "sfpu"},
    shared : BOOLEAN, drained : BOOLEAN ]

ASSUME FusedProgramsAssumption ==
  /\ FusedPrograms \subseteq FusedProgram
  /\ \A p \in FusedPrograms :
       \* the single-core readers know no batch
       /\ p.batch > 1 => p.drained
       \* a row of strips may be untilized in place only if it is one strip
       /\ p.shared /\ p.untilize => p.subW = 1
       \* num_blocks - 2 is unsigned: with one block the kernel would hang
       /\ p.l1Acc /\ ~p.bias => p.numBlocks > 1

VARIABLES
  args,         \* the variant of this launch; never changes
  in0,          \* in0 reader: the number of blocks pushed
  rw,           \* in1 reader/writer: [b, k, stored]
  compute,      \* compute kernel: [pc, b, k, s, h, reload, toWait]
  packer,       \* how the packer is configured: [relu, acc]
  cb,           \* CB0, CB1, CB16 and CB24
  biasRow,      \* CB3: the rows of bias tiles pushed, which are never popped
  l1,           \* contents of CB16's memory and of CB24's own, if it has one
  dst,          \* the DST registers: one value for each strip of a subblock
  written       \* what a writer has stored, by batch element and position

fusedVars ==
  <<args, in0, rw, compute, packer, cb, biasRow, l1, dst, written>>
-------------------------------------------------------------------------------
NumSubblocks == args.subH * args.subW

\* Strips of a row of subblocks, and of the block: the size of CB16 and CB24.
RowStrips == args.rows * args.subW

BlockStrips == args.subH * RowStrips

\* Mutant: the two CBs are given one memory even where rows of several strips
\* are untilized.
PartMemAlwaysShared == "out"

PartMem == IF args.shared THEN "out" ELSE "part"

\* The strips of the next subblock a kernel pushes or pops: their offsets.
Rows == 0 .. args.rows - 1

\* A value is the sequence of what has been done to it.
Mul(b, k, strip) == [op |-> "mul", b |-> b, k |-> k, strip |-> strip]

Bias(b, strip) == [op |-> "bias", b |-> b, k |-> 0, strip |-> strip]

Activation == [op |-> "act", b |-> 0, k |-> 0, strip |-> 0]

Activated(value) == Append(value, Activation)

LastOut == compute.k = args.numBlocks - 1

\* The bias loop runs after the last K block.
InBiasLoop == compute.k = args.numBlocks

\* untilize_mode_out_cb_id and mm_out_cb_id.
UntilizeModeOut == IF args.untilize THEN "part" ELSE "out"

MmOut == IF args.bias THEN "part" ELSE UntilizeModeOut

\* The CB the subblock in DST is packed into.
Target ==
  IF InBiasLoop THEN UntilizeModeOut ELSE IF LastOut THEN MmOut ELSE "part"

MemoryOf(c) == IF c = "out" THEN "out" ELSE PartMem
-------------------------------------------------------------------------------
FusedInit ==
  /\ args \in FusedPrograms
  /\ in0 = 0
  /\ rw = [b |-> 0, k |-> 0, stored |-> 0]
  /\ compute = [pc |-> "batch", b |-> 0, k |-> 0, s |-> 0, h |-> 0,
                reload |-> FALSE, toWait |-> args.rows]
  /\ packer = [relu |-> FALSE, acc |-> FALSE]
  /\ cb = [c \in {"in0", "in1", "out", "part"} |-> EmptyCB]
  /\ biasRow = 0
  /\ l1 = [m \in {"out", "part"} |-> [i \in 0 .. BlockStrips - 1 |-> <<>>]]
  /\ dst = [h \in Rows |-> <<>>]
  /\ written = [b \in 0 .. args.batch - 1 |->
                  [i \in 0 .. BlockStrips - 1 |-> NotWritten]]
-------------------------------------------------------------------------------
(* The kernels that feed CB0 and CB1, and the writer *)

In0Feed ==
  /\ in0 < args.batch * args.numBlocks
  /\ HasRoom(cb.in0, 1, NumBuffer)
  /\ in0' = in0 + 1
  /\ cb' = [cb EXCEPT !.in0 = PushBack(@, 1, NumBuffer)]
  /\ UNCHANGED <<args, rw, compute, packer, biasRow, l1, dst, written>>

In1Feed ==
  /\ rw.b < args.batch /\ rw.k < args.numBlocks
  /\ HasRoom(cb.in1, 1, NumBuffer)
  /\ rw' = IF rw.k + 1 = args.numBlocks /\ ~args.drained
           THEN [rw EXCEPT !.b = @ + 1, !.k = 0] ELSE [rw EXCEPT !.k = @ + 1]
  /\ cb' = [cb EXCEPT !.in1 = PushBack(@, 1, NumBuffer)]
  /\ UNCHANGED <<args, in0, compute, packer, biasRow, l1, dst, written>>

\* Wait for a subblock of CB16, store it, pass the barrier and pop it.
StoreStrips ==
  /\ rw.b < args.batch /\ rw.k = args.numBlocks
  /\ cb.out.cnt >= args.rows
  /\ written' = [written EXCEPT
                   ![rw.b] = [i \in DOMAIN @ |->
                                IF i - rw.stored \in Rows
                                THEN l1["out"][cb.out.rd + i - rw.stored]
                                ELSE @[i]]]
  /\ cb' = [cb EXCEPT !.out = PopFront(@, args.rows, BlockStrips)]
  /\ rw' = IF rw.stored + args.rows < BlockStrips
           THEN [rw EXCEPT !.stored = @ + args.rows]
           ELSE [b |-> rw.b + 1, k |-> 0, stored |-> 0]
  /\ UNCHANGED <<args, in0, compute, packer, biasRow, l1, dst>>
\* Not in the repository: a kernel that reads the row of bias tiles into CB3.
FeedBias ==
  /\ args.bias /\ biasRow = 0
  /\ biasRow' = 1
  /\ UNCHANGED <<args, in0, rw, compute, packer, cb, l1, dst, written>>
-------------------------------------------------------------------------------
(* compute: the loop over K *)

SubblockStart(reload) == IF reload THEN "reload" ELSE "math"

\* Mutant: the packer is left as the batch element before left it.
ReluKept == packer.relu

ReluAtStart == IF args.batch > 1 THEN FALSE ELSE packer.relu

StartBatch ==
  /\ compute.pc = "batch"
  /\ packer' = [packer EXCEPT !.relu = ReluAtStart]
  /\ compute' = [compute EXCEPT !.pc = "wait", !.k = 0, !.reload = FALSE,
                                !.toWait = args.rows]
  /\ UNCHANGED <<args, in0, rw, cb, biasRow, l1, dst, written>>

\* Without a bias the packer applies the activation from the last K block on.
WaitOperands ==
  /\ compute.pc = "wait"
  /\ cb.in0.cnt >= 1 /\ cb.in1.cnt >= 1
  /\ packer' = [packer EXCEPT
                  !.relu = @ \/ (args.act = "relu" /\ ~args.bias /\ LastOut)]
  /\ compute' = [compute EXCEPT !.pc = SubblockStart(compute.reload), !.s = 0]
  /\ dst' = [h \in Rows |-> <<>>]
  /\ UNCHANGED <<args, in0, rw, cb, biasRow, l1, written>>

Reload ==
  /\ compute.pc = "reload"
  /\ cb.part.cnt >= args.rows
  /\ dst' = [h \in Rows |-> l1[PartMem][cb.part.rd + h]]
  /\ cb' = [cb EXCEPT !.part = PopFront(@, args.rows, BlockStrips)]
  /\ compute' = [compute EXCEPT !.pc = "math"]
  /\ UNCHANGED <<args, in0, rw, packer, biasRow, l1, written>>

\* matmul_block, then the SFPU if this is the final value.
MatmulBlock ==
  LET Product(h) ==
        Append(dst[h], Mul(compute.b, compute.k, compute.s * args.rows + h))
  IN  /\ compute.pc = "math"
      /\ dst' = [h \in Rows |->
                   IF LastOut /\ ~args.bias /\ args.act = "sfpu"
                   THEN Activated(Product(h)) ELSE Product(h)]
      /\ compute' = [compute EXCEPT !.pc = "pack"]
      /\ UNCHANGED <<args, in0, rw, packer, cb, biasRow, l1, written>>

\* What packing puts where `old` was.
Packed(config, value, old) ==
  LET sum == IF config.acc THEN old \o value ELSE value
  IN  IF config.relu THEN Activated(sum) ELSE sum

\* The memory of CB c after the strips in DST have been packed at its end.
PackedInto(c, config) ==
  [l1 EXCEPT
     ![MemoryOf(c)] = [i \in DOMAIN @ |->
                         IF i - cb[c].wr \in Rows
                         THEN Packed(config, dst[i - cb[c].wr], @[i])
                         ELSE @[i]]]

\* llk_pack_reconfig_l1_acc: never in the first K block, and in the last one
\* only with a bias; without one that block reloads the sums.
Accumulates(k) == args.l1Acc /\ k > 0 /\ (LastOut => args.bias)

\* In the first K block outputs of the batch element before must have left.
OutputDrained ==
  compute.k = 0 => HasRoom(cb.out, compute.toWait, BlockStrips)

\* Mutant: the amount to wait for grows in every K block.
NextToWaitAlways == compute.toWait + args.rows

NextToWait ==
  IF compute.k = 0 THEN compute.toWait + args.rows ELSE compute.toWait

PackPartial ==
  /\ compute.pc = "pack" /\ ~LastOut /\ ~InBiasLoop
  /\ OutputDrained
  /\ HasRoom(cb.part, args.rows, BlockStrips)
  /\ packer' = [packer EXCEPT !.acc = Accumulates(compute.k)]
  /\ l1' = PackedInto("part", packer')
  /\ compute' = [compute EXCEPT !.pc = "push", !.toWait = NextToWait]
  /\ UNCHANGED <<args, in0, rw, cb, biasRow, dst, written>>

\* The last K block, and the bias loop, where nothing accumulates.
PackFinal ==
  /\ compute.pc = "pack" /\ (LastOut \/ InBiasLoop)
  /\ HasRoom(cb[Target], args.rows, BlockStrips)
  /\ packer' = [packer EXCEPT !.acc = LastOut /\ Accumulates(compute.k)]
  /\ l1' = PackedInto(Target, packer')
  /\ compute' = [compute EXCEPT !.pc = "push"]
  /\ UNCHANGED <<args, in0, rw, cb, biasRow, dst, written>>

\* Where the kernel goes once the sums of a block are final.
AfterBias == IF args.untilize THEN "untilize" ELSE "batchEnd"

\* release_dst and the next subblock, of this K block or of the bias loop.
PushSubblock ==
  /\ compute.pc = "push"
  /\ cb' = [cb EXCEPT ![Target] = PushBack(@, args.rows, BlockStrips)]
  /\ dst' = [h \in Rows |-> <<>>]
  /\ compute' =
       IF compute.s + 1 < NumSubblocks
       THEN [compute EXCEPT !.s = @ + 1,
                            !.pc = IF InBiasLoop THEN "bias"
                                   ELSE SubblockStart(compute.reload)]
       ELSE [compute EXCEPT !.s = 0,
                            !.pc = IF InBiasLoop THEN AfterBias ELSE "fold"]
  /\ UNCHANGED <<args, in0, rw, packer, biasRow, l1, written>>

\* Mutant: the sums to be reloaded by the last K block are dropped too.
FoldsPartialsTooLate ==
  args.l1Acc /\ compute.k < args.numBlocks - 1

\* Sums accumulating in L1 are popped without reading them: the next K block
\* packs onto the same place.  The subtraction is unsigned, and does not wrap
\* by FusedProgramsAssumption.
FoldsPartials ==
  args.l1Acc /\ compute.k < args.numBlocks - (IF args.bias THEN 1 ELSE 2)

\* Mutant: off by one, the last K block finds nothing to reload.
ReloadTooLate ==
  IF args.l1Acc
  THEN ~args.bias /\ (compute.reload \/ LastOut)
  ELSE args.numBlocks > 1

\* enable_reload after this K block.
ReloadNext ==
  IF args.l1Acc
  THEN ~args.bias /\ (compute.reload
                        \/ compute.k = args.numBlocks - 2)
  ELSE args.numBlocks > 1

\* The end of a K block: the operands are popped.
EndBlock ==
  /\ compute.pc = "fold"
  /\ FoldsPartials => cb.part.cnt >= BlockStrips
  /\ cb' = [cb EXCEPT !.in0 = PopFront(@, 1, NumBuffer),
                      !.in1 = PopFront(@, 1, NumBuffer),
                      !.part = IF FoldsPartials
                               THEN PopFront(@, BlockStrips, BlockStrips)
                               ELSE @]
  /\ compute' = [compute EXCEPT
                   !.k = @ + 1, !.reload = ReloadNext,
                   !.pc = IF ~LastOut THEN "wait"
                          ELSE IF args.bias THEN "bias" ELSE AfterBias]
  /\ UNCHANGED <<args, in0, rw, packer, biasRow, l1, dst, written>>
-------------------------------------------------------------------------------
(* compute: the bias loop and the untilized output *)

\* Before the loop the kernel waits for the row of bias tiles.  It leaves them
\* in CB3, so that the next batch element finds them there.
BiasArrived == compute.s = 0 => biasRow >= 1

\* Reload a sum, add the bias, pop, and apply the activation: here by the
\* SFPU, or by the packer from the first subblock of the loop on.
AddBias ==
  LET Biased(h) == Append(l1[PartMem][cb.part.rd + h],
                          Bias(compute.b, compute.s * args.rows + h))
  IN  /\ compute.pc = "bias"
      /\ BiasArrived
      /\ cb.part.cnt >= args.rows
      /\ dst' = [h \in Rows |-> IF args.act = "sfpu" THEN Activated(Biased(h))
                                                     ELSE Biased(h)]
      /\ packer' = [relu |-> packer.relu \/ args.act = "relu", acc |-> FALSE]
      /\ cb' = [cb EXCEPT !.part = PopFront(@, args.rows, BlockStrips)]
      /\ compute' = [compute EXCEPT !.pc = "pack"]
      /\ UNCHANGED <<args, in0, rw, biasRow, l1, written>>

\* A row of subblocks is complete; the packer only copies from here on.
StartRow ==
  /\ compute.pc = "untilize"
  /\ cb.part.cnt >= RowStrips
  /\ packer' = [relu |-> FALSE, acc |-> FALSE]
  /\ compute' = [compute EXCEPT !.pc = "row", !.h = 0]
  /\ UNCHANGED <<args, in0, rw, cb, biasRow, l1, dst, written>>

\* Where in CB24 the row h of the n-th subblock of a row of subblocks is.
StripOfRow(n, h) == n * args.rows + h

\* Row h of a row of subblocks: one strip of each of them, side by side.
\* After the last row the row of subblocks is popped.
UntilizeRow ==
  LET last == compute.h + 1 = args.rows
  IN  /\ compute.pc = "row"
      /\ HasRoom(cb.out, args.subW, BlockStrips)
      /\ l1' = [l1 EXCEPT
                  !["out"] = [i \in DOMAIN @ |->
                    IF i - cb.out.wr \in 0 .. args.subW - 1
                    THEN Packed(packer,
                                l1[PartMem][cb.part.rd
                                  + StripOfRow(i - cb.out.wr, compute.h)],
                                @[i])
                    ELSE @[i]]]
      /\ cb' = [cb EXCEPT !.out = PushBack(@, args.subW, BlockStrips),
                          !.part = IF last
                                   THEN PopFront(@, RowStrips, BlockStrips)
                                   ELSE @]
      /\ compute' =
           IF ~last THEN [compute EXCEPT !.h = @ + 1]
           ELSE IF compute.s + 1 < args.subH
           THEN [compute EXCEPT !.pc = "untilize", !.s = @ + 1]
           ELSE [compute EXCEPT !.pc = "batchEnd", !.s = 0]
      /\ UNCHANGED <<args, in0, rw, packer, biasRow, dst, written>>

EndBatch ==
  /\ compute.pc = "batchEnd"
  /\ compute' = [compute EXCEPT
                   !.b = @ + 1,
                   !.pc = IF compute.b + 1 < args.batch THEN "batch"
                          ELSE "done"]
  /\ UNCHANGED <<args, in0, rw, packer, cb, biasRow, l1, dst, written>>
-------------------------------------------------------------------------------
FusedDone ==
  in0 = args.batch * args.numBlocks /\ rw.b = args.batch /\ compute.pc = "done"

FusedFinished == FusedDone /\ UNCHANGED fusedVars

RWStep == In1Feed \/ StoreStrips

ComputeStep ==
  StartBatch \/ WaitOperands \/ Reload \/ MatmulBlock \/ PackPartial
    \/ PackFinal \/ PushSubblock \/ EndBlock \/ AddBias \/ StartRow
    \/ UntilizeRow \/ EndBatch

FusedNext ==
  In0Feed \/ RWStep \/ FeedBias \/ ComputeStep \/ FusedFinished

\* As in MatmulCore, each kernel has a processor of its own.  That a kernel
\* compiled for a bias is given one is an assumption about the environment:
\* with the readers of the repository alone it waits for it for ever.
FusedFairness ==
  /\ WF_fusedVars(In0Feed) /\ WF_fusedVars(RWStep) /\ WF_fusedVars(ComputeStep)
  /\ WF_fusedVars(FeedBias)

FusedSpec == FusedInit /\ [][FusedNext]_fusedVars /\ FusedFairness
-------------------------------------------------------------------------------
(* Properties *)

Value == Seq([op : {"mul", "bias", "act"}, b : Nat, k : Nat, strip : Nat])

ASSUME NotWrittenAssumption == NotWritten \notin Value

\* Types: in particular no CB of any variant over- or underflows, and no
\* position of one leaves it.
FusedTypeOK ==
  /\ args \in FusedPrograms
  /\ in0 \in 0 .. args.batch * args.numBlocks
  /\ rw \in [b : 0 .. args.batch, k : 0 .. args.numBlocks,
             stored : 0 .. BlockStrips]
  /\ compute \in [pc : {"batch", "wait", "reload", "math", "pack", "push",
                        "fold", "bias", "untilize", "row", "batchEnd", "done"},
                  b : 0 .. args.batch, k : 0 .. args.numBlocks,
                  s : 0 .. NumSubblocks - 1, h : Rows, reload : BOOLEAN,
                  toWait : args.rows .. BlockStrips + args.rows]
  /\ packer \in [relu : BOOLEAN, acc : BOOLEAN]
  /\ cb.in0 \in CB(NumBuffer) /\ cb.in1 \in CB(NumBuffer)
  /\ cb.out \in CB(BlockStrips) /\ cb.part \in CB(BlockStrips)
  /\ biasRow \in 0 .. 1
  /\ l1 \in [{"out", "part"} -> [0 .. BlockStrips - 1 -> Value]]
  /\ dst \in [Rows -> Value]

\* The positions of CB24 whose strips are still to be read.
StillToRead ==
  Live(cb.part, BlockStrips) \
    (IF compute.pc = "row"
     THEN { cb.part.rd + StripOfRow(n, h) :
              n \in 0 .. args.subW - 1, h \in 0 .. compute.h - 1 }
     ELSE {})

(* Where CB16 and CB24 share their memory, no place holds an output not    *)
(* yet stored and a sum still to be read, not even while rows are          *)
(* untilized in place; and a subblock is packed over neither.              *)
NoLiveStripOverwritten ==
  /\ PartMem = "out" => Live(cb.out, BlockStrips) \cap StillToRead = {}
  /\ compute.pc = "push" =>
       \A h \in Rows :
         LET i == cb[Target].wr + h
         IN  /\ MemoryOf(Target) = "out" =>
                   i \notin Live(cb.out, BlockStrips)
             /\ MemoryOf(Target) = PartMem => i \notin StillToRead

(* A launch leaves no operand and no partial sum behind, in whichever way  *)
(* the sums were kept, and in CB16 exactly the block nobody has drained.   *)
LeavesOnlyOutput ==
  FusedDone =>
    /\ cb.in0.cnt = 0 /\ cb.in1.cnt = 0
    /\ cb.part = EmptyCB
    /\ cb.out.cnt = (IF args.drained THEN 0 ELSE BlockStrips)
    /\ cb.out.wr = 0 /\ cb.out.rd = 0

\* Where a kernel waits: the place it stands at, and what its CB lacks.
In0Waits ==
  in0 < args.batch * args.numBlocks /\ ~HasRoom(cb.in0, 1, NumBuffer)

RWWaits ==
  /\ rw.b < args.batch
  /\ IF rw.k < args.numBlocks THEN ~HasRoom(cb.in1, 1, NumBuffer)
                             ELSE cb.out.cnt < args.rows

BiasMissing == compute.pc = "bias" /\ ~BiasArrived

ComputeWaits ==
  \/ compute.pc = "wait" /\ (cb.in0.cnt < 1 \/ cb.in1.cnt < 1)
  \/ compute.pc \in {"reload", "bias"} /\ cb.part.cnt < args.rows
  \/ BiasMissing
  \/ /\ compute.pc = "pack" /\ ~LastOut /\ ~InBiasLoop
     /\ ~(OutputDrained /\ HasRoom(cb.part, args.rows, BlockStrips))
  \/ /\ compute.pc = "pack" /\ (LastOut \/ InBiasLoop)
     /\ ~HasRoom(cb[Target], args.rows, BlockStrips)
  \/ compute.pc = "fold" /\ FoldsPartials /\ cb.part.cnt < BlockStrips
  \/ compute.pc = "untilize" /\ cb.part.cnt < RowStrips
  \/ compute.pc = "row" /\ ~HasRoom(cb.out, args.subW, BlockStrips)

(* As in MatmulCore: in no variant does the compute kernel wait for        *)
(* anything but operands, or the bias nobody has fed yet; and until all    *)
(* have returned a kernel can go on, unless it is that bias they wait for. *)
NoCircularWait ==
  /\ ComputeWaits => compute.pc = "wait" \/ BiasMissing
  /\ \/ FusedDone
     \/ in0 < args.batch * args.numBlocks /\ ~In0Waits
     \/ rw.b < args.batch /\ ~RWWaits
     \/ compute.pc # "done" /\ ~ComputeWaits
     \/ BiasMissing

\* Which strip of the block is the i-th of the output.
StripAt(i) ==
  IF args.untilize
  THEN LET row == i \div args.subW
       IN  ((row \div args.rows) * args.subW + (i % args.subW)) * args.rows
             + (row % args.rows)
  ELSE i

\* One product per K block in K order, the bias once, then the activation.
FinalValue(b, strip) ==
  LET sum == [k \in 1 .. args.numBlocks |-> Mul(b, k - 1, strip)]
      biased == IF args.bias THEN Append(sum, Bias(b, strip)) ELSE sum
  IN  IF args.act = "none" THEN biased ELSE Activated(biased)

Wanted ==
  [b \in 0 .. args.batch - 1 |->
     [i \in 0 .. BlockStrips - 1 |-> FinalValue(b, StripAt(i))]]

\* What has been handed over: stored, or left in CB16 if nobody drains it.
Available ==
  IF args.drained THEN written
  ELSE [b \in {0} |->
          [i \in 0 .. BlockStrips - 1 |->
             IF i < cb.out.cnt THEN l1["out"][i] ELSE NotWritten]]

Promised == INSTANCE OutputBlocks WITH wanted <- Wanted, written <- Available

(* Every variant of the kernel implements OutputBlocks: each strip is      *)
(* handed over once, at its place, and does not change any more; its value *)
(* has every product once, the bias once and the activation last.          *)
ImplementsOutputBlocks == Promised!Spec

(* No variant that is fed its bias, if it has one, leaves a kernel waiting *)
(* for ever on a circular buffer.                                          *)
FusedTermination == <>FusedDone
===============================================================================
