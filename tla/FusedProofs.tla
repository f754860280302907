------------------------------ MODULE FusedProofs ------------------------------
(***************************************************************************)
(* Theorems about FusedMatmul, for every set of variants of the kernel.    *)
(*                                                                         *)
(* The invariant FusedIInv gives every CB as a function of where the       *)
(* kernels stand.  A CB that is filled and read from end to end is a Ring: *)
(* the strips it held, those pushed and those popped since.  For CB24 all  *)
(* three follow from the compute kernel's place alone (PartialsPlace),     *)
(* which is where the variants differ: whether a K block finds sums there, *)
(* takes them, and where it packs its own.  For CB16 they are what compute *)
(* has Produced of a batch element and what the writer has stored of it;   *)
(* the two kernels can stand in three ways only (InStep, WriterBehind,     *)
(* WriterAhead).  Operands are counted from the launch (Fed, Consumed).    *)
(* From it follow the buffer bounds, the use of shared memory, that no     *)
(* circular wait arises, and that a launch is finite.                      *)
(*                                                                         *)
(* FusedDataInv adds what the strips hold.  In CB24, which a loop over     *)
(* subblocks may be reading and packing at once, the strips it has Passed  *)
(* hold the next sum and the others still the last one (SumAt); DST holds  *)
(* what was reloaded and computed since; and CB16 the final values of all  *)
(* that has been Produced.  What was handed over is then a function of how *)
(* far the kernels are (AvailableIs) that only grows, which is what        *)
(* OutputBlocks asks for.                                                  *)
(***************************************************************************)
EXTENDS FusedMatmul, TLAPS

-------------------------------------------------------------------------------
(* The invariant *)

\* Strips of the subblocks before the one the compute kernel is at.
Offset == compute.s * args.rows

\* A CB that held `held` strips when both its positions were 0, after strips
\* have been pushed and popped, no more of each than the CB has places.
Ring(held, given, taken, size) ==
  [cnt |-> held + given - taken, wr |-> IF given = size THEN 0 ELSE given,
   rd |-> IF taken = size THEN 0 ELSE taken]

\* Whether CB24 was full when the loop over subblocks began.
HasSums == InBiasLoop \/ compute.reload

IfSums(n) == IF HasSums THEN n ELSE 0

\* What has gone to CB c, if c is where the loop over subblocks packs to.
IfTo(c, n) == IF Target = c THEN n ELSE 0

Places ==
  {"batch", "wait", "reload", "math", "pack", "push", "fold", "bias",
   "untilize", "row", "batchEnd", "done"}

\* The places in a loop over subblocks, and those in one after the reload.
InSubblock == {"reload", "bias", "math", "pack", "push"}

AfterReload == {"math", "pack", "push"}

\* Where the loop variables of the compute kernel may stand at each place.
ComputePlace ==
  /\ compute.pc = "done" <=> compute.b = args.batch
  /\ compute.pc \in {"wait", "reload", "math", "fold"} =>
       compute.k < args.numBlocks
  /\ compute.pc \in {"bias", "untilize", "row", "batchEnd"} => InBiasLoop
  /\ compute.pc \in InSubblock /\ InBiasLoop => args.bias
  /\ compute.pc = "bias" => args.bias
  /\ compute.pc \in {"untilize", "row"} =>
       args.untilize /\ compute.s < args.subH
  /\ compute.pc = "fold" => compute.s = 0
  /\ compute.pc = "reload" => compute.reload

\* The sums are reloaded in every K block after the first or, if the packer
\* accumulates them, in the last, where there is no bias.
ReloadPlace ==
  /\ compute.pc \in {"wait", "fold"} \cup InSubblock /\ ~InBiasLoop =>
       compute.reload =
         (IF args.l1Acc THEN ~args.bias /\ LastOut ELSE compute.k > 0)
  /\ compute.pc = "wait" /\ compute.k = 0 => compute.toWait = args.rows
  /\ compute.pc \in {"reload", "math", "pack"} /\ compute.k = 0 =>
       compute.toWait <= args.rows + Offset
  /\ compute.pc = "push" /\ compute.k = 0 =>
       compute.toWait <= args.rows + Offset + args.rows

\* CB24 follows from the compute kernel's place alone.
PartialsPlace ==
  /\ compute.pc \in {"batch", "batchEnd", "done"} => cb.part = EmptyCB
  /\ compute.pc = "wait" =>
       cb.part = Ring(IfSums(BlockStrips), 0, 0, BlockStrips)
  /\ compute.pc \in {"reload", "bias"} =>
       cb.part = Ring(BlockStrips, IfTo("part", Offset), Offset, BlockStrips)
  /\ compute.pc \in AfterReload =>
       cb.part = Ring(IfSums(BlockStrips), IfTo("part", Offset),
                      IfSums(Offset + args.rows), BlockStrips)
  /\ compute.pc = "fold" =>
       cb.part = Ring(IfSums(BlockStrips), IfTo("part", BlockStrips),
                      IfSums(BlockStrips), BlockStrips)
  /\ compute.pc \in {"untilize", "row"} =>
       cb.part = Ring(BlockStrips, 0, compute.s * RowStrips, BlockStrips)

\* Strips of this batch element's output pushed to CB16.
Produced ==
  IF compute.pc = "batchEnd" THEN BlockStrips
  ELSE IF compute.pc = "untilize" THEN compute.s * RowStrips
  ELSE IF compute.pc = "row"
  THEN compute.s * RowStrips + compute.h * args.subW
  ELSE IF compute.pc = "fold" THEN IfTo("out", BlockStrips)
  ELSE IF compute.pc \in InSubblock THEN IfTo("out", Offset)
  ELSE 0

RWPlace ==
  /\ rw.b = args.batch => rw.k = 0
  /\ rw.k < args.numBlocks => rw.stored = 0
  /\ rw.stored < BlockStrips
  /\ ~args.drained => rw.k < args.numBlocks

\* The batch element whose output is at the front of CB16.
WriterAt == IF args.drained THEN rw.b ELSE 0

\* The three ways the compute kernel and the writer can stand.
InStep ==
  /\ compute.b = WriterAt
  /\ cb.out = Ring(0, Produced, rw.stored, BlockStrips)

WriterBehind ==
  /\ compute.b = WriterAt + 1
  /\ compute.pc \in {"batch", "wait", "done"}
  /\ compute.pc = "wait" => compute.k = 0
  /\ args.drained => rw.k = args.numBlocks
  /\ cb.out = Ring(BlockStrips, 0, rw.stored, BlockStrips)

WriterAhead ==
  /\ WriterAt = compute.b + 1
  /\ compute.pc \in {"fold", "batchEnd"} /\ Produced = BlockStrips
  /\ rw.stored = 0
  /\ cb.out = EmptyCB

\* The blocks of operands popped, and those of B pushed, since the launch.
BlockOf == IF compute.pc \in {"batch", "done"} THEN 0 ELSE compute.k

Consumed == compute.b * args.numBlocks + BlockOf

Fed == rw.b * args.numBlocks + rw.k

OperandsPlace ==
  /\ cb.in0.cnt = in0 - Consumed
  /\ cb.in1.cnt = Fed - Consumed
  /\ compute.pc \in {"fold"} \cup InSubblock /\ ~InBiasLoop =>
       cb.in0.cnt >= 1 /\ cb.in1.cnt >= 1

CBsTyped ==
  cb \in [{"in0", "in1", "out", "part"} ->
            CB(NumBuffer) \cup CB(BlockStrips)]

FusedIInv ==
  /\ FusedTypeOK /\ CBsTyped
  /\ ComputePlace /\ ReloadPlace
  /\ PartialsPlace
  /\ RWPlace
  /\ OperandsPlace
  /\ InStep \/ WriterBehind \/ WriterAhead

\* The types of the kernels' variables, as sets of their own.
ComputeStates ==
  [pc : Places, b : 0 .. args.batch, k : 0 .. args.numBlocks,
   s : 0 .. NumSubblocks - 1, h : Rows, reload : BOOLEAN,
   toWait : args.rows .. BlockStrips + args.rows]

RWStates ==
  [b : 0 .. args.batch, k : 0 .. args.numBlocks, stored : 0 .. BlockStrips]

Memories == [{"out", "part"} -> [0 .. BlockStrips - 1 -> Value]]
-------------------------------------------------------------------------------
(* Products *)

\* A sequence of `a` pieces of `b` strips each.
LEMMA Pieces ==
  ASSUME NEW a \in Nat, NEW b \in Nat \ {0}, NEW i \in 0 .. a - 1
  PROVE  /\ i * b \in Nat /\ 0 * b = 0
         /\ (i + 1) * b = i * b + b
         /\ i * b + b <= a * b
         /\ i * b + b = a * b <=> i + 1 = a
<1>1. i * b \in Nat /\ 0 * b = 0 /\ (i + 1) * b = i * b + b
  OBVIOUS
<1>2. PICK d \in Nat : a = i + 1 + d
  <2>1. a - (i + 1) \in Nat /\ a = i + 1 + (a - (i + 1))
    OBVIOUS
  <2> QED
    BY <2>1
<1>3. a * b = (i * b + b) + d * b
  BY <1>2
<1>4. d * b \in Nat /\ (d = 0 <=> d * b = 0)
  OBVIOUS
<1>5. a = i + 1 <=> d = 0
  BY <1>2
<1> QED
  BY <1>1, <1>3, <1>4, <1>5

LEMMA MonotoneProduct ==
  ASSUME NEW a \in Nat, NEW b \in Nat, NEW c \in Nat, a <= b
  PROVE  a * c <= b * c
  OBVIOUS

LEMMA PositiveProduct ==
  ASSUME NEW a \in Nat \ {0}, NEW b \in Nat \ {0}
  PROVE  a * b \in Nat \ {0}
  OBVIOUS

\* What the assumption on FusedPrograms says of the variant in force.
LEMMA Variant ==
  ASSUME args \in FusedPrograms
  PROVE  /\ args.numBlocks \in Nat \ {0} /\ args.subH \in Nat \ {0}
         /\ args.subW \in Nat \ {0} /\ args.rows \in Nat \ {0}
         /\ args.batch \in Nat \ {0}
         /\ args.bias \in BOOLEAN /\ args.l1Acc \in BOOLEAN
         /\ args.untilize \in BOOLEAN /\ args.shared \in BOOLEAN
         /\ args.drained \in BOOLEAN
         /\ ~args.drained => args.batch = 1
         /\ args.shared /\ args.untilize => args.subW = 1
         /\ args.l1Acc /\ ~args.bias => args.numBlocks > 1
         /\ NumSubblocks \in Nat \ {0} /\ RowStrips \in Nat \ {0}
         /\ BlockStrips \in Nat \ {0}
         /\ BlockStrips = NumSubblocks * args.rows
         /\ BlockStrips = args.subH * RowStrips
         /\ RowStrips = args.rows * args.subW
         /\ args.subH <= NumSubblocks
<1>1. args \in FusedProgram
  BY FusedProgramsAssumption
<1>2. /\ args.numBlocks \in Nat \ {0} /\ args.subH \in Nat \ {0}
      /\ args.subW \in Nat \ {0} /\ args.rows \in Nat \ {0}
      /\ args.batch \in Nat \ {0}
      /\ args.bias \in BOOLEAN /\ args.l1Acc \in BOOLEAN
      /\ args.untilize \in BOOLEAN /\ args.shared \in BOOLEAN
      /\ args.drained \in BOOLEAN
  BY <1>1 DEF FusedProgram
<1>3. /\ ~args.drained => args.batch = 1
      /\ args.shared /\ args.untilize => args.subW = 1
      /\ args.l1Acc /\ ~args.bias => args.numBlocks > 1
  BY <1>2, FusedProgramsAssumption
<1>4. NumSubblocks \in Nat \ {0} /\ RowStrips \in Nat \ {0}
  BY <1>2, PositiveProduct DEF NumSubblocks, RowStrips
<1>5. BlockStrips \in Nat \ {0}
  BY <1>2, <1>4, PositiveProduct DEF BlockStrips
<1>6. BlockStrips = NumSubblocks * args.rows
  BY <1>2 DEF BlockStrips, RowStrips, NumSubblocks
<1>7. args.subH <= NumSubblocks
  <2> DEFINE a == args.subH  c == args.subW
  <2>1. a \in Nat \ {0} /\ c \in Nat \ {0}
    BY <1>2
  <2> HIDE DEF a, c
  <2>2. PICK d \in Nat : c = d + 1
    <3>1. c - 1 \in Nat /\ c = (c - 1) + 1
      BY <2>1
    <3> QED
      BY <3>1
  <2>3. a * c = a * d + a /\ a * d \in Nat
    BY <2>1, <2>2
  <2>4. a <= a * c
    BY <2>1, <2>3
  <2> QED
    BY <2>4 DEF a, c, NumSubblocks
<1> QED
  BY <1>2, <1>3, <1>4, <1>5, <1>6, <1>7 DEF BlockStrips, RowStrips
-------------------------------------------------------------------------------
(* Circular buffers *)

LEMMA RingTyped ==
  ASSUME NEW size \in Nat \ {0}, NEW held \in Nat, NEW given \in 0 .. size,
         NEW taken \in 0 .. size, held + given - taken \in 0 .. size
  PROVE  Ring(held, given, taken, size) \in CB(size)
  BY DEF Ring, CB

LEMMA RingFields ==
  ASSUME NEW size, NEW held, NEW given, NEW taken
  PROVE  /\ Ring(held, given, taken, size).cnt = held + given - taken
         /\ Ring(held, given, taken, size).wr =
              (IF given = size THEN 0 ELSE given)
         /\ Ring(held, given, taken, size).rd =
              (IF taken = size THEN 0 ELSE taken)
  BY DEF Ring

LEMMA RingPush ==
  ASSUME NEW size \in Nat \ {0}, NEW held \in Nat, NEW given \in Nat,
         NEW taken \in Nat, NEW n \in Nat \ {0}, given + n <= size
  PROVE  PushBack(Ring(held, given, taken, size), n, size)
           = Ring(held, given + n, taken, size)
<1> DEFINE c == Ring(held, given, taken, size)
           w == IF given + n = size THEN 0 ELSE given + n
<1>1. /\ c.cnt = held + given - taken /\ c.wr = given
      /\ c = [cnt |-> held + given - taken, wr |-> given, rd |-> c.rd]
      /\ c.rd = IF taken = size THEN 0 ELSE taken
  BY DEF Ring
<1>2. PushBack(c, n, size) = [c EXCEPT !.cnt = c.cnt + n, !.wr = w]
  BY <1>1 DEF PushBack, Advance
<1>3. PushBack(c, n, size) = [cnt |-> c.cnt + n, wr |-> w, rd |-> c.rd]
  BY <1>1, <1>2
<1>4. c.cnt + n = held + (given + n) - taken
  BY <1>1
<1> QED
  BY <1>1, <1>3, <1>4 DEF Ring

LEMMA RingPop ==
  ASSUME NEW size \in Nat \ {0}, NEW held \in Nat, NEW given \in Nat,
         NEW taken \in Nat, NEW n \in Nat \ {0}, taken + n <= size
  PROVE  PopFront(Ring(held, given, taken, size), n, size)
           = Ring(held, given, taken + n, size)
<1> DEFINE c == Ring(held, given, taken, size)
           r == IF taken + n = size THEN 0 ELSE taken + n
<1>1. /\ c.cnt = held + given - taken /\ c.rd = taken
      /\ c = [cnt |-> held + given - taken, wr |-> c.wr, rd |-> taken]
      /\ c.wr = IF given = size THEN 0 ELSE given
  BY DEF Ring
<1>2. PopFront(c, n, size) = [c EXCEPT !.cnt = c.cnt - n, !.rd = r]
  BY <1>1 DEF PopFront, Advance
<1>3. PopFront(c, n, size) = [cnt |-> c.cnt - n, wr |-> c.wr, rd |-> r]
  BY <1>1, <1>2
<1>4. c.cnt - n = held + given - (taken + n)
  BY <1>1
<1> QED
  BY <1>1, <1>3, <1>4 DEF Ring

\* A CB that has been filled and read from end to end is back at its start.
LEMMA RingRound ==
  ASSUME NEW size \in Nat \ {0}
  PROVE  /\ Ring(0, 0, 0, size) = EmptyCB
         /\ Ring(0, size, size, size) = EmptyCB
         /\ Ring(size, 0, size, size) = EmptyCB
         /\ Ring(0, size, 0, size) = Ring(size, 0, 0, size)
         /\ Ring(size, size, size, size) = Ring(size, 0, 0, size)
  BY DEF Ring, EmptyCB

\* Operands move one block at a time.
LEMMA OnePush ==
  ASSUME NEW c \in CB(NumBuffer), HasRoom(c, 1, NumBuffer)
  PROVE  /\ PushBack(c, 1, NumBuffer) \in CB(NumBuffer)
         /\ PushBack(c, 1, NumBuffer).cnt = c.cnt + 1
<1>1. c.cnt \in 0 .. 2 /\ c.wr \in 0 .. 1 /\ c.rd \in 0 .. 1
  BY DEF CB, NumBuffer
<1>2. c.cnt + 1 \in 0 .. 2
  BY <1>1 DEF HasRoom, NumBuffer
<1>3. c = [cnt |-> c.cnt, wr |-> c.wr, rd |-> c.rd]
  BY DEF CB
<1> DEFINE w == IF c.wr + 1 = 2 THEN 0 ELSE c.wr + 1
<1>4. PushBack(c, 1, 2) = [c EXCEPT !.cnt = c.cnt + 1, !.wr = w]
  BY DEF PushBack, Advance
<1>5. PushBack(c, 1, 2) = [cnt |-> c.cnt + 1, wr |-> w, rd |-> c.rd]
  BY <1>3, <1>4
<1> QED
  BY <1>1, <1>2, <1>5 DEF CB, NumBuffer

LEMMA OnePop ==
  ASSUME NEW c \in CB(NumBuffer), c.cnt >= 1
  PROVE  /\ PopFront(c, 1, NumBuffer) \in CB(NumBuffer)
         /\ PopFront(c, 1, NumBuffer).cnt = c.cnt - 1
<1>1. c.cnt \in 0 .. 2 /\ c.wr \in 0 .. 1 /\ c.rd \in 0 .. 1
  BY DEF CB, NumBuffer
<1>2. c.cnt - 1 \in 0 .. 2
  BY <1>1
<1>3. c = [cnt |-> c.cnt, wr |-> c.wr, rd |-> c.rd]
  BY DEF CB
<1> DEFINE r == IF c.rd + 1 = 2 THEN 0 ELSE c.rd + 1
<1>4. PopFront(c, 1, 2) = [c EXCEPT !.cnt = c.cnt - 1, !.rd = r]
  BY DEF PopFront, Advance
<1>5. PopFront(c, 1, 2) = [cnt |-> c.cnt - 1, wr |-> c.wr, rd |-> r]
  BY <1>3, <1>4
<1> QED
  BY <1>1, <1>2, <1>5 DEF CB, NumBuffer
-------------------------------------------------------------------------------
(* What every step below starts from *)

LEMMA StateFacts ==
  ASSUME FusedIInv
  PROVE  /\ args \in FusedPrograms
         /\ in0 \in 0 .. args.batch * args.numBlocks
         /\ rw \in RWStates
         /\ rw.b \in 0 .. args.batch /\ rw.k \in 0 .. args.numBlocks
         /\ rw.stored \in Nat /\ rw.stored < BlockStrips
         /\ compute \in ComputeStates
         /\ compute.pc \in Places /\ compute.b \in 0 .. args.batch
         /\ compute.k \in 0 .. args.numBlocks
         /\ compute.s \in 0 .. NumSubblocks - 1
         /\ compute.h \in 0 .. args.rows - 1 /\ compute.reload \in BOOLEAN
         /\ compute.toWait \in args.rows .. BlockStrips + args.rows
         /\ packer \in [relu : BOOLEAN, acc : BOOLEAN]
         /\ cb.in0 \in CB(NumBuffer) /\ cb.in1 \in CB(NumBuffer)
         /\ cb.out \in CB(BlockStrips) /\ cb.part \in CB(BlockStrips)
         /\ biasRow \in 0 .. 1
         /\ l1 \in Memories
         /\ dst \in [Rows -> Value]
<1>1. FusedTypeOK /\ RWPlace
  BY DEF FusedIInv
<1>2. rw \in RWStates /\ compute \in ComputeStates /\ l1 \in Memories
  BY <1>1 DEF FusedTypeOK, RWStates, ComputeStates, Places, Memories
<1>3. args \in FusedPrograms
  BY <1>1 DEF FusedTypeOK
<1>4. BlockStrips \in Nat
  BY <1>3, Variant
<1>5. rw.b \in 0 .. args.batch /\ rw.k \in 0 .. args.numBlocks
      /\ rw.stored \in Nat /\ rw.stored < BlockStrips
  BY <1>1, <1>2, <1>4 DEF RWStates, RWPlace
<1>6. /\ compute.pc \in Places /\ compute.b \in 0 .. args.batch
      /\ compute.k \in 0 .. args.numBlocks
      /\ compute.s \in 0 .. NumSubblocks - 1
      /\ compute.h \in 0 .. args.rows - 1 /\ compute.reload \in BOOLEAN
      /\ compute.toWait \in args.rows .. BlockStrips + args.rows
  BY <1>2 DEF ComputeStates, Rows
<1> QED
  BY <1>1, <1>2, <1>3, <1>5, <1>6 DEF FusedTypeOK

\* Where the loops over subblocks and over rows stand in CB24 and CB16.
LEMMA Offsets ==
  ASSUME FusedIInv
  PROVE  /\ Offset \in Nat /\ Offset + args.rows <= BlockStrips
         /\ Offset + args.rows = BlockStrips <=> compute.s + 1 = NumSubblocks
         /\ (compute.s + 1) * args.rows = Offset + args.rows
         /\ compute.s = 0 => Offset = 0
  BY StateFacts, Variant, Pieces DEF Offset

LEMMA RowOffsets ==
  ASSUME FusedIInv, compute.pc \in {"untilize", "row"}
  PROVE  /\ compute.s * RowStrips \in Nat
         /\ compute.s * RowStrips + RowStrips <= BlockStrips
         /\ compute.s * RowStrips + RowStrips = BlockStrips
              <=> compute.s + 1 = args.subH
         /\ (compute.s + 1) * RowStrips = compute.s * RowStrips + RowStrips
         /\ compute.h * args.subW \in Nat
         /\ compute.h * args.subW + args.subW <= RowStrips
         /\ compute.h * args.subW + args.subW = RowStrips
              <=> compute.h + 1 = args.rows
         /\ (compute.h + 1) * args.subW = compute.h * args.subW + args.subW
<1>1. args \in FusedPrograms
  BY StateFacts
<1>2. compute.s \in 0 .. args.subH - 1
  BY <1>1, StateFacts, Variant DEF FusedIInv, ComputePlace
<1>3. /\ args.subH \in Nat /\ RowStrips \in Nat \ {0} /\ args.rows \in Nat
      /\ args.subW \in Nat \ {0} /\ BlockStrips = args.subH * RowStrips
      /\ RowStrips = args.rows * args.subW /\ compute.h \in 0 .. args.rows - 1
  BY <1>1, StateFacts, Variant
<1>4. /\ compute.s * RowStrips \in Nat
      /\ compute.s * RowStrips + RowStrips <= BlockStrips
      /\ compute.s * RowStrips + RowStrips = BlockStrips
           <=> compute.s + 1 = args.subH
      /\ (compute.s + 1) * RowStrips = compute.s * RowStrips + RowStrips
  <2>1. /\ args.subH \in Nat /\ RowStrips \in Nat \ {0}
        /\ compute.s \in 0 .. args.subH - 1
    BY <1>2, <1>3
  <2>2. /\ compute.s * RowStrips \in Nat
        /\ (compute.s + 1) * RowStrips = compute.s * RowStrips + RowStrips
        /\ compute.s * RowStrips + RowStrips <= args.subH * RowStrips
        /\ compute.s * RowStrips + RowStrips = args.subH * RowStrips
             <=> compute.s + 1 = args.subH
    BY <2>1, Pieces, Zenon
  <2> QED
    BY <1>3, <2>2, Zenon
<1>5. /\ compute.h * args.subW \in Nat
      /\ compute.h * args.subW + args.subW <= RowStrips
      /\ compute.h * args.subW + args.subW = RowStrips
           <=> compute.h + 1 = args.rows
      /\ (compute.h + 1) * args.subW = compute.h * args.subW + args.subW
  <2>1. /\ args.rows \in Nat /\ args.subW \in Nat \ {0}
        /\ compute.h \in 0 .. args.rows - 1
    BY <1>3
  <2>2. /\ compute.h * args.subW \in Nat
        /\ (compute.h + 1) * args.subW = compute.h * args.subW + args.subW
        /\ compute.h * args.subW + args.subW <= args.rows * args.subW
        /\ compute.h * args.subW + args.subW = args.rows * args.subW
             <=> compute.h + 1 = args.rows
    BY <2>1, Pieces, Zenon
  <2> QED
    BY <1>3, <2>2, Zenon
<1> QED
  BY <1>4, <1>5

LEMMA SameVariant ==
  ASSUME args' = args
  PROVE  /\ BlockStrips' = BlockStrips /\ NumSubblocks' = NumSubblocks
         /\ RowStrips' = RowStrips /\ Rows' = Rows /\ PartMem' = PartMem
         /\ ComputeStates' = ComputeStates /\ RWStates' = RWStates
         /\ Memories' = Memories
<1>1. /\ RowStrips' = RowStrips /\ NumSubblocks' = NumSubblocks
      /\ Rows' = Rows /\ PartMem' = PartMem
  BY DEF RowStrips, NumSubblocks, Rows, PartMem
<1>2. BlockStrips' = BlockStrips
  BY <1>1 DEF BlockStrips
<1> QED
  BY <1>1, <1>2 DEF ComputeStates, RWStates, Memories

LEMMA SameBlock ==
  ASSUME args' = args, compute'.k = compute.k
  PROVE  LastOut' = LastOut /\ InBiasLoop' = InBiasLoop /\ Target' = Target
  BY DEF LastOut, InBiasLoop, Target, UntilizeModeOut, MmOut

LEMMA TypesLater ==
  ASSUME FusedIInv, args' = args,
         in0' \in 0 .. args.batch * args.numBlocks,
         rw' \in RWStates, compute' \in ComputeStates,
         packer' \in [relu : BOOLEAN, acc : BOOLEAN],
         cb'.in0 \in CB(NumBuffer), cb'.in1 \in CB(NumBuffer),
         cb'.out \in CB(BlockStrips), cb'.part \in CB(BlockStrips),
         biasRow' \in 0 .. 1,
         l1' \in Memories, dst' \in [Rows -> Value]
  PROVE  FusedTypeOK'
  BY StateFacts, SameVariant
  DEF FusedTypeOK, ComputeStates, RWStates, Memories, Places

\* The places a CB may be packed to and the memory that belongs to it.
LEMMA TargetFacts ==
  ASSUME FusedIInv
  PROVE  /\ Target \in {"out", "part"}
         /\ MemoryOf(Target) \in {"out", "part"} /\ PartMem \in {"out", "part"}
         /\ ~LastOut /\ ~InBiasLoop => Target = "part"
         /\ LastOut /\ args.bias => Target = "part"
         /\ args.untilize => Target = "part"
         /\ LastOut => ~InBiasLoop
  BY StateFacts, Variant
  DEF Target, UntilizeModeOut, MmOut, MemoryOf, PartMem, LastOut, InBiasLoop

LEMMA ProducedRange ==
  ASSUME FusedIInv
  PROVE  Produced \in 0 .. BlockStrips
<1>1. BlockStrips \in Nat /\ Offset \in Nat /\ Offset <= BlockStrips
  BY StateFacts, Variant, Offsets
<1>2. CASE compute.pc \in {"untilize", "row"}
  <2> DEFINE a == compute.s * RowStrips
             c == compute.h * args.subW
  <2>1. /\ a \in Nat /\ a + RowStrips <= BlockStrips
        /\ c \in Nat /\ c + args.subW <= RowStrips
        /\ RowStrips \in Nat /\ args.subW \in Nat
    BY <1>2, RowOffsets, StateFacts, Variant
  <2>2. Produced = a \/ Produced = a + c
    BY <1>2 DEF Produced
  <2> HIDE DEF a, c
  <2> QED
    BY <1>1, <2>1, <2>2
<1>3. CASE compute.pc \notin {"untilize", "row"}
  BY <1>1, <1>3 DEF Produced, IfTo
<1> QED
  BY <1>2, <1>3

LEMMA ComputeIs ==
  ASSUME FusedIInv
  PROVE  compute = [pc |-> compute.pc, b |-> compute.b, k |-> compute.k,
                    s |-> compute.s, h |-> compute.h,
                    reload |-> compute.reload, toWait |-> compute.toWait]
  BY StateFacts DEF ComputeStates

LEMMA RWIs ==
  ASSUME FusedIInv
  PROVE  rw = [b |-> rw.b, k |-> rw.k, stored |-> rw.stored]
  BY StateFacts DEF RWStates

\* A compute step that leaves CB16 alone, when the writer is level with it.
LEMMA OutputFrame ==
  ASSUME FusedIInv, UNCHANGED <<args, rw>>, cb'.out = cb.out,
         compute'.b = compute.b, Produced' = Produced,
         compute.pc \in InSubblock \cup {"untilize", "row"}
  PROVE  InStep'
<1>1. InStep
  BY DEF FusedIInv, WriterBehind, WriterAhead, InSubblock
<1> QED
  BY <1>1, SameVariant DEF InStep, WriterAt

LEMMA OperandsFrame ==
  ASSUME FusedIInv, UNCHANGED <<args, in0, rw>>,
         cb'.in0 = cb.in0, cb'.in1 = cb.in1,
         compute'.b = compute.b, BlockOf' = BlockOf,
         compute.pc \in {"fold"} \cup InSubblock \/ InBiasLoop',
         InBiasLoop' = InBiasLoop
  PROVE  OperandsPlace'
  BY DEF FusedIInv, OperandsPlace, Consumed, Fed

LEMMA RWFrame ==
  ASSUME FusedIInv, UNCHANGED <<args, rw>>
  PROVE  RWPlace'
  BY SameVariant DEF FusedIInv, RWPlace
-------------------------------------------------------------------------------
(* The initial states *)

LEMMA EmptyValue == <<>> \in Value
  BY DEF Value

LEMMA FusedInitIInv == FusedInit => FusedIInv
<1> SUFFICES ASSUME FusedInit PROVE FusedIInv
  OBVIOUS
<1>1. args \in FusedPrograms
  BY DEF FusedInit
<1>2. /\ args.numBlocks \in Nat \ {0} /\ args.batch \in Nat \ {0}
      /\ args.rows \in Nat \ {0} /\ NumSubblocks \in Nat \ {0}
      /\ BlockStrips \in Nat \ {0}
  BY <1>1, Variant
<1>3. args.batch * args.numBlocks \in Nat
  BY <1>2, PositiveProduct
<1>4. /\ compute.pc = "batch" /\ compute.b = 0 /\ compute.k = 0
      /\ compute.s = 0 /\ compute.h = 0 /\ compute.reload = FALSE
      /\ compute.toWait = args.rows
      /\ rw.b = 0 /\ rw.k = 0 /\ rw.stored = 0 /\ in0 = 0
      /\ cb.in0 = EmptyCB /\ cb.in1 = EmptyCB /\ cb.out = EmptyCB
      /\ cb.part = EmptyCB
  BY DEF FusedInit
<1>5. EmptyCB \in CB(NumBuffer) /\ EmptyCB \in CB(BlockStrips)
  BY <1>2 DEF EmptyCB, CB, NumBuffer
<1>6. compute \in ComputeStates /\ rw \in RWStates
  BY <1>2 DEF FusedInit, ComputeStates, RWStates, Rows, Places
<1>7. l1 \in Memories /\ dst \in [Rows -> Value]
  BY EmptyValue DEF FusedInit, Memories
<1>8. FusedTypeOK
  BY <1>1, <1>3, <1>4, <1>5, <1>6, <1>7
  DEF FusedInit, FusedTypeOK, ComputeStates, RWStates, Memories, Places
<1>9. CBsTyped
  BY <1>5 DEF FusedInit, CBsTyped
<1>10. ComputePlace /\ ReloadPlace /\ PartialsPlace /\ RWPlace
  BY <1>2, <1>4
  DEF ComputePlace, ReloadPlace, PartialsPlace, RWPlace, InSubblock,
      AfterReload, LastOut, InBiasLoop
<1>11. OperandsPlace
  BY <1>2, <1>4 DEF OperandsPlace, Consumed, Fed, BlockOf, EmptyCB, InSubblock
<1>12. InStep
  BY <1>2, <1>4, RingRound DEF InStep, WriterAt, Produced, InSubblock
<1> QED
  BY <1>8, <1>9, <1>10, <1>11, <1>12 DEF FusedIInv
-------------------------------------------------------------------------------
(* The steps of the kernels that feed CB0 and CB1, and of the writer *)

LEMMA ComputeFrame ==
  ASSUME FusedIInv, UNCHANGED <<args, compute>>, cb'.part = cb.part
  PROVE  /\ ComputePlace' /\ ReloadPlace' /\ PartialsPlace'
         /\ Produced' = Produced /\ Consumed' = Consumed
         /\ InBiasLoop' = InBiasLoop
<1>1. /\ LastOut' = LastOut /\ InBiasLoop' = InBiasLoop /\ Target' = Target
      /\ BlockStrips' = BlockStrips /\ RowStrips' = RowStrips
      /\ Offset' = Offset
  BY SameBlock, SameVariant DEF Offset
<1>2. ComputePlace' /\ ReloadPlace'
  BY <1>1 DEF FusedIInv, ComputePlace, ReloadPlace
<1>3. PartialsPlace'
  BY <1>1 DEF FusedIInv, PartialsPlace, IfSums, IfTo, HasSums
<1>4. Produced' = Produced /\ Consumed' = Consumed
  BY <1>1 DEF Produced, IfTo, Consumed, BlockOf
<1> QED
  BY <1>1, <1>2, <1>3, <1>4

LEMMA RelationFrame ==
  ASSUME FusedIInv, UNCHANGED <<args, compute>>, cb'.part = cb.part,
         cb'.out = cb.out, WriterAt' = WriterAt, rw'.stored = rw.stored,
         WriterBehind /\ args.drained => rw'.k = rw.k
  PROVE  (InStep \/ WriterBehind \/ WriterAhead)'
<1>1. BlockStrips' = BlockStrips /\ Produced' = Produced
  BY SameVariant, ComputeFrame
<1> QED
  BY <1>1 DEF FusedIInv, InStep, WriterBehind, WriterAhead

LEMMA In0FeedIInv ==
  ASSUME FusedIInv, In0Feed
  PROVE  FusedIInv'
<1>1. /\ UNCHANGED <<args, rw, compute, packer, biasRow, l1, dst>>
      /\ in0' = in0 + 1 /\ in0 < args.batch * args.numBlocks
      /\ HasRoom(cb.in0, 1, NumBuffer)
      /\ cb' = [cb EXCEPT !.in0 = PushBack(cb.in0, 1, NumBuffer)]
  BY DEF In0Feed
<1>2. /\ PushBack(cb.in0, 1, NumBuffer) \in CB(NumBuffer)
      /\ PushBack(cb.in0, 1, NumBuffer).cnt = cb.in0.cnt + 1
      /\ cb.in0.cnt \in Nat
  BY <1>1, StateFacts, OnePush DEF CB, NumBuffer
<1>3. /\ cb'.in0 = PushBack(cb.in0, 1, NumBuffer) /\ cb'.in1 = cb.in1
      /\ cb'.out = cb.out /\ cb'.part = cb.part /\ CBsTyped'
  BY <1>1, <1>2, SameVariant DEF FusedIInv, CBsTyped
<1>4. in0' \in 0 .. args.batch * args.numBlocks
  <2> DEFINE n == args.batch * args.numBlocks
  <2>1. n \in Nat
    BY StateFacts, Variant
  <2> HIDE DEF n
  <2>2. in0 \in 0 .. n /\ in0' = in0 + 1 /\ in0 < n
    BY <1>1, StateFacts DEF n
  <2>3. in0' \in 0 .. n
    BY <2>1, <2>2
  <2> QED
    BY <2>3 DEF n
<1>5. FusedTypeOK'
  BY <1>1, <1>2, <1>3, <1>4, StateFacts, TypesLater
<1>6. /\ ComputePlace' /\ ReloadPlace' /\ PartialsPlace' /\ RWPlace'
      /\ Consumed' = Consumed /\ InBiasLoop' = InBiasLoop
  BY <1>1, <1>3, ComputeFrame, RWFrame
<1>7. OperandsPlace'
  <2>1. /\ cb.in0.cnt = in0 - Consumed /\ cb.in1.cnt = Fed - Consumed
        /\ Fed' = Fed
    BY <1>1 DEF FusedIInv, OperandsPlace, Fed
  <2>2. in0 \in Int /\ Consumed \in Int
    BY StateFacts, Variant DEF Consumed, BlockOf
  <2>3. cb'.in0.cnt = in0' - Consumed'
    BY <1>1, <1>2, <1>3, <1>6, <2>1, <2>2
  <2> QED
    BY <1>1, <1>2, <1>3, <1>6, <2>1, <2>3 DEF FusedIInv, OperandsPlace
<1>8. (InStep \/ WriterBehind \/ WriterAhead)'
  BY <1>1, <1>3, RelationFrame DEF WriterAt
<1> QED
  BY <1>3, <1>5, <1>6, <1>7, <1>8 DEF FusedIInv

\* The blocks of B pushed, one more: with nobody to drain CB16 the reader goes
\* on to the next batch element at once.
LEMMA FedNext ==
  ASSUME FusedIInv, In1Feed
  PROVE  /\ Fed' = Fed + 1 /\ Fed \in Nat
         /\ rw' \in RWStates /\ RWPlace' /\ WriterAt' = WriterAt
         /\ rw'.stored = rw.stored
<1>1. /\ args' = args /\ rw.b < args.batch /\ rw.k < args.numBlocks
      /\ rw' = IF rw.k + 1 = args.numBlocks /\ ~args.drained
               THEN [rw EXCEPT !.b = rw.b + 1, !.k = 0]
               ELSE [rw EXCEPT !.k = rw.k + 1]
  BY DEF In1Feed
<1>2. /\ args.numBlocks \in Nat \ {0} /\ args.batch \in Nat \ {0}
      /\ args.drained \in BOOLEAN /\ BlockStrips \in Nat \ {0}
      /\ rw.b \in 0 .. args.batch - 1 /\ rw.k \in 0 .. args.numBlocks - 1
      /\ rw.stored = 0 /\ rw \in RWStates
  BY <1>1, StateFacts, Variant DEF FusedIInv, RWPlace
<1>3. /\ rw.b * args.numBlocks \in Nat
      /\ (rw.b + 1) * args.numBlocks = rw.b * args.numBlocks + args.numBlocks
  BY <1>2, Pieces
<1>4. rw = [b |-> rw.b, k |-> rw.k, stored |-> rw.stored]
  BY <1>2 DEF RWStates
<1> DEFINE p == rw.b * args.numBlocks
<1> HIDE DEF p
<1>5. CASE rw.k + 1 = args.numBlocks /\ ~args.drained
  <2>1. rw' = [rw EXCEPT !.b = rw.b + 1, !.k = 0]
    BY <1>1, <1>5
  <2>2. rw' = [b |-> rw.b + 1, k |-> 0, stored |-> 0]
    BY <1>2, <1>4, <2>1
  <2>3. rw'.b = rw.b + 1 /\ rw'.k = 0 /\ rw'.stored = 0
    BY <2>2
  <2>4. Fed' = (p + args.numBlocks) + 0 /\ Fed = p + rw.k /\ p \in Nat
    BY <1>1, <1>3, <2>3 DEF Fed, p
  <2>5. Fed' = Fed + 1 /\ Fed \in Nat
    BY <1>2, <1>5, <2>4
  <2>6. rw' \in RWStates
    BY <1>2, <2>2 DEF RWStates
  <2>7. RWPlace'
    BY <1>1, <1>2, <1>5, <2>3, SameVariant DEF RWPlace
  <2> QED
    BY <1>1, <1>2, <1>5, <2>3, <2>5, <2>6, <2>7 DEF WriterAt
<1>6. CASE ~(rw.k + 1 = args.numBlocks /\ ~args.drained)
  <2>1. rw' = [rw EXCEPT !.k = rw.k + 1]
    BY <1>1, <1>6
  <2>2. rw' = [b |-> rw.b, k |-> rw.k + 1, stored |-> 0]
    BY <1>2, <1>4, <2>1
  <2>3. rw'.b = rw.b /\ rw'.k = rw.k + 1 /\ rw'.stored = 0
    BY <2>2
  <2>4. Fed' = p + (rw.k + 1) /\ Fed = p + rw.k /\ p \in Nat
    BY <1>1, <1>3, <2>3 DEF Fed, p
  <2>5. Fed' = Fed + 1 /\ Fed \in Nat
    BY <1>2, <2>4
  <2>6. rw' \in RWStates
    BY <1>2, <2>2 DEF RWStates
  <2>7. RWPlace'
    BY <1>1, <1>2, <1>6, <2>3, SameVariant DEF RWPlace
  <2> QED
    BY <1>1, <1>2, <2>3, <2>5, <2>6, <2>7 DEF WriterAt
<1> QED
  BY <1>5, <1>6

LEMMA In1FeedIInv ==
  ASSUME FusedIInv, In1Feed
  PROVE  FusedIInv'
<1>1. /\ UNCHANGED <<args, in0, compute, packer, biasRow, l1, dst>>
      /\ rw.k < args.numBlocks /\ HasRoom(cb.in1, 1, NumBuffer)
      /\ cb' = [cb EXCEPT !.in1 = PushBack(cb.in1, 1, NumBuffer)]
  BY DEF In1Feed
<1>2. /\ PushBack(cb.in1, 1, NumBuffer) \in CB(NumBuffer)
      /\ PushBack(cb.in1, 1, NumBuffer).cnt = cb.in1.cnt + 1
      /\ cb.in1.cnt \in Nat
  BY <1>1, StateFacts, OnePush DEF CB, NumBuffer
<1>3. /\ cb'.in1 = PushBack(cb.in1, 1, NumBuffer) /\ cb'.in0 = cb.in0
      /\ cb'.out = cb.out /\ cb'.part = cb.part /\ CBsTyped'
  BY <1>1, <1>2, SameVariant DEF FusedIInv, CBsTyped
<1>4. /\ Fed' = Fed + 1 /\ Fed \in Nat /\ rw' \in RWStates /\ RWPlace'
      /\ WriterAt' = WriterAt /\ rw'.stored = rw.stored
  BY FedNext
<1>5. FusedTypeOK'
  BY <1>1, <1>2, <1>3, <1>4, StateFacts, TypesLater
<1>6. /\ ComputePlace' /\ ReloadPlace' /\ PartialsPlace'
      /\ Consumed' = Consumed /\ InBiasLoop' = InBiasLoop
  BY <1>1, <1>3, ComputeFrame
<1>7. OperandsPlace'
  <2>1. cb.in0.cnt = in0 - Consumed /\ cb.in1.cnt = Fed - Consumed
    BY DEF FusedIInv, OperandsPlace
  <2>2. Consumed \in Int
    BY StateFacts, Variant DEF Consumed, BlockOf
  <2>3. cb'.in1.cnt = Fed' - Consumed'
    BY <1>2, <1>3, <1>4, <1>6, <2>1, <2>2
  <2> QED
    BY <1>1, <1>2, <1>3, <1>6, <2>1, <2>3 DEF FusedIInv, OperandsPlace
<1>8. (InStep \/ WriterBehind \/ WriterAhead)'
  <2>1. ~(WriterBehind /\ args.drained)
    BY <1>1, StateFacts, Variant DEF WriterBehind
  <2> QED
    BY <1>1, <1>3, <1>4, <2>1, RelationFrame
<1> QED
  BY <1>3, <1>4, <1>5, <1>6, <1>7, <1>8 DEF FusedIInv

\* The writer finds a subblock only where the compute kernel has left one.
LEMMA StoreFacts ==
  ASSUME FusedIInv, StoreStrips
  PROVE  /\ args.drained /\ rw.k = args.numBlocks
         /\ rw.b < args.batch /\ rw.b * args.numBlocks \in Nat
         /\ (rw.b + 1) * args.numBlocks
              = rw.b * args.numBlocks + args.numBlocks
         /\ rw.stored + args.rows <= BlockStrips
         /\ PopFront(cb.out, args.rows, BlockStrips) \in CB(BlockStrips)
         /\ \/ /\ compute.b = rw.b /\ rw.stored + args.rows <= Produced
               /\ PopFront(cb.out, args.rows, BlockStrips)
                    = Ring(0, Produced, rw.stored + args.rows, BlockStrips)
            \/ /\ WriterBehind
               /\ PopFront(cb.out, args.rows, BlockStrips)
                    = Ring(BlockStrips, 0, rw.stored + args.rows, BlockStrips)
<1>1. /\ rw.b < args.batch /\ rw.k = args.numBlocks
      /\ cb.out.cnt >= args.rows
  BY DEF StoreStrips
<1>2. /\ args.numBlocks \in Nat \ {0} /\ args.rows \in Nat \ {0}
      /\ BlockStrips \in Nat \ {0} /\ args.drained \in BOOLEAN
      /\ Produced \in 0 .. BlockStrips /\ rw.stored \in Nat
      /\ rw.stored < BlockStrips /\ rw.b \in 0 .. args.batch - 1
      /\ args.batch \in Nat
  BY <1>1, StateFacts, Variant, ProducedRange
<1>3. args.drained
  BY <1>1, <1>2 DEF FusedIInv, RWPlace
<1>4. ~WriterAhead
  BY <1>1, <1>2 DEF WriterAhead, EmptyCB
<1>5. /\ rw.b * args.numBlocks \in Nat
      /\ (rw.b + 1) * args.numBlocks = rw.b * args.numBlocks + args.numBlocks
  BY <1>2, Pieces
<1>6. CASE InStep
  <2>1. /\ cb.out = Ring(0, Produced, rw.stored, BlockStrips)
        /\ compute.b = rw.b
    BY <1>3, <1>6 DEF InStep, WriterAt
  <2>2. cb.out.cnt = 0 + Produced - rw.stored
    BY <2>1, RingFields
  <2>3. rw.stored + args.rows <= Produced
    BY <1>1, <1>2, <2>2
  <2>4. PopFront(cb.out, args.rows, BlockStrips)
          = Ring(0, Produced, rw.stored + args.rows, BlockStrips)
    <3>1. /\ rw.stored + args.rows <= BlockStrips /\ 0 \in Nat
          /\ Produced \in Nat /\ rw.stored \in Nat
          /\ args.rows \in Nat \ {0} /\ BlockStrips \in Nat \ {0}
      BY <1>2, <2>3
    <3>2. PopFront(Ring(0, Produced, rw.stored, BlockStrips), args.rows,
                   BlockStrips)
            = Ring(0, Produced, rw.stored + args.rows, BlockStrips)
      BY <3>1, RingPop
    <3> QED
      BY <2>1, <3>2
  <2>5. PopFront(cb.out, args.rows, BlockStrips) \in CB(BlockStrips)
    BY <1>2, <2>3, <2>4, RingTyped
  <2> QED
    BY <1>1, <1>2, <1>3, <1>5, <2>1, <2>3, <2>4, <2>5
<1>7. CASE WriterBehind
  <2>1. cb.out = Ring(BlockStrips, 0, rw.stored, BlockStrips)
    BY <1>7 DEF WriterBehind
  <2>2. cb.out.cnt = BlockStrips + 0 - rw.stored
    BY <2>1, RingFields
  <2>3. rw.stored + args.rows <= BlockStrips
    BY <1>1, <1>2, <2>2
  <2>4. PopFront(cb.out, args.rows, BlockStrips)
          = Ring(BlockStrips, 0, rw.stored + args.rows, BlockStrips)
    <3>1. /\ rw.stored + args.rows <= BlockStrips /\ BlockStrips \in Nat
          /\ 0 \in Nat /\ rw.stored \in Nat
          /\ args.rows \in Nat \ {0} /\ BlockStrips \in Nat \ {0}
      BY <1>2, <2>3
    <3>2. PopFront(Ring(BlockStrips, 0, rw.stored, BlockStrips), args.rows,
                   BlockStrips)
            = Ring(BlockStrips, 0, rw.stored + args.rows, BlockStrips)
      BY <3>1, RingPop
    <3> QED
      BY <2>1, <3>2
  <2>5. PopFront(cb.out, args.rows, BlockStrips) \in CB(BlockStrips)
    BY <1>2, <2>3, <2>4, RingTyped
  <2> QED
    BY <1>1, <1>2, <1>3, <1>5, <1>7, <2>3, <2>4, <2>5
<1> QED
  BY <1>4, <1>6, <1>7 DEF FusedIInv

\* The block is complete only between the last subblock and the next element.
LEMMA ProducedAll ==
  ASSUME FusedIInv
  PROVE  /\ Produced = BlockStrips => compute.pc \in {"fold", "batchEnd"}
         /\ compute.pc \in {"batch", "wait", "done"} => Produced = 0
<1>1. /\ BlockStrips \in Nat \ {0} /\ Offset \in Nat
      /\ args.rows \in Nat \ {0} /\ Offset + args.rows <= BlockStrips
      /\ args.subW \in Nat \ {0} /\ RowStrips \in Nat \ {0}
  BY StateFacts, Variant, Offsets
<1>2. CASE compute.pc \in {"untilize", "row"}
  <2> DEFINE a == compute.s * RowStrips
             c == compute.h * args.subW
  <2>1. /\ a \in Nat /\ a + RowStrips <= BlockStrips
        /\ c \in Nat /\ c + args.subW <= RowStrips
    BY <1>2, RowOffsets
  <2>2. Produced = a \/ Produced = a + c
    BY <1>2 DEF Produced
  <2> HIDE DEF a, c
  <2>3. Produced # BlockStrips
    BY <1>1, <2>1, <2>2
  <2> QED
    BY <1>2, <2>3
<1>3. CASE compute.pc \notin {"untilize", "row"}
  BY <1>1, <1>3 DEF Produced, IfTo, InSubblock
<1> QED
  BY <1>2, <1>3

LEMMA StoreStripsIInv ==
  ASSUME FusedIInv, StoreStrips
  PROVE  FusedIInv'
<1> DEFINE out == PopFront(cb.out, args.rows, BlockStrips)
<1>1. /\ UNCHANGED <<args, in0, compute, packer, biasRow, l1, dst>>
      /\ cb' = [cb EXCEPT !.out = out]
  BY DEF StoreStrips
<1>2. /\ args.drained /\ rw.k = args.numBlocks
      /\ rw.b < args.batch /\ rw.b * args.numBlocks \in Nat
      /\ (rw.b + 1) * args.numBlocks = rw.b * args.numBlocks + args.numBlocks
      /\ rw.stored + args.rows <= BlockStrips
      /\ out \in CB(BlockStrips)
      /\ \/ /\ compute.b = rw.b /\ rw.stored + args.rows <= Produced
            /\ out = Ring(0, Produced, rw.stored + args.rows, BlockStrips)
         \/ /\ WriterBehind
            /\ out = Ring(BlockStrips, 0, rw.stored + args.rows, BlockStrips)
  BY StoreFacts
<1> HIDE DEF out
<1>3. /\ cb'.out = out /\ cb'.in0 = cb.in0 /\ cb'.in1 = cb.in1
      /\ cb'.part = cb.part /\ CBsTyped'
  BY <1>1, <1>2, SameVariant DEF FusedIInv, CBsTyped
<1>4. /\ args.numBlocks \in Nat \ {0} /\ args.rows \in Nat \ {0}
      /\ BlockStrips \in Nat \ {0} /\ Produced \in 0 .. BlockStrips
      /\ rw.stored \in Nat /\ rw.b \in Nat /\ args.batch \in Nat
      /\ rw = [b |-> rw.b, k |-> rw.k, stored |-> rw.stored]
      /\ BlockStrips' = BlockStrips /\ RWStates' = RWStates
  BY <1>1, StateFacts, Variant, ProducedRange, SameVariant, RWIs
<1>5. /\ ComputePlace' /\ ReloadPlace' /\ PartialsPlace'
      /\ Produced' = Produced /\ Consumed' = Consumed
      /\ InBiasLoop' = InBiasLoop
  BY <1>1, <1>3, ComputeFrame
<1>6. \/ /\ rw.stored + args.rows < BlockStrips
         /\ rw' = [b |-> rw.b, k |-> rw.k, stored |-> rw.stored + args.rows]
      \/ /\ rw.stored + args.rows = BlockStrips
         /\ rw' = [b |-> rw.b + 1, k |-> 0, stored |-> 0]
  <2>1. rw' = IF rw.stored + args.rows < BlockStrips
              THEN [rw EXCEPT !.stored = rw.stored + args.rows]
              ELSE [b |-> rw.b + 1, k |-> 0, stored |-> 0]
    BY DEF StoreStrips
  <2>2. CASE rw.stored + args.rows < BlockStrips
    BY <1>4, <2>1, <2>2
  <2>3. CASE ~(rw.stored + args.rows < BlockStrips)
    <3>1. /\ rw.stored \in Nat /\ args.rows \in Nat /\ BlockStrips \in Nat
          /\ rw.stored + args.rows <= BlockStrips
      BY <1>2, <1>4
    <3>2. rw.stored + args.rows = BlockStrips
      BY <2>3, <3>1
    <3> QED
      BY <2>1, <2>3, <3>2
  <2> QED
    BY <2>2, <2>3
<1>7. rw' \in RWStates /\ RWPlace' /\ Fed' = Fed
  BY <1>1, <1>2, <1>4, <1>6 DEF RWStates, RWPlace, Fed
<1>8. FusedTypeOK'
  BY <1>1, <1>2, <1>3, <1>7, StateFacts, TypesLater
<1>9. OperandsPlace'
  BY <1>1, <1>3, <1>5, <1>7 DEF FusedIInv, OperandsPlace
<1>10. (InStep \/ WriterBehind \/ WriterAhead)'
  <2>1. WriterAt' = rw'.b /\ WriterAt = rw.b
    BY <1>1, <1>2 DEF WriterAt
  <2>2. CASE rw'.stored = rw.stored + args.rows /\ rw'.b = rw.b /\ rw'.k = rw.k
    <3>1. CASE /\ compute.b = rw.b
               /\ out = Ring(0, Produced, rw.stored + args.rows, BlockStrips)
      BY <1>1, <1>3, <1>4, <1>5, <2>1, <2>2, <3>1 DEF InStep
    <3>2. CASE /\ WriterBehind
               /\ out = Ring(BlockStrips, 0, rw.stored + args.rows, BlockStrips)
      BY <1>1, <1>3, <1>4, <2>1, <2>2, <3>2 DEF WriterBehind
    <3> QED
      BY <1>2, <3>1, <3>2
  <2>3. CASE /\ rw.stored + args.rows = BlockStrips
             /\ rw' = [b |-> rw.b + 1, k |-> 0, stored |-> 0]
    <3>1. rw'.b = rw.b + 1 /\ rw'.k = 0 /\ rw'.stored = 0
      BY <2>3
    <3>2. CASE /\ compute.b = rw.b /\ rw.stored + args.rows <= Produced
               /\ out = Ring(0, Produced, rw.stored + args.rows, BlockStrips)
      <4>1. Produced = BlockStrips
        BY <1>4, <2>3, <3>2
      <4>2. compute.pc \in {"fold", "batchEnd"} /\ out = EmptyCB
        BY <1>4, <2>3, <3>2, <4>1, ProducedAll, RingRound
      <4>3. WriterAhead'
        BY <1>1, <1>3, <1>4, <1>5, <2>1, <3>1, <3>2, <4>1, <4>2 DEF WriterAhead
      <4> QED
        BY <4>3
    <3>3. CASE /\ WriterBehind
               /\ out = Ring(BlockStrips, 0, rw.stored + args.rows, BlockStrips)
      <4>1. /\ compute.b = rw.b + 1
            /\ compute.pc \in {"batch", "wait", "done"}
        BY <2>1, <3>3 DEF WriterBehind
      <4>2. Produced = 0 /\ out = Ring(0, 0, 0, BlockStrips)
        BY <1>4, <2>3, <3>3, <4>1, ProducedAll, RingRound
      <4>3. InStep'
        BY <1>1, <1>3, <1>4, <1>5, <2>1, <3>1, <4>1, <4>2 DEF InStep
      <4> QED
        BY <4>3
    <3> QED
      BY <1>2, <3>2, <3>3
  <2> QED
    BY <1>6, <2>2, <2>3
<1> QED
  BY <1>3, <1>5, <1>7, <1>8, <1>9, <1>10 DEF FusedIInv
-------------------------------------------------------------------------------
(* The steps of the compute kernel that leave the CBs alone *)

LEMMA CBsFrame ==
  ASSUME FusedIInv, UNCHANGED <<args, cb>>
  PROVE  CBsTyped'
  BY SameVariant DEF FusedIInv, CBsTyped

LEMMA StartBatchIInv ==
  ASSUME FusedIInv, StartBatch
  PROVE  FusedIInv'
<1>1. /\ UNCHANGED <<args, in0, rw, cb, biasRow, l1, dst>>
      /\ compute.pc = "batch"
  BY DEF StartBatch
<1>2. /\ args.numBlocks \in Nat \ {0} /\ args.rows \in Nat \ {0}
      /\ args.batch \in Nat \ {0} /\ BlockStrips \in Nat \ {0}
      /\ args.l1Acc /\ ~args.bias => args.numBlocks > 1
  BY StateFacts, Variant
<1>3. compute' = [pc |-> "wait", b |-> compute.b, k |-> 0, s |-> compute.s,
                  h |-> compute.h, reload |-> FALSE, toWait |-> args.rows]
  <2>1. compute' = [compute EXCEPT !.pc = "wait", !.k = 0, !.reload = FALSE,
                                   !.toWait = args.rows]
    BY DEF StartBatch
  <2> QED
    BY <2>1, ComputeIs
<1>4. /\ compute'.pc = "wait" /\ compute'.b = compute.b /\ compute'.k = 0
      /\ compute'.reload = FALSE /\ compute'.toWait = args.rows
  BY <1>3
<1>5. compute' \in ComputeStates
  <2>1. /\ compute.b \in 0 .. args.batch /\ compute.h \in Rows
        /\ compute.s \in 0 .. NumSubblocks - 1
    BY StateFacts DEF ComputeStates
  <2>2. 0 \in 0 .. args.numBlocks
    BY <1>2
  <2>3. args.rows \in args.rows .. BlockStrips + args.rows
    BY <1>2
  <2> QED
    BY <1>3, <2>1, <2>2, <2>3 DEF ComputeStates, Places
<1>6. packer' \in [relu : BOOLEAN, acc : BOOLEAN]
  BY StateFacts DEF StartBatch, ReluAtStart
<1>7. FusedTypeOK'
  BY <1>1, <1>5, <1>6, StateFacts, TypesLater
<1>8. ~InBiasLoop' /\ (LastOut' => args.numBlocks = 1) /\ ~HasSums'
  BY <1>1, <1>2, <1>4 DEF InBiasLoop, LastOut, HasSums
<1>9. ComputePlace' /\ ReloadPlace'
  <2>1. ComputePlace'
    BY <1>1, <1>2, <1>4 DEF FusedIInv, ComputePlace, InSubblock
  <2>2. (IF args.l1Acc THEN ~args.bias /\ LastOut' ELSE compute'.k > 0)
          = FALSE
    BY <1>2, <1>4, <1>8
  <2>3. ReloadPlace'
    BY <1>1, <1>4, <2>2 DEF ReloadPlace
  <2> QED
    BY <2>1, <2>3
<1>10. PartialsPlace'
  BY <1>1, <1>2, <1>4, <1>8, SameVariant, RingRound
  DEF FusedIInv, PartialsPlace, IfSums, AfterReload
<1>11. OperandsPlace'
  BY <1>1, <1>4 DEF FusedIInv, OperandsPlace, Consumed, Fed, BlockOf, InSubblock
<1>12. (InStep \/ WriterBehind \/ WriterAhead)'
  <2>1. /\ Produced' = 0 /\ Produced = 0 /\ WriterAt' = WriterAt
        /\ BlockStrips' = BlockStrips /\ ~WriterAhead
    BY <1>1, <1>4, SameVariant
    DEF Produced, InSubblock, WriterAt, WriterAhead
  <2> QED
    BY <1>1, <1>4, <2>1 DEF FusedIInv, InStep, WriterBehind
<1> QED
  BY <1>1, <1>7, <1>9, <1>10, <1>11, <1>12, RWFrame, CBsFrame DEF FusedIInv

\* Operands of a new batch element are there only once the writer has drained
\* CB16 and gone on to fetch them.
LEMMA OperandsMeanInStep ==
  ASSUME FusedIInv, compute.pc = "wait", cb.in1.cnt >= 1
  PROVE  InStep
<1>1. SUFFICES ASSUME WriterBehind PROVE FALSE
  BY DEF FusedIInv, WriterAhead
<1>2. /\ args.numBlocks \in Nat \ {0} /\ args.batch \in Nat \ {0}
      /\ args.drained \in BOOLEAN /\ rw.b \in 0 .. args.batch
      /\ compute.b \in 0 .. args.batch
      /\ ~args.drained => args.batch = 1
  BY StateFacts, Variant
<1>3. compute.b # args.batch /\ compute.k = 0
  BY <1>1 DEF FusedIInv, ComputePlace, WriterBehind
<1>4. args.drained /\ compute.b = rw.b + 1 /\ rw.k = args.numBlocks
  BY <1>1, <1>2, <1>3 DEF WriterBehind, WriterAt
<1>5. /\ rw.b * args.numBlocks \in Nat
      /\ (rw.b + 1) * args.numBlocks = rw.b * args.numBlocks + args.numBlocks
  <2>1. rw.b \in 0 .. args.batch - 1
    BY <1>2, <1>4
  <2> QED
    BY <1>2, <2>1, Pieces
<1>6. cb.in1.cnt = Fed - Consumed
  BY DEF FusedIInv, OperandsPlace
<1>7. /\ Fed = rw.b * args.numBlocks + args.numBlocks
      /\ Consumed = (rw.b + 1) * args.numBlocks + 0
  BY <1>3, <1>4 DEF Fed, Consumed, BlockOf
<1> DEFINE p == rw.b * args.numBlocks
<1> HIDE DEF p
<1>8. /\ p \in Nat /\ Fed = p + args.numBlocks
      /\ Consumed = p + args.numBlocks + 0
  BY <1>5, <1>7 DEF p
<1>9. Fed - Consumed = 0
  BY <1>2, <1>8
<1> QED
  BY <1>6, <1>9

LEMMA WaitOperandsIInv ==
  ASSUME FusedIInv, WaitOperands
  PROVE  FusedIInv'
<1>1. /\ UNCHANGED <<args, in0, rw, cb, biasRow, l1>>
      /\ compute.pc = "wait" /\ cb.in0.cnt >= 1 /\ cb.in1.cnt >= 1
      /\ dst' = [h \in Rows |-> <<>>]
  BY DEF WaitOperands
<1>2. /\ args.numBlocks \in Nat \ {0} /\ args.rows \in Nat \ {0}
      /\ NumSubblocks \in Nat \ {0} /\ BlockStrips \in Nat \ {0}
      /\ compute.reload \in BOOLEAN
  BY StateFacts, Variant
<1>3. compute' = [pc |-> SubblockStart(compute.reload), b |-> compute.b,
                  k |-> compute.k, s |-> 0, h |-> compute.h,
                  reload |-> compute.reload, toWait |-> compute.toWait]
  <2>1. compute' = [compute EXCEPT !.pc = SubblockStart(compute.reload),
                                   !.s = 0]
    BY DEF WaitOperands
  <2> QED
    BY <2>1, ComputeIs
<1>4. /\ compute'.pc = SubblockStart(compute.reload)
      /\ compute'.b = compute.b /\ compute'.k = compute.k /\ compute'.s = 0
      /\ compute'.reload = compute.reload
      /\ compute'.toWait = compute.toWait
  BY <1>3
<1>5. /\ compute.reload => compute'.pc = "reload"
      /\ ~compute.reload => compute'.pc = "math"
      /\ compute'.pc \in {"reload", "math"}
  BY <1>2, <1>4 DEF SubblockStart
<1>6. compute' \in ComputeStates
  BY <1>2, <1>3, <1>4, <1>5, StateFacts DEF ComputeStates, Places, Rows
<1>7. /\ packer' \in [relu : BOOLEAN, acc : BOOLEAN]
      /\ dst' \in [Rows -> Value]
  BY <1>1, StateFacts, EmptyValue DEF WaitOperands
<1>8. FusedTypeOK'
  BY <1>1, <1>6, <1>7, StateFacts, TypesLater
<1>9. /\ LastOut' = LastOut /\ InBiasLoop' = InBiasLoop /\ Target' = Target
      /\ ~InBiasLoop /\ BlockStrips' = BlockStrips /\ Offset' = 0
      /\ HasSums' = HasSums /\ (HasSums <=> compute.reload)
  BY <1>1, <1>2, <1>4, SameBlock, SameVariant
  DEF FusedIInv, ComputePlace, InBiasLoop, Offset, HasSums
<1>10. ComputePlace' /\ ReloadPlace'
  BY <1>1, <1>2, <1>4, <1>5, <1>9, SameVariant
  DEF FusedIInv, ComputePlace, ReloadPlace, InSubblock
<1>11. PartialsPlace'
  <2>1. cb.part = Ring(IfSums(BlockStrips), 0, 0, BlockStrips)
    BY <1>1 DEF FusedIInv, PartialsPlace
  <2> QED
    BY <1>1, <1>4, <1>5, <1>9, <2>1
    DEF PartialsPlace, IfSums, IfTo, AfterReload
<1>12. OperandsPlace'
  BY <1>1, <1>4, <1>5, <1>9
  DEF FusedIInv, OperandsPlace, Consumed, Fed, BlockOf
<1>13. InStep'
  <2>1. InStep
    BY <1>1, OperandsMeanInStep
  <2>2. Produced' = 0 /\ Produced = 0
    BY <1>1, <1>5, <1>9 DEF Produced, InSubblock, IfTo
  <2> QED
    BY <1>1, <1>4, <1>9, <2>1, <2>2 DEF InStep, WriterAt
<1> QED
  BY <1>1, <1>8, <1>10, <1>11, <1>12, <1>13, RWFrame, CBsFrame DEF FusedIInv
-------------------------------------------------------------------------------
(* Values *)

LEMMA ValueAppend ==
  ASSUME NEW v \in Value
  PROVE  /\ \A b \in Nat, k \in Nat, strip \in Nat :
              Append(v, Mul(b, k, strip)) \in Value
         /\ \A b \in Nat, strip \in Nat : Append(v, Bias(b, strip)) \in Value
         /\ Activated(v) \in Value
<1> DEFINE Entry == [op : {"mul", "bias", "act"}, b : Nat, k : Nat,
                     strip : Nat]
<1>1. /\ \A b \in Nat, k \in Nat, strip \in Nat : Mul(b, k, strip) \in Entry
      /\ \A b \in Nat, strip \in Nat : Bias(b, strip) \in Entry
      /\ Activation \in Entry
  BY DEF Mul, Bias, Activation
<1>2. Value = Seq(Entry)
  BY DEF Value
<1> HIDE DEF Entry
<1>3. \A e \in Entry : Append(v, e) \in Value
  BY <1>2
<1> QED
  BY <1>1, <1>3 DEF Activated

LEMMA PackedValue ==
  ASSUME NEW config, NEW value \in Value, NEW old \in Value
  PROVE  Packed(config, value, old) \in Value
<1>1. old \o value \in Value
  BY DEF Value
<1> QED
  BY <1>1, ValueAppend DEF Packed

\* The strips CB24 is popped of are read from inside its memory.
LEMMA ReadFacts ==
  ASSUME FusedIInv, compute.pc \in {"reload", "bias"}
  PROVE  /\ cb.part.rd = Offset
         /\ \A h \in Rows : l1[PartMem][cb.part.rd + h] \in Value
<1>1. /\ BlockStrips \in Nat /\ args.rows \in Nat \ {0} /\ Offset \in Nat
      /\ Offset + args.rows <= BlockStrips
  BY StateFacts, Variant, Offsets
<1>2. cb.part = Ring(BlockStrips, IfTo("part", Offset), Offset, BlockStrips)
  BY DEF FusedIInv, PartialsPlace
<1>3. cb.part.rd = Offset
  BY <1>1, <1>2, RingFields
<1>4. \A h \in Rows : cb.part.rd + h \in 0 .. BlockStrips - 1
  BY <1>1, <1>3 DEF Rows
<1>5. l1[PartMem] \in [0 .. BlockStrips - 1 -> Value]
  BY StateFacts, TargetFacts DEF Memories
<1> QED
  BY <1>3, <1>4, <1>5

\* The strips of the subblock at hand, as the values name them.
LEMMA StripNumber ==
  ASSUME FusedIInv, NEW h \in Rows
  PROVE  /\ compute.b \in Nat /\ compute.k \in Nat
         /\ compute.s * args.rows + h \in Nat
<1>1. compute.b \in Nat /\ compute.k \in Nat
  BY StateFacts, Variant
<1>2. Offset + h \in Nat
  <2>1. Offset \in Nat /\ h \in Nat
    BY StateFacts, Variant, Offsets DEF Rows
  <2> QED
    BY <2>1
<1> QED
  BY <1>1, <1>2 DEF Offset

\* The subblock at the front of CB24 is popped.
LEMMA PartialsPop ==
  ASSUME FusedIInv, compute.pc \in {"reload", "bias"}
  PROVE  /\ PopFront(cb.part, args.rows, BlockStrips)
              = Ring(BlockStrips, IfTo("part", Offset), Offset + args.rows,
                     BlockStrips)
         /\ PopFront(cb.part, args.rows, BlockStrips) \in CB(BlockStrips)
<1>1. /\ BlockStrips \in Nat \ {0} /\ args.rows \in Nat \ {0}
      /\ Offset \in Nat /\ Offset + args.rows <= BlockStrips
      /\ BlockStrips \in Nat
  BY StateFacts, Variant, Offsets
<1>2. IfTo("part", Offset) \in Nat /\ IfTo("part", Offset) <= Offset
  BY <1>1 DEF IfTo
<1>3. cb.part = Ring(BlockStrips, IfTo("part", Offset), Offset, BlockStrips)
  BY DEF FusedIInv, PartialsPlace
<1> DEFINE g == IfTo("part", Offset)
<1> HIDE DEF g
<1>4. PopFront(Ring(BlockStrips, g, Offset, BlockStrips), args.rows,
               BlockStrips)
        = Ring(BlockStrips, g, Offset + args.rows, BlockStrips)
  <2>1. g \in Nat
    BY <1>2 DEF g
  <2> QED
    BY <1>1, <2>1, RingPop
<1>5. Ring(BlockStrips, g, Offset + args.rows, BlockStrips) \in CB(BlockStrips)
  <2>1. /\ g \in 0 .. BlockStrips /\ Offset + args.rows \in 0 .. BlockStrips
        /\ BlockStrips + g - (Offset + args.rows) \in 0 .. BlockStrips
    BY <1>1, <1>2 DEF g
  <2> QED
    BY <1>1, <2>1, RingTyped
<1> QED
  BY <1>3, <1>4, <1>5 DEF g
-------------------------------------------------------------------------------
(* The steps of the compute kernel on one subblock, up to its push *)

\* What these steps have in common: they stay at the subblock they are at.
LEMMA SubblockFrame ==
  ASSUME FusedIInv, UNCHANGED <<args, rw, in0>>,
         compute.pc \in InSubblock, compute'.pc \in InSubblock,
         compute'.b = compute.b, compute'.k = compute.k,
         compute'.s = compute.s, compute'.reload = compute.reload,
         cb'.in0 = cb.in0, cb'.in1 = cb.in1, cb'.out = cb.out
  PROVE  /\ OperandsPlace' /\ InStep' /\ RWPlace'
         /\ Offset' = Offset /\ LastOut' = LastOut
         /\ InBiasLoop' = InBiasLoop /\ Target' = Target
         /\ HasSums' = HasSums /\ BlockStrips' = BlockStrips
<1>1. /\ Offset' = Offset /\ LastOut' = LastOut
      /\ InBiasLoop' = InBiasLoop /\ Target' = Target
      /\ BlockStrips' = BlockStrips
  BY SameBlock, SameVariant DEF Offset
<1>2. HasSums' = HasSums
  BY <1>1 DEF HasSums
<1>3. Produced' = Produced /\ BlockOf' = BlockOf
  BY <1>1 DEF Produced, BlockOf, InSubblock, IfTo
<1> QED
  BY <1>1, <1>2, <1>3, OutputFrame, OperandsFrame, RWFrame

LEMMA ReloadIInv ==
  ASSUME FusedIInv, Reload
  PROVE  FusedIInv'
<1>1. /\ UNCHANGED <<args, in0, rw, packer, biasRow, l1>>
      /\ compute.pc = "reload"
      /\ dst' = [h \in Rows |-> l1[PartMem][cb.part.rd + h]]
      /\ cb' = [cb EXCEPT !.part = PopFront(cb.part, args.rows, BlockStrips)]
  BY DEF Reload
<1>2. /\ PopFront(cb.part, args.rows, BlockStrips) \in CB(BlockStrips)
      /\ PopFront(cb.part, args.rows, BlockStrips)
           = Ring(BlockStrips, IfTo("part", Offset), Offset + args.rows,
                  BlockStrips)
  BY <1>1, PartialsPop
<1>3. /\ cb'.part = PopFront(cb.part, args.rows, BlockStrips)
      /\ cb'.in0 = cb.in0 /\ cb'.in1 = cb.in1 /\ cb'.out = cb.out /\ CBsTyped'
  BY <1>1, <1>2, SameVariant DEF FusedIInv, CBsTyped
<1>4. compute' = [pc |-> "math", b |-> compute.b, k |-> compute.k,
                  s |-> compute.s, h |-> compute.h,
                  reload |-> compute.reload, toWait |-> compute.toWait]
  <2>1. compute' = [compute EXCEPT !.pc = "math"]
    BY DEF Reload
  <2> QED
    BY <2>1, ComputeIs
<1>5. /\ compute'.pc = "math" /\ compute'.b = compute.b
      /\ compute'.k = compute.k /\ compute'.s = compute.s
      /\ compute'.reload = compute.reload
      /\ compute'.toWait = compute.toWait
  BY <1>4
<1>6. compute' \in ComputeStates
  BY <1>4, StateFacts DEF ComputeStates, Places, Rows
<1>7. dst' \in [Rows -> Value]
  BY <1>1, ReadFacts
<1>8. FusedTypeOK'
  BY <1>1, <1>2, <1>3, <1>6, <1>7, StateFacts, TypesLater
<1>9. /\ OperandsPlace' /\ InStep' /\ RWPlace'
      /\ Offset' = Offset /\ LastOut' = LastOut
      /\ InBiasLoop' = InBiasLoop /\ Target' = Target
      /\ HasSums' = HasSums /\ BlockStrips' = BlockStrips
  BY <1>1, <1>3, <1>5, SubblockFrame DEF InSubblock
<1>10. ComputePlace' /\ ReloadPlace'
  BY <1>1, <1>5, <1>9 DEF FusedIInv, ComputePlace, ReloadPlace, InSubblock
<1>11. PartialsPlace'
  <2>1. HasSums
    BY <1>1 DEF FusedIInv, ComputePlace, HasSums
  <2> QED
    BY <1>1, <1>2, <1>3, <1>5, <1>9, <2>1
    DEF PartialsPlace, IfSums, IfTo, AfterReload
<1> QED
  BY <1>3, <1>8, <1>9, <1>10, <1>11 DEF FusedIInv

LEMMA AddBiasIInv ==
  ASSUME FusedIInv, AddBias
  PROVE  FusedIInv'
<1> DEFINE Biased(h) == Append(l1[PartMem][cb.part.rd + h],
                               Bias(compute.b, compute.s * args.rows + h))
<1>1. /\ UNCHANGED <<args, in0, rw, biasRow, l1>>
      /\ compute.pc = "bias"
      /\ dst' = [h \in Rows |-> IF args.act = "sfpu" THEN Activated(Biased(h))
                                                    ELSE Biased(h)]
      /\ packer' = [relu |-> packer.relu \/ args.act = "relu", acc |-> FALSE]
      /\ cb' = [cb EXCEPT !.part = PopFront(cb.part, args.rows, BlockStrips)]
  BY DEF AddBias
<1>2. /\ PopFront(cb.part, args.rows, BlockStrips) \in CB(BlockStrips)
      /\ PopFront(cb.part, args.rows, BlockStrips)
           = Ring(BlockStrips, IfTo("part", Offset), Offset + args.rows,
                  BlockStrips)
  BY <1>1, PartialsPop
<1>3. /\ cb'.part = PopFront(cb.part, args.rows, BlockStrips)
      /\ cb'.in0 = cb.in0 /\ cb'.in1 = cb.in1 /\ cb'.out = cb.out /\ CBsTyped'
  BY <1>1, <1>2, SameVariant DEF FusedIInv, CBsTyped
<1>4. compute' = [pc |-> "pack", b |-> compute.b, k |-> compute.k,
                  s |-> compute.s, h |-> compute.h,
                  reload |-> compute.reload, toWait |-> compute.toWait]
  <2>1. compute' = [compute EXCEPT !.pc = "pack"]
    BY DEF AddBias
  <2> QED
    BY <2>1, ComputeIs
<1>5. /\ compute'.pc = "pack" /\ compute'.b = compute.b
      /\ compute'.k = compute.k /\ compute'.s = compute.s
      /\ compute'.reload = compute.reload
      /\ compute'.toWait = compute.toWait
  BY <1>4
<1>6. compute' \in ComputeStates
  BY <1>4, StateFacts DEF ComputeStates, Places, Rows
<1>7. dst' \in [Rows -> Value] /\ packer' \in [relu : BOOLEAN, acc : BOOLEAN]
  <2>1. \A h \in Rows : Biased(h) \in Value
    <3> SUFFICES ASSUME NEW h \in Rows PROVE Biased(h) \in Value
      OBVIOUS
    <3>1. l1[PartMem][cb.part.rd + h] \in Value
      BY <1>1, ReadFacts
    <3>2. compute.b \in Nat /\ compute.s * args.rows + h \in Nat
      BY StripNumber
    <3> QED
      BY <3>1, <3>2, ValueAppend
  <2> HIDE DEF Biased
  <2>2. \A h \in Rows : Activated(Biased(h)) \in Value
    BY <2>1, ValueAppend
  <2> QED
    BY <1>1, <2>1, <2>2, StateFacts
<1>8. FusedTypeOK'
  BY <1>1, <1>2, <1>3, <1>6, <1>7, StateFacts, TypesLater
<1>9. /\ OperandsPlace' /\ InStep' /\ RWPlace'
      /\ Offset' = Offset /\ LastOut' = LastOut
      /\ InBiasLoop' = InBiasLoop /\ Target' = Target
      /\ HasSums' = HasSums /\ BlockStrips' = BlockStrips
  BY <1>1, <1>3, <1>5, SubblockFrame DEF InSubblock
<1>10. /\ InBiasLoop /\ args.bias /\ compute.k # 0
  BY <1>1, StateFacts, Variant DEF FusedIInv, ComputePlace, InBiasLoop
<1>11. ComputePlace' /\ ReloadPlace'
  BY <1>1, <1>5, <1>9, <1>10
  DEF FusedIInv, ComputePlace, ReloadPlace, InSubblock
<1>12. PartialsPlace'
  BY <1>1, <1>2, <1>3, <1>5, <1>9, <1>10
  DEF PartialsPlace, HasSums, IfSums, IfTo, AfterReload
<1> QED
  BY <1>3, <1>8, <1>9, <1>11, <1>12 DEF FusedIInv

LEMMA MatmulBlockIInv ==
  ASSUME FusedIInv, MatmulBlock
  PROVE  FusedIInv'
<1> DEFINE Product(h) == Append(dst[h], Mul(compute.b, compute.k,
                                            compute.s * args.rows + h))
<1>1. /\ UNCHANGED <<args, in0, rw, packer, cb, biasRow, l1>>
      /\ compute.pc = "math"
      /\ dst' = [h \in Rows |-> IF LastOut /\ ~args.bias /\ args.act = "sfpu"
                                THEN Activated(Product(h)) ELSE Product(h)]
  BY DEF MatmulBlock
<1>2. compute' = [pc |-> "pack", b |-> compute.b, k |-> compute.k,
                  s |-> compute.s, h |-> compute.h,
                  reload |-> compute.reload, toWait |-> compute.toWait]
  <2>1. compute' = [compute EXCEPT !.pc = "pack"]
    BY DEF MatmulBlock
  <2> QED
    BY <2>1, ComputeIs
<1>3. /\ compute'.pc = "pack" /\ compute'.b = compute.b
      /\ compute'.k = compute.k /\ compute'.s = compute.s
      /\ compute'.reload = compute.reload
      /\ compute'.toWait = compute.toWait
  BY <1>2
<1>4. compute' \in ComputeStates
  BY <1>2, StateFacts DEF ComputeStates, Places, Rows
<1>5. dst' \in [Rows -> Value]
  <2>1. \A h \in Rows : Product(h) \in Value
    <3> SUFFICES ASSUME NEW h \in Rows PROVE Product(h) \in Value
      OBVIOUS
    <3>1. dst[h] \in Value
      BY StateFacts
    <3>2. /\ compute.b \in Nat /\ compute.k \in Nat
          /\ compute.s * args.rows + h \in Nat
      BY StripNumber
    <3> QED
      BY <3>1, <3>2, ValueAppend
  <2> HIDE DEF Product
  <2>2. \A h \in Rows : Activated(Product(h)) \in Value
    BY <2>1, ValueAppend
  <2> QED
    BY <1>1, <2>1, <2>2
<1>6. FusedTypeOK'
  BY <1>1, <1>4, <1>5, StateFacts, TypesLater
<1>7. /\ OperandsPlace' /\ InStep' /\ RWPlace'
      /\ Offset' = Offset /\ LastOut' = LastOut
      /\ InBiasLoop' = InBiasLoop /\ Target' = Target
      /\ HasSums' = HasSums /\ BlockStrips' = BlockStrips
  BY <1>1, <1>3, SubblockFrame DEF InSubblock
<1>8. ComputePlace' /\ ReloadPlace'
  BY <1>1, <1>3, <1>7, StateFacts
  DEF FusedIInv, ComputePlace, ReloadPlace, InSubblock, InBiasLoop
<1>9. PartialsPlace'
  BY <1>1, <1>3, <1>7
  DEF FusedIInv, PartialsPlace, IfSums, IfTo, AfterReload
<1> QED
  BY <1>1, <1>6, <1>7, <1>8, <1>9, CBsFrame DEF FusedIInv

LEMMA PackedTyped ==
  ASSUME FusedIInv, NEW c \in {"out", "part"}, NEW config
  PROVE  PackedInto(c, config) \in Memories
<1> DEFINE m == MemoryOf(c)
           packed == [i \in 0 .. BlockStrips - 1 |->
                        IF i - cb[c].wr \in Rows
                        THEN Packed(config, dst[i - cb[c].wr], l1[m][i])
                        ELSE l1[m][i]]
<1>1. m \in {"out", "part"}
  BY DEF MemoryOf, PartMem
<1>2. l1 \in [{"out", "part"} -> [0 .. BlockStrips - 1 -> Value]]
  BY StateFacts DEF Memories
<1>3. l1[m] \in [0 .. BlockStrips - 1 -> Value]
  BY <1>1, <1>2
<1>4. packed \in [0 .. BlockStrips - 1 -> Value]
  <2> SUFFICES ASSUME NEW i \in 0 .. BlockStrips - 1
               PROVE  (IF i - cb[c].wr \in Rows
                       THEN Packed(config, dst[i - cb[c].wr], l1[m][i])
                       ELSE l1[m][i]) \in Value
    OBVIOUS
  <2>1. l1[m][i] \in Value
    BY <1>3
  <2>2. CASE i - cb[c].wr \in Rows
    <3>1. dst[i - cb[c].wr] \in Value
      BY <2>2, StateFacts
    <3> QED
      BY <2>1, <2>2, <3>1, PackedValue
  <2> QED
    BY <2>1, <2>2
<1>5. PackedInto(c, config) = [l1 EXCEPT ![m] = packed]
  BY <1>3 DEF PackedInto
<1> HIDE DEF m, packed
<1> QED
  BY <1>1, <1>2, <1>4, <1>5 DEF Memories

LEMMA PackIInv ==
  ASSUME FusedIInv, UNCHANGED <<args, in0, rw, cb, biasRow, dst>>,
         compute.pc = "pack", packer' \in [relu : BOOLEAN, acc : BOOLEAN],
         l1' \in Memories,
         NEW wait \in args.rows .. BlockStrips + args.rows,
         compute.k = 0 => wait <= args.rows + Offset + args.rows,
         compute' = [compute EXCEPT !.pc = "push", !.toWait = wait]
  PROVE  FusedIInv'
<1>1. compute' = [pc |-> "push", b |-> compute.b, k |-> compute.k,
                  s |-> compute.s, h |-> compute.h,
                  reload |-> compute.reload, toWait |-> wait]
  BY ComputeIs
<1>2. /\ compute'.pc = "push" /\ compute'.b = compute.b
      /\ compute'.k = compute.k /\ compute'.s = compute.s
      /\ compute'.reload = compute.reload /\ compute'.toWait = wait
  BY <1>1
<1>3. compute' \in ComputeStates
  BY <1>1, StateFacts DEF ComputeStates, Places, Rows
<1>4. FusedTypeOK'
  BY <1>3, StateFacts, TypesLater
<1>5. /\ OperandsPlace' /\ InStep' /\ RWPlace'
      /\ Offset' = Offset /\ LastOut' = LastOut
      /\ InBiasLoop' = InBiasLoop /\ Target' = Target
      /\ HasSums' = HasSums /\ BlockStrips' = BlockStrips
  BY <1>2, SubblockFrame DEF InSubblock
<1>6. ComputePlace' /\ ReloadPlace'
  BY <1>2, <1>5
  DEF FusedIInv, ComputePlace, ReloadPlace, InSubblock
<1>7. PartialsPlace'
  BY <1>2, <1>5
  DEF FusedIInv, PartialsPlace, IfSums, IfTo, AfterReload
<1> QED
  BY <1>4, <1>5, <1>6, <1>7, CBsFrame DEF FusedIInv

LEMMA PackPartialIInv ==
  ASSUME FusedIInv, PackPartial
  PROVE  FusedIInv'
<1>1. /\ UNCHANGED <<args, in0, rw, cb, biasRow, dst>> /\ compute.pc = "pack"
      /\ packer' = [packer EXCEPT !.acc = Accumulates(compute.k)]
      /\ l1' = PackedInto("part", packer')
      /\ compute' = [compute EXCEPT !.pc = "push", !.toWait = NextToWait]
  BY DEF PackPartial
<1>2. Accumulates(compute.k) \in BOOLEAN
  BY StateFacts, Variant DEF Accumulates
<1>3. packer' \in [relu : BOOLEAN, acc : BOOLEAN] /\ l1' \in Memories
  BY <1>1, <1>2, StateFacts, PackedTyped
<1>4. /\ NextToWait \in args.rows .. BlockStrips + args.rows
      /\ compute.k = 0 => NextToWait <= args.rows + Offset + args.rows
  <2>1. /\ args.rows \in Nat /\ BlockStrips \in Nat /\ Offset \in Nat
        /\ Offset + args.rows <= BlockStrips
        /\ compute.toWait \in args.rows .. BlockStrips + args.rows
    BY StateFacts, Variant, Offsets
  <2>2. compute.k = 0 => compute.toWait <= args.rows + Offset
    BY <1>1 DEF FusedIInv, ReloadPlace
  <2> QED
    BY <2>1, <2>2 DEF NextToWait
<1> QED
  BY <1>1, <1>3, <1>4, PackIInv

LEMMA PackFinalIInv ==
  ASSUME FusedIInv, PackFinal
  PROVE  FusedIInv'
<1>1. /\ UNCHANGED <<args, in0, rw, cb, biasRow, dst>> /\ compute.pc = "pack"
      /\ packer' = [packer EXCEPT !.acc = LastOut /\ Accumulates(compute.k)]
      /\ l1' = PackedInto(Target, packer')
      /\ compute' = [compute EXCEPT !.pc = "push"]
  BY DEF PackFinal
<1>2. packer' \in [relu : BOOLEAN, acc : BOOLEAN] /\ l1' \in Memories
  BY <1>1, StateFacts, TargetFacts, PackedTyped
<1>3. compute' = [compute EXCEPT !.pc = "push", !.toWait = compute.toWait]
  BY <1>1, ComputeIs
<1>4. /\ compute.toWait \in args.rows .. BlockStrips + args.rows
      /\ compute.k = 0 => compute.toWait <= args.rows + Offset + args.rows
  <2>1. /\ args.rows \in Nat /\ Offset \in Nat /\ BlockStrips \in Nat
        /\ compute.toWait \in args.rows .. BlockStrips + args.rows
    BY StateFacts, Variant, Offsets
  <2>2. compute.k = 0 => compute.toWait <= args.rows + Offset
    BY <1>1 DEF FusedIInv, ReloadPlace
  <2> QED
    BY <2>1, <2>2
<1> QED
  BY <1>1, <1>2, <1>3, <1>4, PackIInv
-------------------------------------------------------------------------------
(* The push of a subblock, and the end of a loop over subblocks *)

\* The CB the subblock in DST goes to has room for it.
LEMMA PushFacts ==
  ASSUME FusedIInv, PushSubblock
  PROVE  /\ cb'.in0 = cb.in0 /\ cb'.in1 = cb.in1 /\ CBsTyped'
         /\ cb'.part = Ring(IfSums(BlockStrips),
                            IfTo("part", Offset + args.rows),
                            IfSums(Offset + args.rows), BlockStrips)
         /\ cb'.part \in CB(BlockStrips)
         /\ cb'.out = Ring(0, IfTo("out", Offset + args.rows), rw.stored,
                           BlockStrips)
         /\ cb'.out \in CB(BlockStrips)
         /\ compute.b = WriterAt
<1>1. /\ compute.pc = "push"
      /\ cb' = [cb EXCEPT ![Target] = PushBack(cb[Target], args.rows,
                                               BlockStrips)]
      /\ args' = args
  BY DEF PushSubblock
<1>2. /\ BlockStrips \in Nat \ {0} /\ args.rows \in Nat \ {0}
      /\ Offset \in Nat /\ Offset + args.rows <= BlockStrips
      /\ Offset + args.rows \in Nat /\ rw.stored \in Nat
      /\ BlockStrips \in Nat /\ rw.stored < BlockStrips
  BY StateFacts, Variant, Offsets
<1>3. Target \in {"out", "part"}
  BY TargetFacts
<1>4. cb.part = Ring(IfSums(BlockStrips), IfTo("part", Offset),
                     IfSums(Offset + args.rows), BlockStrips)
  BY <1>1 DEF FusedIInv, PartialsPlace, AfterReload
<1>5. compute.b = WriterAt /\ cb.out = Ring(0, Produced, rw.stored, BlockStrips)
  BY <1>1 DEF FusedIInv, InStep, WriterBehind, WriterAhead
<1>6. Produced = IfTo("out", Offset)
  BY <1>1 DEF Produced, InSubblock
<1>7. /\ IfSums(BlockStrips) \in Nat /\ IfSums(Offset + args.rows) \in Nat
      /\ IfSums(Offset + args.rows) \in 0 .. BlockStrips
  BY <1>2 DEF IfSums
<1>8. /\ Ring(IfSums(BlockStrips), IfTo("part", Offset + args.rows),
              IfSums(Offset + args.rows), BlockStrips) \in CB(BlockStrips)
  <2>1. /\ IfTo("part", Offset + args.rows) \in 0 .. BlockStrips
        /\ IfSums(BlockStrips) + IfTo("part", Offset + args.rows)
             - IfSums(Offset + args.rows) \in 0 .. BlockStrips
    BY <1>2 DEF IfSums, IfTo
  <2> QED
    BY <1>2, <1>7, <2>1, RingTyped
<1>9. Ring(0, IfTo("out", Offset + args.rows), rw.stored, BlockStrips)
        \in CB(BlockStrips)
  <2>1. cb.out.cnt \in Nat
    BY StateFacts, <1>2 DEF CB
  <2>2. cb.out.cnt = 0 + IfTo("out", Offset) - rw.stored
    BY <1>5, <1>6, RingFields
  <2>3. /\ IfTo("out", Offset + args.rows) \in 0 .. BlockStrips
        /\ 0 + IfTo("out", Offset + args.rows) - rw.stored \in 0 .. BlockStrips
    BY <1>2, <2>1, <2>2 DEF IfTo
  <2> QED
    BY <1>2, <2>3, RingTyped
<1>10. CASE Target = "part"
  <2>1. PushBack(Ring(IfSums(BlockStrips), Offset, IfSums(Offset + args.rows),
                      BlockStrips), args.rows, BlockStrips)
          = Ring(IfSums(BlockStrips), Offset + args.rows,
                 IfSums(Offset + args.rows), BlockStrips)
    BY <1>2, <1>7, RingPush
  <2>2. PushBack(cb.part, args.rows, BlockStrips)
          = Ring(IfSums(BlockStrips), IfTo("part", Offset + args.rows),
                 IfSums(Offset + args.rows), BlockStrips)
    BY <1>4, <1>10, <2>1 DEF IfTo
  <2>3. cb' = [cb EXCEPT !["part"] = PushBack(cb.part, args.rows, BlockStrips)]
    BY <1>1, <1>10
  <2>4. /\ cb'.in0 = cb.in0 /\ cb'.in1 = cb.in1 /\ cb'.out = cb.out
        /\ cb'.part = PushBack(cb.part, args.rows, BlockStrips) /\ CBsTyped'
    <3> DEFINE pushed == PushBack(cb.part, args.rows, BlockStrips)
    <3>1. pushed \in CB(BlockStrips)
      BY <1>8, <2>2
    <3>2. /\ cb' = [cb EXCEPT !["part"] = pushed] /\ CBsTyped
          /\ BlockStrips' = BlockStrips
      BY <1>1, <2>3, SameVariant DEF FusedIInv
    <3> HIDE DEF pushed
    <3>3. /\ cb'.in0 = cb.in0 /\ cb'.in1 = cb.in1 /\ cb'.out = cb.out
          /\ cb'.part = pushed
      BY <3>2 DEF CBsTyped
    <3>4. CBsTyped'
      BY <3>1, <3>2 DEF CBsTyped
    <3> QED
      BY <3>3, <3>4 DEF pushed
  <2>5. cb.out =
          Ring(0, IfTo("out", Offset + args.rows), rw.stored, BlockStrips)
    BY <1>5, <1>6, <1>10 DEF IfTo
  <2> QED
    BY <1>5, <1>8, <1>9, <2>2, <2>4, <2>5
<1>11. CASE Target = "out"
  <2>1. PushBack(Ring(0, Offset, rw.stored, BlockStrips), args.rows,
                 BlockStrips)
          = Ring(0, Offset + args.rows, rw.stored, BlockStrips)
    BY <1>2, RingPush
  <2>2. PushBack(cb.out, args.rows, BlockStrips)
          = Ring(0, IfTo("out", Offset + args.rows), rw.stored, BlockStrips)
    BY <1>5, <1>6, <1>11, <2>1 DEF IfTo
  <2>3. cb' = [cb EXCEPT !["out"] = PushBack(cb.out, args.rows, BlockStrips)]
    BY <1>1, <1>11
  <2>4. /\ cb'.in0 = cb.in0 /\ cb'.in1 = cb.in1 /\ cb'.part = cb.part
        /\ cb'.out = PushBack(cb.out, args.rows, BlockStrips) /\ CBsTyped'
    <3> DEFINE pushed == PushBack(cb.out, args.rows, BlockStrips)
    <3>1. pushed \in CB(BlockStrips)
      BY <1>9, <2>2
    <3>2. /\ cb' = [cb EXCEPT !["out"] = pushed] /\ CBsTyped
          /\ BlockStrips' = BlockStrips
      BY <1>1, <2>3, SameVariant DEF FusedIInv
    <3> HIDE DEF pushed
    <3>3. /\ cb'.in0 = cb.in0 /\ cb'.in1 = cb.in1 /\ cb'.part = cb.part
          /\ cb'.out = pushed
      BY <3>2 DEF CBsTyped
    <3>4. CBsTyped'
      BY <3>1, <3>2 DEF CBsTyped
    <3> QED
      BY <3>3, <3>4 DEF pushed
  <2>5. cb.part = Ring(IfSums(BlockStrips), IfTo("part", Offset + args.rows),
                       IfSums(Offset + args.rows), BlockStrips)
    BY <1>4, <1>11 DEF IfTo
  <2> QED
    BY <1>5, <1>8, <1>9, <2>2, <2>4, <2>5
<1> QED
  BY <1>3, <1>10, <1>11

LEMMA PushSubblockIInv ==
  ASSUME FusedIInv, PushSubblock
  PROVE  FusedIInv'
<1>1. /\ UNCHANGED <<args, in0, rw, packer, biasRow, l1>>
      /\ compute.pc = "push" /\ dst' = [h \in Rows |-> <<>>]
  BY DEF PushSubblock
<1>2. /\ cb'.in0 = cb.in0 /\ cb'.in1 = cb.in1 /\ CBsTyped'
      /\ cb'.part = Ring(IfSums(BlockStrips),
                         IfTo("part", Offset + args.rows),
                         IfSums(Offset + args.rows), BlockStrips)
      /\ cb'.part \in CB(BlockStrips)
      /\ cb'.out = Ring(0, IfTo("out", Offset + args.rows), rw.stored,
                        BlockStrips)
      /\ cb'.out \in CB(BlockStrips)
      /\ compute.b = WriterAt
  BY PushFacts
<1>3. /\ BlockStrips \in Nat \ {0} /\ args.rows \in Nat \ {0}
      /\ NumSubblocks \in Nat \ {0} /\ RowStrips \in Nat \ {0}
      /\ Offset \in Nat /\ compute.s \in 0 .. NumSubblocks - 1
      /\ compute.k \in 0 .. args.numBlocks /\ args.numBlocks \in Nat \ {0}
      /\ args.subH \in Nat \ {0}
      /\ compute.toWait \in Nat /\ compute.reload \in BOOLEAN
      /\ args.untilize \in BOOLEAN
      /\ Offset + args.rows = BlockStrips <=> compute.s + 1 = NumSubblocks
      /\ (compute.s + 1) * args.rows = Offset + args.rows
  BY StateFacts, Variant, Offsets
<1>4. dst' \in [Rows -> Value]
  BY <1>1, EmptyValue
<1>5. RWPlace' /\ WriterAt' = WriterAt /\ BlockStrips' = BlockStrips
      /\ RowStrips' = RowStrips
  BY <1>1, RWFrame, SameVariant DEF WriterAt
<1>6. CASE compute.s + 1 < NumSubblocks
  <2> DEFINE pc == IF InBiasLoop THEN "bias" ELSE SubblockStart(compute.reload)
  <2>1. compute' = [pc |-> pc, b |-> compute.b, k |-> compute.k,
                    s |-> compute.s + 1, h |-> compute.h,
                    reload |-> compute.reload, toWait |-> compute.toWait]
    <3>1. compute' = [compute EXCEPT !.s = compute.s + 1, !.pc = pc]
      BY <1>6 DEF PushSubblock
    <3> QED
      BY <3>1, ComputeIs
  <2>2. /\ compute'.pc = pc /\ compute'.b = compute.b
        /\ compute'.k = compute.k /\ compute'.s = compute.s + 1
        /\ compute'.reload = compute.reload
        /\ compute'.toWait = compute.toWait
    BY <2>1
  <2>3. /\ InBiasLoop => pc = "bias"
        /\ ~InBiasLoop /\ compute.reload => pc = "reload"
        /\ ~InBiasLoop /\ ~compute.reload => pc = "math"
        /\ pc \in {"bias", "reload", "math"}
    BY <1>3 DEF SubblockStart
  <2> HIDE DEF pc
  <2>4. compute' \in ComputeStates
    <3>1. compute.s + 1 \in 0 .. NumSubblocks - 1
      BY <1>3, <1>6
    <3> QED
      BY <2>1, <2>3, <3>1, StateFacts DEF ComputeStates, Places, Rows
  <2>5. FusedTypeOK'
    BY <1>1, <1>2, <1>4, <2>4, StateFacts, TypesLater
  <2>6. /\ LastOut' = LastOut /\ InBiasLoop' = InBiasLoop /\ Target' = Target
        /\ Offset' = Offset + args.rows /\ HasSums' = HasSums
    BY <1>1, <1>3, <2>2, SameBlock DEF Offset, HasSums
  <2>7. ComputePlace'
    BY <1>1, <1>3, <2>2, <2>3, <2>6
    DEF FusedIInv, ComputePlace, InSubblock, InBiasLoop
  <2>8. ReloadPlace'
    <3>1. ReloadPlace /\ args' = args /\ compute'.pc \in InSubblock
      BY <1>1, <2>2, <2>3 DEF FusedIInv, InSubblock
    <3>2. ~InBiasLoop =>
            compute.reload = (IF args.l1Acc THEN ~args.bias /\ LastOut
                              ELSE compute.k > 0)
      BY <1>1, <3>1 DEF ReloadPlace, InSubblock
    <3>3. compute.k = 0 => compute.toWait <= args.rows + Offset + args.rows
      BY <1>1, <3>1 DEF ReloadPlace
    <3>4. /\ compute'.pc # "wait" /\ compute'.pc # "push"
          /\ args.rows + (Offset + args.rows) = args.rows + Offset + args.rows
      BY <1>3, <2>2, <2>3
    <3> QED
      BY <2>2, <2>6, <3>1, <3>2, <3>3, <3>4 DEF ReloadPlace
  <2>9. PartialsPlace'
    BY <1>1, <1>2, <1>5, <2>2, <2>3, <2>6
    DEF PartialsPlace, HasSums, IfSums, IfTo, AfterReload
  <2>10. OperandsPlace'
    <3>1. BlockOf' = BlockOf
      BY <1>1, <2>2, <2>3 DEF BlockOf
    <3> QED
      BY <1>1, <1>2, <2>2, <2>6, <3>1, OperandsFrame DEF InSubblock
  <2>11. InStep'
    <3>1. Produced' = IfTo("out", Offset + args.rows)
      BY <2>2, <2>3, <2>6 DEF Produced, InSubblock, IfTo
    <3> QED
      BY <1>1, <1>2, <1>5, <2>2, <3>1 DEF InStep
  <2> QED
    BY <1>2, <1>5, <2>5, <2>7, <2>8, <2>9, <2>10, <2>11 DEF FusedIInv
<1>7. CASE ~(compute.s + 1 < NumSubblocks)
  <2> DEFINE pc == IF InBiasLoop THEN AfterBias ELSE "fold"
  <2>1. compute' = [pc |-> pc, b |-> compute.b, k |-> compute.k,
                    s |-> 0, h |-> compute.h,
                    reload |-> compute.reload, toWait |-> compute.toWait]
    <3>1. compute' = [compute EXCEPT !.s = 0, !.pc = pc]
      BY <1>7 DEF PushSubblock
    <3> QED
      BY <3>1, ComputeIs
  <2>2. /\ compute'.pc = pc /\ compute'.b = compute.b
        /\ compute'.k = compute.k /\ compute'.s = 0
        /\ compute'.reload = compute.reload
        /\ compute'.toWait = compute.toWait
    BY <2>1
  <2>3. /\ ~InBiasLoop => pc = "fold"
        /\ InBiasLoop /\ args.untilize => pc = "untilize"
        /\ InBiasLoop /\ ~args.untilize => pc = "batchEnd"
        /\ pc \in {"fold", "untilize", "batchEnd"}
    BY <1>3 DEF AfterBias
  <2> HIDE DEF pc
  <2>4. compute' \in ComputeStates
    BY <1>3, <2>1, <2>3, StateFacts DEF ComputeStates, Places, Rows
  <2>5. FusedTypeOK'
    BY <1>1, <1>2, <1>4, <2>4, StateFacts, TypesLater
  <2>6. /\ LastOut' = LastOut /\ InBiasLoop' = InBiasLoop /\ Target' = Target
        /\ HasSums' = HasSums /\ Offset + args.rows = BlockStrips
    BY <1>1, <1>3, <1>7, <2>2, SameBlock DEF HasSums
  <2>7. ComputePlace'
    <3>1. /\ compute.b # args.batch /\ args' = args
          /\ args.subH \in Nat \ {0} /\ compute.k \in 0 .. args.numBlocks
          /\ args.numBlocks \in Nat \ {0}
      BY <1>1, <1>3 DEF FusedIInv, ComputePlace
    <3>2. ~InBiasLoop => compute.k < args.numBlocks
      BY <3>1 DEF InBiasLoop
    <3>3. compute'.pc \notin InSubblock \cup {"wait", "row", "done"}
      BY <2>2, <2>3 DEF InSubblock
    <3>4. CASE InBiasLoop
      <4>1. /\ compute'.pc \in {"untilize", "batchEnd"} /\ InBiasLoop'
            /\ compute'.pc = "untilize" => args'.untilize /\ compute'.s = 0
        BY <2>2, <2>3, <2>6, <3>1, <3>4
      <4> QED
        BY <2>2, <3>1, <3>3, <4>1 DEF ComputePlace, InSubblock
    <3>5. CASE ~InBiasLoop
      BY <2>2, <2>3, <3>1, <3>2, <3>3, <3>5 DEF ComputePlace, InSubblock
    <3> QED
      BY <3>4, <3>5
  <2>8. ReloadPlace'
    BY <1>1, <1>3, <2>2, <2>3, <2>6
    DEF FusedIInv, ReloadPlace, InSubblock
  <2>9. compute'.s * RowStrips = 0
    BY <1>3, <2>2
  <2>10. /\ InBiasLoop /\ args.untilize => Target = "part"
         /\ InBiasLoop /\ ~args.untilize => Target = "out"
    BY DEF Target, UntilizeModeOut
  <2>11. PartialsPlace'
    <3>1. CASE pc = "fold"
      BY <1>1, <1>2, <1>5, <2>2, <2>6, <3>1
      DEF PartialsPlace, IfSums, IfTo, AfterReload
    <3>2. CASE pc = "untilize"
      <4>1. InBiasLoop /\ Target = "part"
        BY <1>3, <2>3, <2>10, <3>2
      <4>2. cb'.part = Ring(BlockStrips, 0, 0, BlockStrips)
        BY <1>2, <1>3, <2>6, <4>1, RingRound DEF IfSums, IfTo, HasSums
      <4> QED
        BY <1>1, <1>5, <2>2, <2>9, <3>2, <4>2 DEF PartialsPlace, AfterReload
    <3>3. CASE pc = "batchEnd"
      <4>1. InBiasLoop /\ Target = "out"
        BY <1>3, <2>3, <2>10, <3>3
      <4>2. cb'.part = EmptyCB
        BY <1>2, <1>3, <2>6, <4>1, RingRound DEF IfSums, IfTo, HasSums
      <4> QED
        BY <2>2, <3>3, <4>2 DEF PartialsPlace, AfterReload
    <3> QED
      BY <2>3, <3>1, <3>2, <3>3
  <2>12. OperandsPlace'
    <3>1. BlockOf' = BlockOf
      BY <1>1, <2>2, <2>3 DEF BlockOf
    <3> QED
      BY <1>1, <1>2, <2>2, <2>6, <3>1, OperandsFrame DEF InSubblock
  <2>13. InStep'
    <3>1. Produced' = IfTo("out", Offset + args.rows)
      BY <1>1, <1>3, <1>5, <2>2, <2>3, <2>6, <2>9, <2>10
      DEF Produced, InSubblock, IfTo
    <3> QED
      BY <1>1, <1>2, <1>5, <2>2, <3>1 DEF InStep
  <2> QED
    BY <1>2, <1>5, <2>5, <2>7, <2>8, <2>11, <2>12, <2>13 DEF FusedIInv
<1> QED
  BY <1>6, <1>7
-------------------------------------------------------------------------------
(* The end of a K block *)

\* CB24 at the end of a K block: full, unless the block went to CB16.
LEMMA FoldFacts ==
  ASSUME FusedIInv, compute.pc = "fold"
  PROVE  /\ Target = "part" =>
              cb.part = Ring(BlockStrips, 0, 0, BlockStrips)
         /\ Target = "out" => cb.part = EmptyCB
         /\ compute.s = 0 /\ compute.k < args.numBlocks
         /\ cb.in0.cnt >= 1 /\ cb.in1.cnt >= 1
         /\ Produced = IfTo("out", BlockStrips)
         /\ ~WriterBehind
<1>1. BlockStrips \in Nat \ {0} /\ compute.reload \in BOOLEAN
  BY StateFacts, Variant
<1>2. /\ compute.k < args.numBlocks /\ compute.s = 0
      /\ cb.part = Ring(IfSums(BlockStrips), IfTo("part", BlockStrips),
                        IfSums(BlockStrips), BlockStrips)
  BY DEF FusedIInv, ComputePlace, PartialsPlace, AfterReload
<1>3. cb.in0.cnt >= 1 /\ cb.in1.cnt >= 1
  BY <1>2, StateFacts, Variant DEF FusedIInv, OperandsPlace, InBiasLoop
<1>4. Target = "part" => cb.part = Ring(BlockStrips, 0, 0, BlockStrips)
  BY <1>1, <1>2, RingRound DEF IfSums, IfTo
<1>5. Target = "out" => cb.part = EmptyCB
  BY <1>1, <1>2, RingRound DEF IfSums, IfTo
<1> QED
  BY <1>2, <1>3, <1>4, <1>5 DEF Produced, WriterBehind, InSubblock

\* What becomes of the partial sums: dropped, where the next K block packs
\* onto them in L1, or kept, where it reloads them.
LEMMA FoldNext ==
  ASSUME FusedIInv, EndBlock
  PROVE  /\ compute.pc = "fold"
         /\ compute' = [pc |-> IF ~LastOut THEN "wait"
                               ELSE IF args.bias THEN "bias" ELSE AfterBias,
                        b |-> compute.b, k |-> compute.k + 1,
                        s |-> 0, h |-> compute.h, reload |-> ReloadNext,
                        toWait |-> compute.toWait]
         /\ ReloadNext \in BOOLEAN
         /\ ~LastOut => ReloadNext = (IF args.l1Acc
                                      THEN ~args.bias /\ LastOut'
                                      ELSE compute'.k > 0)
         /\ ~LastOut => ReloadNext = ~FoldsPartials
         /\ LastOut => ~FoldsPartials
<1>1. /\ compute.pc = "fold" /\ args' = args
      /\ compute' = [compute EXCEPT
                       !.k = compute.k + 1, !.reload = ReloadNext,
                       !.pc = IF ~LastOut THEN "wait"
                              ELSE IF args.bias THEN "bias" ELSE AfterBias]
  BY DEF EndBlock
<1>2. /\ args.numBlocks \in Nat \ {0} /\ compute.k \in 0 .. args.numBlocks - 1
      /\ compute.s = 0 /\ compute.reload \in BOOLEAN
      /\ args.bias \in BOOLEAN /\ args.l1Acc \in BOOLEAN
      /\ args.l1Acc /\ ~args.bias => args.numBlocks > 1
  BY <1>1, StateFacts, Variant, FoldFacts
<1>3. compute' = [pc |-> IF ~LastOut THEN "wait"
                         ELSE IF args.bias THEN "bias" ELSE AfterBias,
                  b |-> compute.b, k |-> compute.k + 1,
                  s |-> 0, h |-> compute.h, reload |-> ReloadNext,
                  toWait |-> compute.toWait]
  BY <1>1, <1>2, ComputeIs
<1>4. compute'.k = compute.k + 1
  BY <1>3
<1>5. compute.reload = (IF args.l1Acc THEN ~args.bias /\ LastOut
                                      ELSE compute.k > 0)
  BY <1>1, <1>2 DEF FusedIInv, ReloadPlace, InBiasLoop
<1>6. LastOut' <=> compute.k + 1 = args.numBlocks - 1
  BY <1>1, <1>4 DEF LastOut
<1>7. ReloadNext \in BOOLEAN
  <2>1. CASE args.l1Acc
    BY <2>1 DEF ReloadNext
  <2>2. CASE ~args.l1Acc
    BY <2>2 DEF ReloadNext
  <2> QED
    BY <2>1, <2>2
<1>8. LastOut => ~FoldsPartials
  BY <1>2 DEF LastOut, FoldsPartials
<1>9. ASSUME ~LastOut
      PROVE  /\ ReloadNext = (IF args.l1Acc THEN ~args.bias /\ LastOut'
                                            ELSE compute'.k > 0)
             /\ ReloadNext = ~FoldsPartials
  <2>1. compute.k < args.numBlocks - 1
    BY <1>2, <1>9 DEF LastOut
  <2>2. CASE ~args.l1Acc
    BY <1>2, <1>4, <2>1, <2>2 DEF ReloadNext, FoldsPartials
  <2>3. CASE args.l1Acc /\ args.bias
    BY <1>2, <2>1, <2>3 DEF ReloadNext, FoldsPartials
  <2>4. CASE args.l1Acc /\ ~args.bias
    <3>1. ~compute.reload
      BY <1>5, <1>9, <2>4
    <3>2. ReloadNext = (compute.k = args.numBlocks - 2)
      BY <2>4, <3>1 DEF ReloadNext
    <3>3. FoldsPartials <=> compute.k < args.numBlocks - 2
      BY <2>4 DEF FoldsPartials
    <3> QED
      BY <1>2, <1>6, <2>1, <2>4, <3>2, <3>3
  <2> QED
    BY <1>2, <2>2, <2>3, <2>4
<1> QED
  BY <1>1, <1>3, <1>7, <1>8, <1>9

LEMMA EndBlockIInv ==
  ASSUME FusedIInv, EndBlock
  PROVE  FusedIInv'
<1> DEFINE part == IF FoldsPartials
                   THEN PopFront(cb.part, BlockStrips, BlockStrips)
                   ELSE cb.part
<1>1. /\ UNCHANGED <<args, in0, rw, packer, biasRow, l1, dst>>
      /\ cb' = [cb EXCEPT !.in0 = PopFront(cb.in0, 1, NumBuffer),
                          !.in1 = PopFront(cb.in1, 1, NumBuffer),
                          !.part = part]
  BY DEF EndBlock
<1> HIDE DEF part
<1>2. /\ compute.pc = "fold"
      /\ compute' = [pc |-> IF ~LastOut THEN "wait"
                            ELSE IF args.bias THEN "bias" ELSE AfterBias,
                     b |-> compute.b, k |-> compute.k + 1,
                     s |-> 0, h |-> compute.h, reload |-> ReloadNext,
                     toWait |-> compute.toWait]
      /\ ReloadNext \in BOOLEAN
      /\ ~LastOut => ReloadNext = (IF args.l1Acc
                                   THEN ~args.bias /\ LastOut'
                                   ELSE compute'.k > 0)
      /\ ~LastOut => ReloadNext = ~FoldsPartials
      /\ LastOut => ~FoldsPartials
  BY FoldNext
<1>3. /\ Target = "part" =>
           cb.part = Ring(BlockStrips, 0, 0, BlockStrips)
      /\ Target = "out" => cb.part = EmptyCB
      /\ compute.s = 0 /\ compute.k < args.numBlocks
      /\ cb.in0.cnt >= 1 /\ cb.in1.cnt >= 1
      /\ Produced = IfTo("out", BlockStrips)
      /\ ~WriterBehind
  BY <1>2, FoldFacts
<1>4. /\ BlockStrips \in Nat \ {0} /\ NumSubblocks \in Nat \ {0}
      /\ RowStrips \in Nat \ {0} /\ args.rows \in Nat \ {0}
      /\ args.subH \in Nat \ {0} /\ args.numBlocks \in Nat \ {0}
      /\ args.batch \in Nat \ {0}
      /\ args.bias \in BOOLEAN /\ args.untilize \in BOOLEAN
      /\ compute.k \in 0 .. args.numBlocks /\ compute.b \in Nat
      /\ compute.b # args.batch
      /\ BlockStrips' = BlockStrips /\ RowStrips' = RowStrips
  BY <1>1, <1>2, StateFacts, Variant, SameVariant DEF FusedIInv, ComputePlace
<1> DEFINE pc == IF ~LastOut THEN "wait"
                 ELSE IF args.bias THEN "bias" ELSE AfterBias
<1>5. /\ compute'.pc = pc /\ compute'.b = compute.b
      /\ compute'.k = compute.k + 1 /\ compute'.s = 0
      /\ compute'.reload = ReloadNext
  BY <1>2
<1>6. \/ ~LastOut /\ pc = "wait"
      \/ LastOut /\ args.bias /\ pc = "bias"
      \/ LastOut /\ ~args.bias /\ args.untilize /\ pc = "untilize"
      \/ LastOut /\ ~args.bias /\ ~args.untilize /\ pc = "batchEnd"
  BY <1>4 DEF AfterBias
<1>7. compute' \in ComputeStates
  <2>1. compute.k + 1 \in 0 .. args.numBlocks /\ 0 \in 0 .. NumSubblocks - 1
    BY <1>3, <1>4
  <2>2. pc \in Places
    BY <1>6 DEF Places
  <2> QED
    BY <1>2, <2>1, <2>2, StateFacts DEF ComputeStates, Rows
<1> HIDE DEF pc
<1>8. /\ ~LastOut => Target = "part"
      /\ LastOut /\ args.bias => Target = "part"
      /\ LastOut /\ ~args.bias /\ args.untilize => Target = "part"
      /\ LastOut /\ ~args.bias /\ ~args.untilize => Target = "out"
  BY <1>3, <1>4 DEF Target, UntilizeModeOut, MmOut, LastOut, InBiasLoop
<1>9. /\ LastOut <=> InBiasLoop'
      /\ Offset' = 0 /\ compute'.s * RowStrips = 0
  BY <1>1, <1>3, <1>4, <1>5 DEF LastOut, InBiasLoop, Offset
<1>10. /\ FoldsPartials => part = Ring(0, 0, 0, BlockStrips)
       /\ ~FoldsPartials => part = cb.part
       /\ part \in CB(BlockStrips)
  <2>1. CASE FoldsPartials
    <3>1. cb.part = Ring(BlockStrips, 0, 0, BlockStrips)
      BY <1>2, <1>3, <1>8, <2>1
    <3>2. 0 + BlockStrips <= BlockStrips /\ 0 \in Nat /\ BlockStrips \in Nat
          /\ 0 + BlockStrips = BlockStrips
      BY <1>4
    <3>3. PopFront(Ring(BlockStrips, 0, 0, BlockStrips), BlockStrips,
                   BlockStrips)
            = Ring(BlockStrips, 0, 0 + BlockStrips, BlockStrips)
      BY <1>4, <3>2, RingPop
    <3>4. part = Ring(0, 0, 0, BlockStrips)
      BY <1>4, <2>1, <3>1, <3>2, <3>3, RingRound DEF part
    <3>5. Ring(0, 0, 0, BlockStrips) \in CB(BlockStrips)
      BY <1>4 DEF Ring, CB
    <3> QED
      BY <2>1, <3>4, <3>5
  <2>2. CASE ~FoldsPartials
    BY <2>2, StateFacts DEF part
  <2> QED
    BY <2>1, <2>2
<1>11. /\ PopFront(cb.in0, 1, NumBuffer) \in CB(NumBuffer)
       /\ PopFront(cb.in0, 1, NumBuffer).cnt = cb.in0.cnt - 1
       /\ PopFront(cb.in1, 1, NumBuffer) \in CB(NumBuffer)
       /\ PopFront(cb.in1, 1, NumBuffer).cnt = cb.in1.cnt - 1
       /\ cb.in0.cnt \in Nat /\ cb.in1.cnt \in Nat
  <2>1. cb.in0 \in CB(NumBuffer) /\ cb.in1 \in CB(NumBuffer)
    BY StateFacts
  <2> QED
    BY <1>3, <2>1, OnePop DEF CB, NumBuffer
<1>12. /\ cb'.in0 = PopFront(cb.in0, 1, NumBuffer)
       /\ cb'.in1 = PopFront(cb.in1, 1, NumBuffer)
       /\ cb'.part = part /\ cb'.out = cb.out /\ CBsTyped'
  BY <1>1, <1>10, <1>11, SameVariant DEF FusedIInv, CBsTyped
<1>13. FusedTypeOK'
  BY <1>1, <1>7, <1>10, <1>11, <1>12, StateFacts, TypesLater
<1>14. ComputePlace' /\ ReloadPlace'
  <2>1. ComputePlace'
    BY <1>1, <1>3, <1>4, <1>5, <1>6, <1>9
    DEF ComputePlace, InSubblock, InBiasLoop, LastOut
  <2>2. compute'.k # 0
    BY <1>4, <1>5
  <2>3. ReloadPlace'
    BY <1>1, <1>2, <1>5, <1>6, <1>9, <2>2 DEF ReloadPlace, InSubblock
  <2> QED
    BY <2>1, <2>3
<1>15. PartialsPlace'
  <2>1. CASE pc = "wait"
    <3>1. ~InBiasLoop' /\ (HasSums' <=> ~FoldsPartials)
      BY <1>2, <1>5, <1>6, <1>9, <2>1 DEF HasSums
    <3>2. cb'.part = Ring(IfSums(BlockStrips)', 0, 0, BlockStrips)
      BY <1>3, <1>4, <1>6, <1>8, <1>10, <1>12, <2>1, <3>1 DEF IfSums
    <3> QED
      BY <1>4, <1>5, <2>1, <3>2 DEF PartialsPlace, AfterReload
  <2>2. CASE pc = "bias"
    <3>1. cb'.part = Ring(BlockStrips, 0, 0, BlockStrips)
      BY <1>2, <1>3, <1>6, <1>8, <1>10, <1>12, <2>2
    <3>2. IfTo("part", Offset)' = 0
      BY <1>9 DEF IfTo
    <3> QED
      BY <1>4, <1>5, <1>9, <2>2, <3>1, <3>2 DEF PartialsPlace, AfterReload
  <2>3. CASE pc = "untilize"
    <3>1. cb'.part = Ring(BlockStrips, 0, 0, BlockStrips)
      BY <1>2, <1>3, <1>6, <1>8, <1>10, <1>12, <2>3
    <3> QED
      BY <1>4, <1>5, <1>9, <2>3, <3>1 DEF PartialsPlace, AfterReload
  <2>4. CASE pc = "batchEnd"
    <3>1. cb'.part = EmptyCB
      BY <1>2, <1>3, <1>6, <1>8, <1>10, <1>12, <2>4
    <3> QED
      BY <1>5, <2>4, <3>1 DEF PartialsPlace, AfterReload
  <2> QED
    BY <1>6, <2>1, <2>2, <2>3, <2>4
<1>16. OperandsPlace'
  <2>1. /\ BlockOf = compute.k /\ BlockOf' = compute.k + 1
        /\ cb.in0.cnt = in0 - Consumed /\ cb.in1.cnt = Fed - Consumed
        /\ Fed' = Fed
    BY <1>1, <1>2, <1>5, <1>6 DEF FusedIInv, OperandsPlace, BlockOf, Fed
  <2> DEFINE p == compute.b * args.numBlocks
  <2>2. p \in Nat /\ in0 \in Int /\ Fed \in Int
    BY <1>4, StateFacts, Variant DEF Fed
  <2>3. Consumed = p + compute.k /\ Consumed' = p + (compute.k + 1)
    BY <1>1, <1>5, <2>1 DEF Consumed
  <2> HIDE DEF p
  <2>4. cb'.in0.cnt = in0 - Consumed' /\ cb'.in1.cnt = Fed - Consumed'
    BY <1>4, <1>11, <1>12, <2>1, <2>2, <2>3
  <2> QED
    BY <1>1, <1>5, <1>6, <1>9, <2>1, <2>4 DEF OperandsPlace, InSubblock
<1>17. (InStep \/ WriterBehind \/ WriterAhead)'
  <2>1. Produced' = Produced
    BY <1>3, <1>4, <1>5, <1>6, <1>8, <1>9 DEF Produced, InSubblock, IfTo
  <2>2. WriterAhead => pc = "batchEnd"
    BY <1>3, <1>4, <1>6, <1>8 DEF WriterAhead, IfTo
  <2>3. WriterAt' = WriterAt
    BY <1>1 DEF WriterAt
  <2> QED
    BY <1>1, <1>3, <1>4, <1>5, <1>12, <2>1, <2>2, <2>3
    DEF FusedIInv, InStep, WriterAhead
<1> QED
  BY <1>1, <1>12, <1>13, <1>14, <1>15, <1>16, <1>17, RWFrame DEF FusedIInv
-------------------------------------------------------------------------------
(* The untilized output, and the end of a batch element *)

LEMMA StartRowIInv ==
  ASSUME FusedIInv, StartRow
  PROVE  FusedIInv'
<1>1. /\ UNCHANGED <<args, in0, rw, cb, biasRow, l1, dst>>
      /\ compute.pc = "untilize"
      /\ packer' = [relu |-> FALSE, acc |-> FALSE]
  BY DEF StartRow
<1>2. compute' = [pc |-> "row", b |-> compute.b, k |-> compute.k,
                  s |-> compute.s, h |-> 0, reload |-> compute.reload,
                  toWait |-> compute.toWait]
  <2>1. compute' = [compute EXCEPT !.pc = "row", !.h = 0]
    BY DEF StartRow
  <2> QED
    BY <2>1, ComputeIs
<1>3. /\ compute'.pc = "row" /\ compute'.b = compute.b
      /\ compute'.k = compute.k /\ compute'.s = compute.s
      /\ compute'.h = 0 /\ compute'.reload = compute.reload
  BY <1>2
<1>4. /\ args.rows \in Nat \ {0} /\ args.subW \in Nat
      /\ compute.s * RowStrips \in Nat
  BY <1>1, StateFacts, Variant, RowOffsets
<1>5. compute' \in ComputeStates
  BY <1>2, <1>4, StateFacts DEF ComputeStates, Places, Rows
<1>6. FusedTypeOK'
  BY <1>1, <1>5, StateFacts, TypesLater
<1>7. /\ InBiasLoop' = InBiasLoop /\ RowStrips' = RowStrips
      /\ BlockStrips' = BlockStrips
  BY <1>1, <1>3, SameBlock, SameVariant
<1>8. ComputePlace' /\ ReloadPlace'
  BY <1>1, <1>3, <1>7
  DEF FusedIInv, ComputePlace, ReloadPlace, InSubblock
<1>9. PartialsPlace'
  BY <1>1, <1>3, <1>7 DEF FusedIInv, PartialsPlace, AfterReload
<1>10. InBiasLoop
  BY <1>1 DEF FusedIInv, ComputePlace
<1>11. OperandsPlace'
  <2>1. BlockOf' = BlockOf
    BY <1>1, <1>3 DEF BlockOf
  <2> QED
    BY <1>1, <1>3, <1>7, <1>10, <2>1, OperandsFrame
<1>12. InStep'
  <2>1. Produced' = compute.s * RowStrips + 0 * args.subW
    BY <1>1, <1>3, <1>7 DEF Produced
  <2>2. Produced = compute.s * RowStrips
    BY <1>1 DEF Produced
  <2>3. Produced' = Produced
    <3> DEFINE a == compute.s * RowStrips
    <3>1. a \in Nat
      BY <1>4
    <3> HIDE DEF a
    <3>2. Produced' = a + 0 * args.subW /\ Produced = a
      BY <2>1, <2>2 DEF a
    <3> QED
      BY <1>4, <3>1, <3>2
  <2> QED
    BY <1>1, <1>3, <2>3, OutputFrame
<1> QED
  BY <1>1, <1>6, <1>8, <1>9, <1>11, <1>12, RWFrame, CBsFrame DEF FusedIInv

\* One row of strips of a row of subblocks goes from CB24 to CB16.
LEMMA RowPlace ==
  ASSUME FusedIInv, compute.pc = "row"
  PROVE  /\ compute.pc = "row"
         /\ cb.part = Ring(BlockStrips, 0, compute.s * RowStrips, BlockStrips)
         /\ cb.part.rd = compute.s * RowStrips
         /\ cb.out = Ring(0, Produced, rw.stored, BlockStrips)
         /\ Produced + args.subW <= BlockStrips /\ Produced \in Nat
         /\ cb.out.wr = Produced
         /\ Produced = compute.s * RowStrips + compute.h * args.subW
         /\ compute.b = WriterAt
<1>1. compute.pc = "row"
  OBVIOUS
<1>2. cb.part = Ring(BlockStrips, 0, compute.s * RowStrips, BlockStrips)
  BY <1>1 DEF FusedIInv, PartialsPlace
<1>3. cb.out = Ring(0, Produced, rw.stored, BlockStrips) /\ compute.b = WriterAt
  BY <1>1 DEF FusedIInv, InStep, WriterBehind, WriterAhead
<1>4. Produced = compute.s * RowStrips + compute.h * args.subW
  BY <1>1 DEF Produced
<1> DEFINE a == compute.s * RowStrips
           c == compute.h * args.subW
<1>5. /\ a \in Nat /\ a + RowStrips <= BlockStrips
      /\ c \in Nat /\ c + args.subW <= RowStrips
      /\ RowStrips \in Nat \ {0} /\ args.subW \in Nat \ {0}
      /\ BlockStrips \in Nat
  BY <1>1, StateFacts, Variant, RowOffsets
<1>6. /\ cb.part = Ring(BlockStrips, 0, a, BlockStrips)
      /\ Produced = a + c
  BY <1>2, <1>4
<1> HIDE DEF a, c
<1>7. /\ Produced + args.subW <= BlockStrips /\ Produced \in Nat
      /\ Produced # BlockStrips /\ a # BlockStrips
  BY <1>5, <1>6
<1>8. cb.part.rd = a /\ cb.out.wr = Produced
  BY <1>3, <1>6, <1>7, RingFields
<1> QED
  BY <1>1, <1>2, <1>3, <1>4, <1>7, <1>8 DEF a

LEMMA RowFacts ==
  ASSUME FusedIInv, UntilizeRow
  PROVE  /\ compute.pc = "row"
         /\ cb.part = Ring(BlockStrips, 0, compute.s * RowStrips, BlockStrips)
         /\ cb.part.rd = compute.s * RowStrips
         /\ cb.out = Ring(0, Produced, rw.stored, BlockStrips)
         /\ Produced + args.subW <= BlockStrips /\ Produced \in Nat
         /\ cb.out.wr = Produced
         /\ Produced = compute.s * RowStrips + compute.h * args.subW
         /\ compute.b = WriterAt
<1>1. compute.pc = "row"
  BY DEF UntilizeRow
<1> QED
  BY <1>1, RowPlace

\* The strips of a row are read from inside CB24.
LEMMA RowReads ==
  ASSUME FusedIInv, UntilizeRow, NEW n \in 0 .. args.subW - 1
  PROVE  /\ StripOfRow(n, compute.h) \in 0 .. RowStrips - 1
         /\ cb.part.rd + StripOfRow(n, compute.h) \in 0 .. BlockStrips - 1
<1> DEFINE p == n * args.rows
           a == compute.s * RowStrips
<1>1. /\ args.subW \in Nat \ {0} /\ args.rows \in Nat \ {0}
      /\ compute.h \in 0 .. args.rows - 1 /\ RowStrips \in Nat \ {0}
      /\ RowStrips = args.rows * args.subW /\ BlockStrips \in Nat
  BY StateFacts, Variant
<1>2. p \in Nat /\ p + args.rows <= args.subW * args.rows
  BY <1>1, Pieces
<1>3. args.subW * args.rows = RowStrips
  BY <1>1
<1>4. a \in Nat /\ a + RowStrips <= BlockStrips /\ cb.part.rd = a
  BY RowFacts, RowOffsets
<1>5. StripOfRow(n, compute.h) = p + compute.h
  BY DEF StripOfRow
<1> HIDE DEF p, a
<1> QED
  BY <1>1, <1>2, <1>3, <1>4, <1>5

LEMMA RowTyped ==
  ASSUME FusedIInv, UntilizeRow
  PROVE  l1' \in Memories
<1> DEFINE Read(i) == l1[PartMem][cb.part.rd
                         + StripOfRow(i - cb.out.wr, compute.h)]
           row == [i \in 0 .. BlockStrips - 1 |->
                     IF i - cb.out.wr \in 0 .. args.subW - 1
                     THEN Packed(packer, Read(i), l1["out"][i])
                     ELSE l1["out"][i]]
<1>1. l1 \in [{"out", "part"} -> [0 .. BlockStrips - 1 -> Value]]
  BY StateFacts DEF Memories
<1>2. l1["out"] \in [0 .. BlockStrips - 1 -> Value]
      /\ l1[PartMem] \in [0 .. BlockStrips - 1 -> Value]
  BY <1>1, TargetFacts
<1>3. row \in [0 .. BlockStrips - 1 -> Value]
  <2> SUFFICES ASSUME NEW i \in 0 .. BlockStrips - 1
               PROVE  (IF i - cb.out.wr \in 0 .. args.subW - 1
                       THEN Packed(packer, Read(i), l1["out"][i])
                       ELSE l1["out"][i]) \in Value
    OBVIOUS
  <2>1. l1["out"][i] \in Value
    BY <1>2
  <2>2. CASE i - cb.out.wr \in 0 .. args.subW - 1
    <3>1. cb.part.rd + StripOfRow(i - cb.out.wr, compute.h)
            \in 0 .. BlockStrips - 1
      BY <2>2, RowReads
    <3>2. Read(i) \in Value
      BY <1>2, <3>1
    <3> HIDE DEF Read
    <3> QED
      BY <2>1, <2>2, <3>2, PackedValue
  <2> QED
    BY <2>1, <2>2
<1>4. l1' = [l1 EXCEPT !["out"] = row]
  BY <1>2 DEF UntilizeRow
<1> HIDE DEF row
<1> QED
  BY <1>1, <1>3, <1>4 DEF Memories

\* The two CBs after a row, and whether it was the last of its subblocks.
LEMMA RowMoves ==
  ASSUME FusedIInv, UntilizeRow
  PROVE  /\ cb'.in0 = cb.in0 /\ cb'.in1 = cb.in1 /\ CBsTyped'
         /\ cb'.out = Ring(0, Produced + args.subW, rw.stored, BlockStrips)
         /\ cb'.out \in CB(BlockStrips) /\ cb'.part \in CB(BlockStrips)
         /\ compute.h + 1 # args.rows => cb'.part = cb.part
         /\ compute.h + 1 = args.rows =>
              cb'.part = Ring(BlockStrips, 0,
                              compute.s * RowStrips + RowStrips, BlockStrips)
<1> DEFINE a == compute.s * RowStrips
           part == IF compute.h + 1 = args.rows
                   THEN PopFront(cb.part, RowStrips, BlockStrips)
                   ELSE cb.part
           out == PushBack(cb.out, args.subW, BlockStrips)
<1>1. /\ cb' = [cb EXCEPT !.out = out, !.part = part]
      /\ args' = args
  BY DEF UntilizeRow
<1>2. /\ cb.part = Ring(BlockStrips, 0, a, BlockStrips)
      /\ cb.out = Ring(0, Produced, rw.stored, BlockStrips)
      /\ Produced + args.subW <= BlockStrips /\ Produced \in Nat
      /\ a \in Nat /\ a + RowStrips <= BlockStrips
      /\ RowStrips \in Nat \ {0} /\ args.subW \in Nat \ {0}
      /\ BlockStrips \in Nat \ {0} /\ rw.stored \in Nat
      /\ rw.stored < BlockStrips /\ BlockStrips \in Nat
      /\ cb.part \in CB(BlockStrips)
  BY StateFacts, Variant, RowFacts, RowOffsets
<1> HIDE DEF a
<1>3. out = Ring(0, Produced + args.subW, rw.stored, BlockStrips)
  <2>1. PushBack(Ring(0, Produced, rw.stored, BlockStrips), args.subW,
                 BlockStrips)
          = Ring(0, Produced + args.subW, rw.stored, BlockStrips)
    <3>1. /\ BlockStrips \in Nat \ {0} /\ 0 \in Nat /\ rw.stored \in Nat
          /\ Produced \in Nat /\ args.subW \in Nat \ {0}
          /\ Produced + args.subW <= BlockStrips
      BY <1>2
    <3> QED
      BY <3>1, RingPush
  <2> QED
    BY <1>2, <2>1
<1>4. out \in CB(BlockStrips)
  <2>1. cb.out.cnt \in Nat
    BY <1>2, StateFacts DEF CB
  <2>2. cb.out.cnt = 0 + Produced - rw.stored
    BY <1>2, RingFields
  <2>3. /\ Produced + args.subW \in 0 .. BlockStrips
        /\ rw.stored \in 0 .. BlockStrips
        /\ 0 + (Produced + args.subW) - rw.stored \in 0 .. BlockStrips
    BY <1>2, <2>1, <2>2
  <2> QED
    BY <1>2, <1>3, <2>3, RingTyped
<1>5. /\ part \in CB(BlockStrips)
      /\ compute.h + 1 # args.rows => part = cb.part
      /\ compute.h + 1 = args.rows =>
           part = Ring(BlockStrips, 0, a + RowStrips, BlockStrips)
  <2>1. CASE compute.h + 1 = args.rows
    <3>1. PopFront(Ring(BlockStrips, 0, a, BlockStrips), RowStrips,
                   BlockStrips)
            = Ring(BlockStrips, 0, a + RowStrips, BlockStrips)
      <4>1. /\ BlockStrips \in Nat \ {0} /\ BlockStrips \in Nat /\ 0 \in Nat
            /\ a \in Nat /\ RowStrips \in Nat \ {0}
            /\ a + RowStrips <= BlockStrips
        BY <1>2
      <4> QED
        BY <4>1, RingPop
    <3>2. part = Ring(BlockStrips, 0, a + RowStrips, BlockStrips)
      BY <1>2, <2>1, <3>1
    <3>3. /\ a + RowStrips \in 0 .. BlockStrips
          /\ BlockStrips + 0 - (a + RowStrips) \in 0 .. BlockStrips
          /\ 0 \in 0 .. BlockStrips
      BY <1>2
    <3>4. Ring(BlockStrips, 0, a + RowStrips, BlockStrips) \in CB(BlockStrips)
      BY <1>2, <3>3, RingTyped
    <3> QED
      BY <2>1, <3>2, <3>4
  <2>2. CASE compute.h + 1 # args.rows
    BY <1>2, <2>2
  <2> QED
    BY <2>1, <2>2
<1> HIDE DEF out, part
<1>6. /\ cb'.in0 = cb.in0 /\ cb'.in1 = cb.in1 /\ cb'.out = out
      /\ cb'.part = part /\ CBsTyped'
  BY <1>1, <1>4, <1>5, SameVariant DEF FusedIInv, CBsTyped
<1> QED
  BY <1>3, <1>4, <1>5, <1>6 DEF a

\* Where the compute kernel goes after a row, with its strips in CB16.
LEMMA RowAdvance ==
  ASSUME FusedIInv, UntilizeRow
  PROVE  /\ \/ /\ compute.h + 1 # args.rows
               /\ compute' = [pc |-> "row", b |-> compute.b, k |-> compute.k,
                              s |-> compute.s, h |-> compute.h + 1,
                              reload |-> compute.reload,
                              toWait |-> compute.toWait]
            \/ /\ compute.h + 1 = args.rows /\ compute.s + 1 < args.subH
               /\ compute' = [pc |-> "untilize", b |-> compute.b,
                              k |-> compute.k, s |-> compute.s + 1,
                              h |-> compute.h, reload |-> compute.reload,
                              toWait |-> compute.toWait]
            \/ /\ compute.h + 1 = args.rows /\ compute.s + 1 = args.subH
               /\ compute' = [pc |-> "batchEnd", b |-> compute.b,
                              k |-> compute.k, s |-> 0, h |-> compute.h,
                              reload |-> compute.reload,
                              toWait |-> compute.toWait]
         /\ Produced' = Produced + args.subW
<1> DEFINE a == compute.s * RowStrips
           c == compute.h * args.subW
           last == compute.h + 1 = args.rows
<1>1. /\ args' = args
      /\ compute' = IF ~last THEN [compute EXCEPT !.h = compute.h + 1]
                    ELSE IF compute.s + 1 < args.subH
                    THEN [compute EXCEPT !.pc = "untilize",
                                         !.s = compute.s + 1]
                    ELSE [compute EXCEPT !.pc = "batchEnd", !.s = 0]
  BY DEF UntilizeRow
<1>2. compute.pc = "row" /\ Produced = a + c
  BY RowFacts
<1>3. /\ a \in Nat /\ c \in Nat /\ args.subW \in Nat
      /\ RowStrips \in Nat \ {0} /\ BlockStrips \in Nat \ {0}
      /\ compute.s \in Nat /\ args.subH \in Nat /\ compute.s < args.subH
      /\ a + RowStrips = BlockStrips <=> compute.s + 1 = args.subH
      /\ (compute.s + 1) * RowStrips = a + RowStrips
      /\ c + args.subW = RowStrips <=> last
      /\ (compute.h + 1) * args.subW = c + args.subW
  <2>1. compute.s < args.subH
    BY <1>2 DEF FusedIInv, ComputePlace
  <2> QED
    BY <1>2, <2>1, StateFacts, Variant, RowOffsets
<1>4. BlockStrips' = BlockStrips /\ RowStrips' = RowStrips
  BY <1>1, SameVariant
<1>5. compute.s + 1 < args.subH \/ compute.s + 1 = args.subH
  BY <1>3
<1> HIDE DEF a, c
<1>6. CASE ~last
  <2>1. compute' = [pc |-> "row", b |-> compute.b, k |-> compute.k,
                    s |-> compute.s, h |-> compute.h + 1,
                    reload |-> compute.reload, toWait |-> compute.toWait]
    BY <1>1, <1>2, <1>6, ComputeIs
  <2>2. Produced' = a + (c + args.subW)
    <3>1. /\ compute'.pc = "row" /\ compute'.s = compute.s
          /\ compute'.h = compute.h + 1
      BY <2>1
    <3>2. args' = args
      BY <1>1
    <3>3. Produced' = compute.s * RowStrips + (compute.h + 1) * args.subW
      BY <1>4, <3>1, <3>2 DEF Produced
    <3> QED
      BY <1>3, <3>3 DEF a
  <2>3. Produced' = Produced + args.subW
    BY <1>2, <1>3, <2>2
  <2> QED
    BY <1>6, <2>1, <2>3
<1>7. ASSUME last PROVE Produced + args.subW = a + RowStrips
  <2>1. /\ Produced = a + c /\ c + args.subW = RowStrips
        /\ a \in Nat /\ c \in Nat /\ args.subW \in Nat
    BY <1>2, <1>3, <1>7
  <2> QED
    BY <2>1
<1>8. CASE last /\ compute.s + 1 < args.subH
  <2>1. compute' = [pc |-> "untilize", b |-> compute.b, k |-> compute.k,
                    s |-> compute.s + 1, h |-> compute.h,
                    reload |-> compute.reload, toWait |-> compute.toWait]
    BY <1>1, <1>8, ComputeIs
  <2>2. Produced' = a + RowStrips
    BY <1>3, <1>4, <2>1 DEF Produced
  <2> QED
    BY <1>7, <1>8, <2>1, <2>2
<1>9. CASE last /\ compute.s + 1 = args.subH
  <2>1. compute' = [pc |-> "batchEnd", b |-> compute.b, k |-> compute.k,
                    s |-> 0, h |-> compute.h,
                    reload |-> compute.reload, toWait |-> compute.toWait]
    <3>1. ~(compute.s + 1 < args.subH)
      BY <1>3, <1>9
    <3> QED
      BY <1>1, <1>9, <3>1, ComputeIs
  <2>2. Produced' = a + RowStrips
    BY <1>3, <1>4, <1>9, <2>1 DEF Produced
  <2> QED
    BY <1>7, <1>9, <2>1, <2>2
<1> QED
  BY <1>5, <1>6, <1>8, <1>9

LEMMA UntilizeRowIInv ==
  ASSUME FusedIInv, UntilizeRow
  PROVE  FusedIInv'
<1> DEFINE a == compute.s * RowStrips
           c == compute.h * args.subW
           last == compute.h + 1 = args.rows
<1>1. UNCHANGED <<args, in0, rw, packer, biasRow, dst>>
  BY DEF UntilizeRow
<1>2. /\ compute.pc = "row" /\ compute.b = WriterAt
      /\ cb.part = Ring(BlockStrips, 0, a, BlockStrips)
      /\ Produced = a + c
  BY RowFacts
<1>3. /\ cb'.in0 = cb.in0 /\ cb'.in1 = cb.in1 /\ CBsTyped'
      /\ cb'.out = Ring(0, Produced + args.subW, rw.stored, BlockStrips)
      /\ cb'.out \in CB(BlockStrips) /\ cb'.part \in CB(BlockStrips)
      /\ ~last => cb'.part = cb.part
      /\ last => cb'.part = Ring(BlockStrips, 0, a + RowStrips, BlockStrips)
  BY RowMoves
<1>4. /\ a \in Nat /\ c \in Nat /\ args.subW \in Nat
      /\ RowStrips \in Nat \ {0} /\ BlockStrips \in Nat \ {0}
      /\ args.rows \in Nat \ {0} /\ args.subH \in Nat \ {0}
      /\ args.subH <= NumSubblocks /\ NumSubblocks \in Nat
      /\ compute.s \in 0 .. NumSubblocks - 1
      /\ compute.h \in 0 .. args.rows - 1
      /\ a + RowStrips = BlockStrips <=> compute.s + 1 = args.subH
      /\ (compute.s + 1) * RowStrips = a + RowStrips
      /\ c + args.subW = RowStrips <=> last
      /\ (compute.h + 1) * args.subW = c + args.subW
  BY <1>2, StateFacts, Variant, RowOffsets
<1>5. /\ InBiasLoop /\ args.untilize /\ compute.s < args.subH
      /\ compute.k = args.numBlocks /\ compute.b # args.batch
      /\ args.numBlocks # 0
  BY <1>2, StateFacts, Variant DEF FusedIInv, ComputePlace, InBiasLoop
<1>6. /\ BlockStrips' = BlockStrips /\ RowStrips' = RowStrips
      /\ RWPlace' /\ WriterAt' = WriterAt
  BY <1>1, SameVariant, RWFrame DEF WriterAt
<1>7. \/ /\ ~last
         /\ compute' = [pc |-> "row", b |-> compute.b, k |-> compute.k,
                        s |-> compute.s, h |-> compute.h + 1,
                        reload |-> compute.reload, toWait |-> compute.toWait]
      \/ /\ last /\ compute.s + 1 < args.subH
         /\ compute' = [pc |-> "untilize", b |-> compute.b, k |-> compute.k,
                        s |-> compute.s + 1, h |-> compute.h,
                        reload |-> compute.reload, toWait |-> compute.toWait]
      \/ /\ last /\ compute.s + 1 = args.subH
         /\ compute' = [pc |-> "batchEnd", b |-> compute.b, k |-> compute.k,
                        s |-> 0, h |-> compute.h,
                        reload |-> compute.reload, toWait |-> compute.toWait]
  BY RowAdvance
<1> HIDE DEF a, c, last
<1>8. /\ compute'.b = compute.b /\ compute'.k = compute.k
      /\ compute'.pc \in {"row", "untilize", "batchEnd"}
      /\ compute'.pc \in {"row", "untilize"} => compute'.s < args.subH
  BY <1>5, <1>7
<1>9. compute' \in ComputeStates
  <2>1. ~last => compute.h + 1 \in 0 .. args.rows - 1
    <3>1. args.rows \in Nat \ {0} /\ compute.h \in 0 .. args.rows - 1
      BY <1>4
    <3> QED
      BY <3>1 DEF last
  <2>2. compute.s + 1 < args.subH => compute.s + 1 \in 0 .. NumSubblocks - 1
    BY <1>4
  <2>3. 0 \in 0 .. NumSubblocks - 1
    BY <1>4
  <2> QED
    BY <1>7, <2>1, <2>2, <2>3, StateFacts DEF ComputeStates, Places, Rows
<1>10. FusedTypeOK'
  BY <1>1, <1>3, <1>9, StateFacts, RowTyped, TypesLater
<1>11. InBiasLoop'
  BY <1>1, <1>5, <1>8 DEF InBiasLoop
<1>12. ComputePlace'
  BY <1>1, <1>5, <1>8, <1>11 DEF ComputePlace, InSubblock
<1>13. ReloadPlace'
  BY <1>8, <1>11 DEF ReloadPlace, InSubblock
<1>14. PartialsPlace'
  <2>1. CASE ~last
    <3>1. compute'.pc = "row" /\ compute'.s = compute.s
      BY <1>7, <2>1
    <3> QED
      BY <1>2, <1>3, <1>6, <2>1, <3>1 DEF PartialsPlace, AfterReload, a
  <2>2. CASE last /\ compute.s + 1 < args.subH
    <3>1. compute'.pc = "untilize" /\ compute'.s = compute.s + 1
      BY <1>4, <1>7, <2>2
    <3> QED
      BY <1>3, <1>4, <1>6, <2>2, <3>1 DEF PartialsPlace, AfterReload
  <2>3. CASE last /\ compute.s + 1 = args.subH
    <3>1. compute'.pc = "batchEnd"
      BY <1>4, <1>7, <2>3
    <3>2. cb'.part = EmptyCB
      BY <1>3, <1>4, <2>3, RingRound
    <3> QED
      BY <3>1, <3>2 DEF PartialsPlace, AfterReload
  <2> QED
    BY <1>7, <2>1, <2>2, <2>3
<1>15. OperandsPlace'
  <2>1. BlockOf' = BlockOf /\ InBiasLoop' = InBiasLoop
    BY <1>2, <1>5, <1>8, <1>11 DEF BlockOf
  <2> QED
    BY <1>1, <1>3, <1>8, <1>11, <2>1, OperandsFrame
<1>16. InStep'
  <2>1. Produced' = Produced + args.subW
    BY RowAdvance
  <2> QED
    BY <1>1, <1>2, <1>3, <1>6, <1>8, <2>1 DEF InStep
<1> QED
  BY <1>3, <1>6, <1>10, <1>12, <1>13, <1>14, <1>15, <1>16 DEF FusedIInv

LEMMA EndBatchIInv ==
  ASSUME FusedIInv, EndBatch
  PROVE  FusedIInv'
<1> DEFINE pc == IF compute.b + 1 < args.batch THEN "batch" ELSE "done"
<1>1. /\ UNCHANGED <<args, in0, rw, packer, cb, biasRow, l1, dst>>
      /\ compute.pc = "batchEnd"
  BY DEF EndBatch
<1>2. compute' = [pc |-> pc, b |-> compute.b + 1, k |-> compute.k,
                  s |-> compute.s, h |-> compute.h,
                  reload |-> compute.reload, toWait |-> compute.toWait]
  <2>1. compute' = [compute EXCEPT !.b = compute.b + 1, !.pc = pc]
    BY DEF EndBatch
  <2> QED
    BY <2>1, ComputeIs
<1>3. /\ compute'.pc = pc /\ compute'.b = compute.b + 1
      /\ compute'.k = compute.k
  BY <1>2
<1>4. /\ args.batch \in Nat \ {0} /\ args.numBlocks \in Nat \ {0}
      /\ BlockStrips \in Nat \ {0} /\ args.drained \in BOOLEAN
      /\ compute.b \in 0 .. args.batch - 1 /\ compute.k = args.numBlocks
      /\ rw.b \in Nat /\ rw.k \in 0 .. args.numBlocks /\ rw.stored \in Nat
      /\ BlockStrips' = BlockStrips
  <2>1. compute.b # args.batch /\ compute.b \in 0 .. args.batch
    BY <1>1, StateFacts DEF FusedIInv, ComputePlace
  <2>2. compute.k = args.numBlocks
    BY <1>1 DEF FusedIInv, ComputePlace, InBiasLoop
  <2>3. /\ args.batch \in Nat \ {0} /\ args.numBlocks \in Nat \ {0}
        /\ BlockStrips \in Nat \ {0} /\ args.drained \in BOOLEAN
        /\ rw.b \in 0 .. args.batch /\ rw.k \in 0 .. args.numBlocks
        /\ rw.stored \in Nat
    BY StateFacts, Variant
  <2>4. compute.b \in 0 .. args.batch - 1 /\ rw.b \in Nat
    BY <2>1, <2>3
  <2> QED
    BY <1>1, <2>2, <2>3, <2>4, SameVariant
<1>5. pc \in {"batch", "done"} /\ (pc = "done" <=> compute.b + 1 = args.batch)
  BY <1>4
<1> HIDE DEF pc
<1>6. compute' \in ComputeStates
  <2>1. compute.b + 1 \in 0 .. args.batch /\ pc \in Places
    BY <1>4, <1>5 DEF Places
  <2> QED
    BY <1>2, <2>1, StateFacts DEF ComputeStates, Rows
<1>7. packer' \in [relu : BOOLEAN, acc : BOOLEAN]
  BY <1>1, StateFacts
<1>8. FusedTypeOK'
  BY <1>1, <1>6, <1>7, StateFacts, TypesLater
<1>9. ComputePlace' /\ ReloadPlace'
  BY <1>1, <1>3, <1>5 DEF ComputePlace, ReloadPlace, InSubblock
<1>10. PartialsPlace'
  BY <1>1, <1>3, <1>5 DEF FusedIInv, PartialsPlace, AfterReload
<1>11. Consumed' = Consumed /\ Consumed = compute.b * args.numBlocks
                                           + args.numBlocks
  <2>1. /\ BlockOf = args.numBlocks /\ BlockOf' = 0
    BY <1>1, <1>3, <1>4, <1>5 DEF BlockOf
  <2>2. /\ (compute.b + 1) * args.numBlocks
             = compute.b * args.numBlocks + args.numBlocks
        /\ compute.b * args.numBlocks \in Nat
    <3>1. /\ args.batch \in Nat /\ args.numBlocks \in Nat \ {0}
          /\ compute.b \in 0 .. args.batch - 1
      BY <1>4
    <3> QED
      BY <3>1, Pieces
  <2> DEFINE p == compute.b * args.numBlocks
             q == (compute.b + 1) * args.numBlocks
  <2>3. Consumed = p + args.numBlocks /\ Consumed' = q + 0
    BY <1>1, <1>3, <2>1 DEF Consumed
  <2>4. q = p + args.numBlocks /\ p \in Nat
    BY <2>2
  <2> HIDE DEF p, q
  <2>5. Consumed' = Consumed
    BY <1>4, <2>3, <2>4
  <2> QED
    BY <2>3, <2>5 DEF p
<1>12. OperandsPlace'
  BY <1>1, <1>3, <1>5, <1>11 DEF FusedIInv, OperandsPlace, Fed, InSubblock
<1>13. (InStep \/ WriterBehind \/ WriterAhead)'
  <2>1. /\ Produced = BlockStrips /\ Produced' = 0
        /\ WriterAt' = WriterAt /\ ~WriterBehind
    BY <1>1, <1>3, <1>5
    DEF Produced, InSubblock, WriterAt, WriterBehind
  <2>2. CASE InStep
    <3>1. cb.out = Ring(BlockStrips, 0, rw.stored, BlockStrips)
      BY <1>4, <2>1, <2>2 DEF InStep, Ring
    <3>2. args.drained => rw.k = args.numBlocks
      <4> SUFFICES ASSUME args.drained PROVE rw.k = args.numBlocks
        OBVIOUS
      <4>1. rw.b = compute.b
        BY <2>2 DEF InStep, WriterAt
      <4>2. cb.in1.cnt = Fed - Consumed /\ cb.in1.cnt \in Nat
        BY StateFacts DEF FusedIInv, OperandsPlace, CB, NumBuffer
      <4> DEFINE p == compute.b * args.numBlocks
      <4>3. Fed = p + rw.k /\ Consumed = p + args.numBlocks /\ p \in Nat
        BY <1>4, <1>11, <4>1 DEF Fed
      <4> HIDE DEF p
      <4> QED
        BY <1>4, <4>2, <4>3
    <3>3. compute'.b = WriterAt' + 1
      BY <1>3, <2>1, <2>2 DEF InStep
    <3> QED
      BY <1>1, <1>3, <1>4, <1>5, <3>1, <3>2, <3>3 DEF WriterBehind
  <2>3. CASE WriterAhead
    <3>1. /\ compute'.b = WriterAt' /\ rw.stored = 0
          /\ cb.out = Ring(0, 0, 0, BlockStrips)
      BY <1>3, <1>4, <2>1, <2>3, RingRound DEF WriterAhead
    <3> QED
      BY <1>1, <1>4, <2>1, <3>1 DEF InStep
  <2> QED
    BY <2>1, <2>2, <2>3 DEF FusedIInv
<1> QED
  BY <1>1, <1>8, <1>9, <1>10, <1>12, <1>13, RWFrame, CBsFrame DEF FusedIInv
-------------------------------------------------------------------------------
(* The theorems *)

\* The invariant speaks of CB3 only in its types.
LEMMA BiasFrame ==
  ASSUME FusedIInv, biasRow' \in 0 .. 1,
         UNCHANGED <<args, in0, rw, compute, packer, cb, l1, dst, written>>
  PROVE  FusedIInv'
<1>1. UNCHANGED <<args, in0, rw, compute, packer, cb, l1, dst, written>>
  OBVIOUS
<1>2. FusedTypeOK'
  BY <1>1, StateFacts, TypesLater
<1>3. /\ ComputePlace' /\ ReloadPlace' /\ PartialsPlace'
      /\ Consumed' = Consumed /\ InBiasLoop' = InBiasLoop
  BY <1>1, ComputeFrame
<1>4. OperandsPlace'
  BY <1>1, <1>3 DEF FusedIInv, OperandsPlace, Fed
<1>5. (InStep \/ WriterBehind \/ WriterAhead)'
  BY <1>1, RelationFrame DEF WriterAt
<1> QED
  BY <1>1, <1>2, <1>3, <1>4, <1>5, RWFrame, CBsFrame DEF FusedIInv

LEMMA FeedBiasIInv ==
  ASSUME FusedIInv, FeedBias
  PROVE  FusedIInv'
  BY BiasFrame DEF FeedBias

LEMMA FusedStutterIInv ==
  ASSUME FusedIInv, UNCHANGED fusedVars
  PROVE  FusedIInv'
<1>1. biasRow \in 0 .. 1
  BY StateFacts
<1> QED
  BY <1>1, BiasFrame DEF fusedVars

LEMMA FusedNextIInv ==
  ASSUME FusedIInv, [FusedNext]_fusedVars
  PROVE  FusedIInv'
<1>1. CASE In0Feed \/ RWStep \/ FeedBias
  BY <1>1, In0FeedIInv, In1FeedIInv, StoreStripsIInv, FeedBiasIInv DEF RWStep
<1>2. CASE ComputeStep
  BY <1>2, StartBatchIInv, WaitOperandsIInv, ReloadIInv, MatmulBlockIInv,
     PackPartialIInv, PackFinalIInv, PushSubblockIInv, EndBlockIInv,
     AddBiasIInv, StartRowIInv, UntilizeRowIInv, EndBatchIInv DEF ComputeStep
<1>3. CASE FusedFinished \/ UNCHANGED fusedVars
  BY <1>3, FusedStutterIInv DEF FusedFinished
<1> QED
  BY <1>1, <1>2, <1>3 DEF FusedNext

\* The invariant, for every set of variants.
THEOREM FusedInvariant == FusedSpec => []FusedIInv
<1>1. FusedInit => FusedIInv
  BY FusedInitIInv
<1>2. FusedIInv /\ [FusedNext]_fusedVars => FusedIInv'
  BY FusedNextIInv
<1> QED
  BY <1>1, <1>2, PTL DEF FusedSpec

\* No CB of any variant over- or underflows, and no position leaves its buffer.
THEOREM FusedTypeCorrect == FusedSpec => []FusedTypeOK
<1>1. FusedIInv => FusedTypeOK
  BY DEF FusedIInv
<1> QED
  BY <1>1, FusedInvariant, PTL

\* A launch of any variant leaves no operand and no partial sum behind, and in
\* CB16 exactly the block that nobody drains.
THEOREM OnlyOutputLeft == FusedSpec => []LeavesOnlyOutput
<1>1. FusedIInv => LeavesOnlyOutput
  <2> SUFFICES ASSUME FusedIInv, FusedDone
               PROVE  /\ cb.in0.cnt = 0 /\ cb.in1.cnt = 0
                      /\ cb.part = EmptyCB
                      /\ cb.out.cnt = (IF args.drained THEN 0 ELSE BlockStrips)
                      /\ cb.out.wr = 0 /\ cb.out.rd = 0
    BY DEF LeavesOnlyOutput
  <2>1. /\ in0 = args.batch * args.numBlocks /\ rw.b = args.batch
        /\ compute.pc = "done"
    BY DEF FusedDone
  <2>2. /\ args.numBlocks \in Nat \ {0} /\ args.batch \in Nat \ {0}
        /\ BlockStrips \in Nat \ {0} /\ args.drained \in BOOLEAN
        /\ ~args.drained => args.batch = 1
    BY StateFacts, Variant
  <2>3. /\ compute.b = args.batch /\ cb.part = EmptyCB
        /\ rw.k = 0 /\ rw.stored = 0
    BY <2>1, <2>2 DEF FusedIInv, ComputePlace, PartialsPlace, RWPlace
  <2>4. cb.in0.cnt = 0 /\ cb.in1.cnt = 0
    <3> DEFINE p == args.batch * args.numBlocks
    <3>1. /\ Consumed = p + 0 /\ Fed = p + 0 /\ in0 = p /\ p \in Nat
      BY <2>1, <2>2, <2>3 DEF Consumed, Fed, BlockOf
    <3>2. cb.in0.cnt = in0 - Consumed /\ cb.in1.cnt = Fed - Consumed
      BY DEF FusedIInv, OperandsPlace
    <3> HIDE DEF p
    <3> QED
      BY <3>1, <3>2
  <2>5. Produced = 0
    BY <2>1 DEF Produced, InSubblock
  <2>6. CASE args.drained
    <3>1. cb.out = Ring(0, 0, 0, BlockStrips)
      BY <2>1, <2>2, <2>3, <2>5, <2>6
      DEF FusedIInv, InStep, WriterBehind, WriterAhead, WriterAt
    <3> QED
      BY <2>2, <2>3, <2>4, <2>6, <3>1, RingFields
  <2>7. CASE ~args.drained
    <3>1. cb.out = Ring(BlockStrips, 0, 0, BlockStrips)
      BY <2>1, <2>2, <2>3, <2>5, <2>7
      DEF FusedIInv, InStep, WriterBehind, WriterAhead, WriterAt
    <3> QED
      BY <2>2, <2>3, <2>4, <2>7, <3>1, RingFields
  <2> QED
    BY <2>6, <2>7
<1> QED
  BY <1>1, FusedInvariant, PTL
-------------------------------------------------------------------------------
(* Which strips are live *)

LEMMA RingLive ==
  ASSUME NEW size \in Nat \ {0}, NEW held \in {0, size},
         NEW given \in 0 .. size, NEW taken \in 0 .. size,
         held + given - taken \in 0 .. size,
         NEW i \in Live(Ring(held, given, taken, size), size)
  PROVE  /\ i \in 0 .. size - 1
         /\ held = 0 => taken <= i /\ i < given
         /\ held = size => taken <= i \/ i < given
<1> DEFINE rd == IF taken = size THEN 0 ELSE taken
           cnt == held + given - taken
<1>1. /\ i \in 0 .. size - 1
      /\ IF rd + cnt <= size THEN rd <= i /\ i < rd + cnt
                             ELSE rd <= i \/ i < rd + cnt - size
  BY RingFields DEF Live
<1>2. CASE held = 0
  BY <1>1, <1>2
<1>3. CASE held = size
  <2>1. CASE taken = size
    BY <1>1, <1>3, <2>1
  <2>2. CASE taken # size
    BY <1>1, <1>3, <2>2
  <2> QED
    BY <2>1, <2>2
<1> QED
  BY <1>2, <1>3

LEMMA EmptyLive ==
  ASSUME NEW size \in Nat
  PROVE  Live(EmptyCB, size) = {}
  BY DEF Live, EmptyCB

\* The outputs in CB16 are those produced, unless the compute kernel is still
\* to start on the next batch element.
LEMMA OutputLive ==
  ASSUME FusedIInv, ~WriterBehind, NEW i \in Live(cb.out, BlockStrips)
  PROVE  i \in 0 .. BlockStrips - 1 /\ i < Produced
<1>1. /\ BlockStrips \in Nat \ {0} /\ Produced \in 0 .. BlockStrips
      /\ rw.stored \in 0 .. BlockStrips
  BY StateFacts, Variant, ProducedRange
<1>2. ~WriterAhead
  BY <1>1, EmptyLive DEF WriterAhead
<1>3. cb.out = Ring(0, Produced, rw.stored, BlockStrips)
  BY <1>2 DEF FusedIInv, InStep
<1>4. 0 + Produced - rw.stored \in 0 .. BlockStrips
  <2>1. cb.out.cnt \in 0 .. BlockStrips
    BY StateFacts DEF CB
  <2> QED
    BY <1>3, <2>1, RingFields
<1> QED
  BY <1>1, <1>3, <1>4, RingLive

\* The sums in CB24, place by place.
LEMMA SumsLive ==
  ASSUME FusedIInv, NEW i \in Live(cb.part, BlockStrips)
  PROVE  /\ i \in 0 .. BlockStrips - 1
         /\ compute.pc \notin {"batch", "batchEnd", "done"}
         /\ compute.pc = "wait" => HasSums
         /\ compute.pc = "fold" => Target = "part"
         /\ compute.pc \in {"reload", "bias"} =>
              Offset <= i \/ i < IfTo("part", Offset)
         /\ compute.pc \in AfterReload /\ HasSums =>
              Offset + args.rows <= i \/ i < IfTo("part", Offset)
         /\ compute.pc \in AfterReload /\ ~HasSums =>
              i < IfTo("part", Offset)
         /\ compute.pc \in {"untilize", "row"} => compute.s * RowStrips <= i
<1>1. /\ BlockStrips \in Nat \ {0} /\ BlockStrips \in Nat
      /\ Offset \in Nat /\ args.rows \in Nat \ {0}
      /\ Offset + args.rows <= BlockStrips
      /\ compute.pc \in Places /\ i \in 0 .. BlockStrips - 1
  BY StateFacts, Variant, Offsets DEF Live
<1>2. compute.pc \notin {"batch", "batchEnd", "done"}
  BY <1>1, EmptyLive DEF FusedIInv, PartialsPlace
<1>3. ~(i < 0) /\ ~(BlockStrips <= i)
  BY <1>1
<1>4. ASSUME compute.pc = "wait" PROVE HasSums
  <2> SUFFICES ASSUME ~HasSums PROVE FALSE
    OBVIOUS
  <2>1. cb.part = EmptyCB
    BY <1>1, <1>4, RingRound DEF FusedIInv, PartialsPlace, IfSums
  <2> QED
    BY <1>1, <2>1, EmptyLive
<1>5. ASSUME compute.pc = "fold" PROVE Target = "part"
  BY <1>1, <1>5, FoldFacts, TargetFacts, EmptyLive
<1>6. ASSUME compute.pc \in {"reload", "bias"}
      PROVE  Offset <= i \/ i < IfTo("part", Offset)
  <2>1. cb.part = Ring(BlockStrips, IfTo("part", Offset), Offset, BlockStrips)
    BY <1>6 DEF FusedIInv, PartialsPlace
  <2>2. /\ IfTo("part", Offset) \in 0 .. BlockStrips
        /\ Offset \in 0 .. BlockStrips
        /\ BlockStrips + IfTo("part", Offset) - Offset \in 0 .. BlockStrips
    BY <1>1 DEF IfTo
  <2> QED
    BY <1>1, <2>1, <2>2, RingLive
<1>7. ASSUME compute.pc \in AfterReload
      PROVE  /\ HasSums =>
                  Offset + args.rows <= i \/ i < IfTo("part", Offset)
             /\ ~HasSums => i < IfTo("part", Offset)
  <2>1. cb.part = Ring(IfSums(BlockStrips), IfTo("part", Offset),
                       IfSums(Offset + args.rows), BlockStrips)
    BY <1>7 DEF FusedIInv, PartialsPlace
  <2>2. CASE HasSums
    <3>1. cb.part = Ring(BlockStrips, IfTo("part", Offset),
                         Offset + args.rows, BlockStrips)
      BY <2>1, <2>2 DEF IfSums
    <3>2. /\ IfTo("part", Offset) \in 0 .. BlockStrips
          /\ Offset + args.rows \in 0 .. BlockStrips
          /\ BlockStrips + IfTo("part", Offset) - (Offset + args.rows)
               \in 0 .. BlockStrips
      BY <1>1 DEF IfTo
    <3> QED
      BY <1>1, <2>2, <3>1, <3>2, RingLive
  <2>3. CASE ~HasSums
    <3>1. cb.part = Ring(0, IfTo("part", Offset), 0, BlockStrips)
      BY <2>1, <2>3 DEF IfSums
    <3>2. /\ IfTo("part", Offset) \in 0 .. BlockStrips
          /\ 0 \in 0 .. BlockStrips
          /\ 0 + IfTo("part", Offset) - 0 \in 0 .. BlockStrips
      BY <1>1 DEF IfTo
    <3> QED
      BY <1>1, <2>3, <3>1, <3>2, RingLive
  <2> QED
    BY <2>2, <2>3
<1>8. ASSUME compute.pc \in {"untilize", "row"}
      PROVE  compute.s * RowStrips <= i
  <2> DEFINE a == compute.s * RowStrips
  <2>1. a \in Nat /\ a + RowStrips <= BlockStrips /\ RowStrips \in Nat
    BY <1>8, RowOffsets, StateFacts, Variant
  <2>2. cb.part = Ring(BlockStrips, 0, a, BlockStrips)
    BY <1>8 DEF FusedIInv, PartialsPlace
  <2> HIDE DEF a
  <2>3. /\ a \in 0 .. BlockStrips /\ 0 \in 0 .. BlockStrips
        /\ BlockStrips + 0 - a \in 0 .. BlockStrips
    BY <1>1, <2>1
  <2>4. a <= i \/ i < 0
    BY <1>1, <2>2, <2>3, RingLive
  <2>5. a <= i
    BY <1>3, <2>4
  <2> QED
    BY <2>5 DEF a
<1> QED
  BY <1>1, <1>2, <1>4, <1>5, <1>6, <1>7, <1>8

\* While one kernel is ahead of the other, CB24 holds nothing.
LEMMA BehindMeansNoSums ==
  ASSUME FusedIInv, WriterBehind
  PROVE  Live(cb.part, BlockStrips) = {}
<1>1. SUFFICES ASSUME NEW i \in Live(cb.part, BlockStrips) PROVE FALSE
  OBVIOUS
<1>2. compute.pc = "wait" /\ HasSums /\ compute.k = 0
  BY SumsLive DEF WriterBehind
<1>3. /\ args.numBlocks \in Nat \ {0}
      /\ args.l1Acc /\ ~args.bias => args.numBlocks > 1
  BY StateFacts, Variant
<1>4. ~InBiasLoop /\ (LastOut => args.numBlocks = 1)
  BY <1>2, <1>3 DEF InBiasLoop, LastOut
<1>5. compute.reload = (IF args.l1Acc THEN ~args.bias /\ LastOut
                                      ELSE compute.k > 0)
  BY <1>2, <1>4 DEF FusedIInv, ReloadPlace
<1>6. ~compute.reload
  <2>1. CASE args.l1Acc
    <3>1. ~(~args.bias /\ LastOut)
      BY <1>3, <1>4, <2>1
    <3> QED
      BY <1>5, <2>1, <3>1
  <2>2. CASE ~args.l1Acc
    <3>1. compute.reload = (compute.k > 0)
      BY <1>5, <2>2
    <3>2. ~(compute.k > 0)
      BY <1>2
    <3> QED
      BY <3>1, <3>2
  <2> QED
    BY <2>1, <2>2
<1> QED
  BY <1>2, <1>4, <1>6 DEF HasSums

\* An output not yet stored is never where a sum is still to be read.
LEMMA OutputsApartFromSums ==
  ASSUME FusedIInv, PartMem = "out", NEW i \in Live(cb.out, BlockStrips)
  PROVE  i \notin StillToRead
<1> SUFFICES ASSUME i \in StillToRead PROVE FALSE
  OBVIOUS
<1>1. i \in Live(cb.part, BlockStrips)
  BY DEF StillToRead
<1>2. i \in 0 .. BlockStrips - 1 /\ i < Produced
  BY <1>1, BehindMeansNoSums, OutputLive
<1>3. /\ Offset \in Nat /\ args.rows \in Nat \ {0} /\ i \in Nat
      /\ compute.pc \in Places
  BY <1>2, StateFacts, Variant, Offsets
<1>4. CASE compute.pc \in InSubblock
  <2>1. i < IfTo("out", Offset)
    BY <1>2, <1>4 DEF Produced, InSubblock
  <2>2. Target = "out" /\ i < Offset /\ IfTo("part", Offset) = 0
    BY <1>3, <2>1 DEF IfTo
  <2>3. compute.pc \in {"reload", "bias"} \/ compute.pc \in AfterReload
    BY <1>4 DEF InSubblock, AfterReload
  <2>4. Offset <= i \/ Offset + args.rows <= i \/ i < 0
    BY <1>1, <2>2, <2>3, SumsLive
  <2> QED
    BY <1>3, <2>2, <2>4
<1>5. CASE compute.pc = "fold"
  <2>1. i < IfTo("out", BlockStrips) /\ Target = "part"
    BY <1>1, <1>2, <1>5, SumsLive DEF Produced
  <2> QED
    BY <1>3, <2>1 DEF IfTo
<1>6. CASE compute.pc = "untilize"
  <2> DEFINE a == compute.s * RowStrips
  <2>1. a <= i /\ i < a /\ a \in Nat
    BY <1>1, <1>2, <1>6, SumsLive, RowOffsets DEF Produced
  <2> HIDE DEF a
  <2> QED
    BY <1>3, <2>1
<1>7. CASE compute.pc = "row"
  <2> DEFINE a == compute.s * RowStrips
  <2>1. args.subW = 1
    <3>1. args.shared /\ args.untilize
      BY <1>7, StateFacts, Variant
      DEF PartMem, FusedIInv, ComputePlace
    <3> QED
      BY <3>1, StateFacts, Variant
  <2>2. /\ a <= i /\ a \in Nat /\ a + RowStrips <= BlockStrips
        /\ RowStrips \in Nat \ {0} /\ compute.h \in Nat
        /\ BlockStrips \in Nat
    BY <1>1, <1>7, SumsLive, RowOffsets, StateFacts, Variant
  <2>3. Produced = a + compute.h
    BY <1>7, <2>1, <2>2 DEF Produced
  <2>4. cb.part.rd = a
    <3>1. cb.part = Ring(BlockStrips, 0, a, BlockStrips)
      BY <1>7 DEF FusedIInv, PartialsPlace
    <3> HIDE DEF a
    <3>2. a # BlockStrips
      BY <2>2
    <3> QED
      BY <3>1, <3>2, RingFields
  <2> HIDE DEF a
  <2>5. i - a \in 0 .. compute.h - 1 /\ i = a + (i - a)
    BY <1>2, <1>3, <2>2, <2>3
  <2>6. StripOfRow(0, i - a) = i - a
    BY <1>3, <2>2, <2>5 DEF StripOfRow
  <2>7. 0 \in 0 .. args.subW - 1
    BY <2>1
  <2>8. i \in { cb.part.rd + StripOfRow(n, h) :
                  n \in 0 .. args.subW - 1, h \in 0 .. compute.h - 1 }
    BY <2>4, <2>5, <2>6, <2>7
  <2> QED
    BY <1>7, <2>8 DEF StillToRead
<1>8. CASE compute.pc \notin InSubblock \cup {"fold", "untilize", "row"}
  <2>1. compute.pc = "wait"
    BY <1>1, <1>3, <1>8, SumsLive DEF Places, InSubblock
  <2> QED
    BY <1>2, <1>3, <2>1 DEF Produced, InSubblock
<1> QED
  BY <1>4, <1>5, <1>6, <1>7, <1>8

\* Nor is a subblock packed over either.
LEMMA PackedApart ==
  ASSUME FusedIInv, compute.pc = "push", NEW h \in Rows
  PROVE  /\ cb[Target].wr + h \notin Live(cb.out, BlockStrips)
         /\ cb[Target].wr + h \notin StillToRead
<1>1. /\ BlockStrips \in Nat \ {0} /\ args.rows \in Nat \ {0}
      /\ Offset \in Nat /\ Offset + args.rows <= BlockStrips
      /\ h \in 0 .. args.rows - 1 /\ BlockStrips \in Nat
  BY StateFacts, Variant, Offsets DEF Rows
<1>2. Target \in {"out", "part"}
  BY TargetFacts
<1>3. /\ ~WriterBehind /\ ~WriterAhead /\ Produced = IfTo("out", Offset)
  BY DEF WriterBehind, WriterAhead, Produced, InSubblock
<1>4. cb[Target].wr = Offset
  <2>1. Offset # BlockStrips
    BY <1>1
  <2>2. CASE Target = "part"
    <3>1. cb.part = Ring(IfSums(BlockStrips), Offset,
                         IfSums(Offset + args.rows), BlockStrips)
      BY <2>2 DEF FusedIInv, PartialsPlace, AfterReload, IfTo
    <3> QED
      BY <2>1, <2>2, <3>1, RingFields
  <2>3. CASE Target = "out"
    <3>1. cb.out = Ring(0, Offset, rw.stored, BlockStrips)
      BY <1>3, <2>3 DEF FusedIInv, InStep, IfTo
    <3> QED
      BY <2>1, <2>3, <3>1, RingFields
  <2> QED
    BY <1>2, <2>2, <2>3
<1>5. ASSUME Offset + h \in Live(cb.out, BlockStrips) PROVE FALSE
  <2>1. Offset + h < IfTo("out", Offset)
    BY <1>3, <1>5, OutputLive
  <2> QED
    BY <1>1, <2>1 DEF IfTo
<1>6. ASSUME Offset + h \in StillToRead PROVE FALSE
  <2>1. Offset + h \in Live(cb.part, BlockStrips)
    BY <1>6 DEF StillToRead
  <2>2. \/ Offset + args.rows <= Offset + h
        \/ Offset + h < IfTo("part", Offset)
    BY <2>1, SumsLive DEF AfterReload
  <2> QED
    BY <1>1, <2>2 DEF IfTo
<1> QED
  BY <1>4, <1>5, <1>6

\* CB16 and CB24, in one memory or in two, never hold an output not yet stored
\* where a sum is still to be read, nor is a subblock packed over either.
THEOREM NothingLiveOverwritten == FusedSpec => []NoLiveStripOverwritten
<1>1. FusedIInv => NoLiveStripOverwritten
  <2> SUFFICES ASSUME FusedIInv PROVE NoLiveStripOverwritten
    OBVIOUS
  <2>1. PartMem = "out" => Live(cb.out, BlockStrips) \cap StillToRead = {}
    BY OutputsApartFromSums
  <2>2. compute.pc = "push" =>
          \A h \in Rows :
            /\ cb[Target].wr + h \notin Live(cb.out, BlockStrips)
            /\ cb[Target].wr + h \notin StillToRead
    BY PackedApart
  <2> QED
    BY <2>1, <2>2 DEF NoLiveStripOverwritten
<1> QED
  BY <1>1, FusedInvariant, PTL
-------------------------------------------------------------------------------
(* No kernel waits for ever *)

\* Whatever is packed, the CB it goes to has room for it.
LEMMA RoomToPack ==
  ASSUME FusedIInv, compute.pc = "pack"
  PROVE  /\ HasRoom(cb[Target], args.rows, BlockStrips)
         /\ Target = "part" => cb.out.cnt = 0
<1>1. /\ BlockStrips \in Nat \ {0} /\ args.rows \in Nat \ {0}
      /\ Offset \in Nat /\ Offset + args.rows <= BlockStrips
      /\ rw.stored \in Nat /\ cb.out.cnt \in Nat
  BY StateFacts, Variant, Offsets DEF CB
<1>2. cb.part = Ring(IfSums(BlockStrips), IfTo("part", Offset),
                     IfSums(Offset + args.rows), BlockStrips)
  BY DEF FusedIInv, PartialsPlace, AfterReload
<1>3. cb.out = Ring(0, IfTo("out", Offset), rw.stored, BlockStrips)
  <2>1. cb.out = Ring(0, Produced, rw.stored, BlockStrips)
    BY DEF FusedIInv, InStep, WriterBehind, WriterAhead
  <2> QED
    BY <2>1 DEF Produced, InSubblock
<1>4. /\ cb.part.cnt = IfSums(BlockStrips) + IfTo("part", Offset)
                         - IfSums(Offset + args.rows)
      /\ cb.out.cnt = 0 + IfTo("out", Offset) - rw.stored
  BY <1>2, <1>3, RingFields
<1>5. CASE Target = "part"
  <2>1. cb.part.cnt + args.rows <= BlockStrips
    BY <1>1, <1>4, <1>5 DEF IfSums, IfTo
  <2>2. cb.out.cnt = 0
    BY <1>1, <1>4, <1>5 DEF IfTo
  <2> QED
    BY <1>5, <2>1, <2>2 DEF HasRoom
<1>6. CASE Target = "out"
  <2>1. cb.out.cnt + args.rows <= BlockStrips
    BY <1>1, <1>4, <1>6 DEF IfTo
  <2> QED
    BY <1>6, <2>1 DEF HasRoom
<1> QED
  BY <1>5, <1>6, TargetFacts

\* In every variant CB24 holds what the kernel takes from it, and both CBs
\* have room for what it packs, so that it waits for operands only, and for
\* the bias while nobody has fed it.
LEMMA FusedWaitsForOperands ==
  ASSUME FusedIInv
  PROVE  ComputeWaits => compute.pc = "wait" \/ BiasMissing
<1>1. /\ BlockStrips \in Nat \ {0} /\ args.rows \in Nat \ {0}
      /\ Offset \in Nat /\ Offset + args.rows <= BlockStrips
      /\ args.numBlocks \in Nat \ {0} /\ compute.k \in 0 .. args.numBlocks
      /\ compute.toWait \in Nat
  BY StateFacts, Variant, Offsets
<1>2. ASSUME compute.pc \in {"reload", "bias"}
      PROVE  ComputeWaits => BiasMissing
  <2>1. cb.part = Ring(BlockStrips, IfTo("part", Offset), Offset, BlockStrips)
    BY <1>2 DEF FusedIInv, PartialsPlace
  <2>2. cb.part.cnt = BlockStrips + IfTo("part", Offset) - Offset
    BY <2>1, RingFields
  <2>3. ~(cb.part.cnt < args.rows)
    BY <1>1, <2>2 DEF IfTo
  <2> QED
    BY <1>2, <2>3 DEF ComputeWaits
<1>3. ASSUME compute.pc = "pack" PROVE ~ComputeWaits
  <2>1. HasRoom(cb[Target], args.rows, BlockStrips)
    BY <1>3, RoomToPack
  <2>2. ASSUME ~LastOut, ~InBiasLoop
        PROVE  OutputDrained /\ HasRoom(cb.part, args.rows, BlockStrips)
    <3>1. Target = "part" /\ cb.out.cnt = 0
      BY <1>3, <2>2, TargetFacts, RoomToPack
    <3>2. compute.k = 0 => compute.toWait <= args.rows + Offset
      BY <1>3 DEF FusedIInv, ReloadPlace
    <3>3. OutputDrained
      BY <1>1, <3>1, <3>2 DEF OutputDrained, HasRoom
    <3> QED
      BY <2>1, <3>1, <3>3
  <2> QED
    BY <1>3, <2>1, <2>2, Zenon DEF ComputeWaits, BiasMissing
<1>4. ASSUME compute.pc = "fold" PROVE ~ComputeWaits
  <2>1. ASSUME FoldsPartials PROVE ~(cb.part.cnt < BlockStrips)
    <3>1. args.bias \in BOOLEAN /\ compute.k < args.numBlocks
      BY <1>4, StateFacts, Variant, FoldFacts
    <3>2. ~InBiasLoop /\ (LastOut => FALSE)
      BY <1>1, <2>1, <3>1 DEF FoldsPartials, InBiasLoop, LastOut
    <3>3. cb.part = Ring(BlockStrips, 0, 0, BlockStrips)
      BY <1>4, <3>2, FoldFacts, TargetFacts
    <3>4. cb.part.cnt = BlockStrips + 0 - 0
      BY <3>3, RingFields
    <3> QED
      BY <1>1, <3>4
  <2> QED
    BY <1>4, <2>1 DEF ComputeWaits, BiasMissing
<1>5. ASSUME compute.pc = "untilize" PROVE ~ComputeWaits
  <2> DEFINE a == compute.s * RowStrips
  <2>1. a \in Nat /\ a + RowStrips <= BlockStrips /\ RowStrips \in Nat
    BY <1>5, StateFacts, Variant, RowOffsets
  <2>2. cb.part = Ring(BlockStrips, 0, a, BlockStrips)
    BY <1>5 DEF FusedIInv, PartialsPlace
  <2> HIDE DEF a
  <2>3. cb.part.cnt = BlockStrips + 0 - a
    BY <2>2, RingFields
  <2>4. ~(cb.part.cnt < RowStrips)
    BY <1>1, <2>1, <2>3
  <2> QED
    BY <1>5, <2>4 DEF ComputeWaits, BiasMissing
<1>6. ASSUME compute.pc = "row" PROVE ~ComputeWaits
  <2>1. /\ cb.out = Ring(0, Produced, rw.stored, BlockStrips)
        /\ Produced + args.subW <= BlockStrips /\ Produced \in Nat
    BY <1>6, RowPlace
  <2>2. cb.out.cnt = 0 + Produced - rw.stored
    BY <2>1, RingFields
  <2>3. args.subW \in Nat /\ rw.stored \in Nat
    BY StateFacts, Variant
  <2>4. HasRoom(cb.out, args.subW, BlockStrips)
    BY <1>1, <2>1, <2>2, <2>3 DEF HasRoom
  <2> QED
    BY <1>6, <2>4 DEF ComputeWaits, BiasMissing
<1> QED
  BY <1>2, <1>3, <1>4, <1>5, <1>6, Zenon DEF ComputeWaits, BiasMissing

\* The writer stores whole subblocks, so that what is left of a block it has
\* not finished is at least one.
StoredWhole == \E n \in Nat : rw.stored = n * args.rows

LEMMA StoredWholeNext ==
  ASSUME FusedIInv, StoredWhole, [FusedNext]_fusedVars
  PROVE  StoredWhole'
<1>1. args' = args /\ args.rows \in Nat
  <2>1. args' = args
    BY DEF FusedNext, In0Feed, RWStep, In1Feed, StoreStrips, ComputeStep,
           StartBatch, WaitOperands, Reload, MatmulBlock, PackPartial,
           PackFinal, PushSubblock, EndBlock, AddBias, StartRow, UntilizeRow,
           EndBatch, FeedBias, FusedFinished, fusedVars
  <2> QED
    BY <2>1, StateFacts, Variant
<1>2. PICK n \in Nat : rw.stored = n * args.rows
  BY DEF StoredWhole
<1>3. \/ rw'.stored = rw.stored \/ rw'.stored = rw.stored + args.rows
      \/ rw'.stored = 0
  <2>1. CASE StoreStrips
    <3>1. rw' = IF rw.stored + args.rows < BlockStrips
                THEN [rw EXCEPT !.stored = rw.stored + args.rows]
                ELSE [b |-> rw.b + 1, k |-> 0, stored |-> 0]
      BY <2>1 DEF StoreStrips
    <3> QED
      BY <3>1, RWIs
  <2>2. CASE In1Feed
    <3>1. rw' = IF rw.k + 1 = args.numBlocks /\ ~args.drained
                THEN [rw EXCEPT !.b = rw.b + 1, !.k = 0]
                ELSE [rw EXCEPT !.k = rw.k + 1]
      BY <2>2 DEF In1Feed
    <3> QED
      BY <3>1, RWIs
  <2>3. CASE ~RWStep
    <3>1. rw' = rw
      BY <2>3
      DEF FusedNext, In0Feed, ComputeStep,
          StartBatch, WaitOperands, Reload, MatmulBlock, PackPartial,
          PackFinal, PushSubblock, EndBlock, AddBias, StartRow, UntilizeRow,
          EndBatch, FeedBias, FusedFinished, fusedVars
    <3> QED
      BY <3>1
  <2> QED
    BY <2>1, <2>2, <2>3 DEF RWStep
<1>4. /\ (n + 1) * args.rows = n * args.rows + args.rows
      /\ 0 * args.rows = 0 /\ n + 1 \in Nat
  BY <1>1
<1>5. \E m \in Nat : rw'.stored = m * args.rows
  BY <1>2, <1>3, <1>4
<1> QED
  BY <1>1, <1>5 DEF StoredWhole

\* While the writer is an element behind, CB16 holds the subblock it waits for.
LEMMA FusedWriterCanStore ==
  ASSUME FusedIInv, StoredWhole, WriterBehind, args.drained
  PROVE  rw.b < args.batch /\ ~RWWaits
<1>1. /\ args.rows \in Nat \ {0} /\ NumSubblocks \in Nat \ {0}
      /\ BlockStrips = NumSubblocks * args.rows /\ args.batch \in Nat
      /\ compute.b \in 0 .. args.batch /\ rw.b \in Nat
      /\ rw.stored < BlockStrips /\ args.numBlocks \in Nat
  BY StateFacts, Variant
<1>2. /\ rw.k = args.numBlocks /\ compute.b = rw.b + 1
      /\ cb.out = Ring(BlockStrips, 0, rw.stored, BlockStrips)
  BY DEF WriterBehind, WriterAt
<1>3. cb.out.cnt = BlockStrips + 0 - rw.stored
  BY <1>2, RingFields
<1>4. PICK n \in Nat : rw.stored = n * args.rows
  BY DEF StoredWhole
<1>5. n < NumSubblocks
  <2> SUFFICES ASSUME n >= NumSubblocks PROVE FALSE
    BY <1>1
  <2>1. NumSubblocks * args.rows <= n * args.rows
    BY <1>1, MonotoneProduct
  <2>2. NumSubblocks * args.rows \in Nat /\ n * args.rows \in Nat
    BY <1>1
  <2> QED
    BY <1>1, <1>4, <2>1, <2>2
<1>6. n * args.rows + args.rows <= NumSubblocks * args.rows
  <2>1. n \in 0 .. NumSubblocks - 1
    BY <1>1, <1>5
  <2> QED
    BY <1>1, <2>1, Pieces
<1> DEFINE a == n * args.rows
           c == NumSubblocks * args.rows
<1>7. /\ a \in Nat /\ c \in Nat /\ a + args.rows <= c
      /\ cb.out.cnt = c + 0 - a
  BY <1>1, <1>3, <1>4, <1>6
<1> HIDE DEF a, c
<1>8. ~(cb.out.cnt < args.rows)
  BY <1>1, <1>7
<1> QED
  BY <1>1, <1>2, <1>8 DEF RWWaits

(* No order in which the kernels run leaves all those that have not        *)
(* returned waiting, in any variant: with and without a writer, however    *)
(* the sums are kept and whatever becomes of the output.  What they may    *)
(* wait for is the row of bias tiles, until it is fed.                     *)
THEOREM FusedNeverCircularWait == FusedSpec => []NoCircularWait
<1>1. FusedIInv /\ StoredWhole => NoCircularWait
  <2> SUFFICES ASSUME FusedIInv, StoredWhole,
                      ~(compute.pc # "done" /\ ~ComputeWaits), ~BiasMissing
               PROVE  \/ FusedDone
                      \/ in0 < args.batch * args.numBlocks /\ ~In0Waits
                      \/ rw.b < args.batch /\ ~RWWaits
    BY FusedWaitsForOperands DEF NoCircularWait
  <2> DEFINE n == args.numBlocks
             total == args.batch * n
  <2>1. /\ compute.pc \in {"wait", "done"}
        /\ compute.pc = "wait" => cb.in0.cnt < 1 \/ cb.in1.cnt < 1
    BY FusedWaitsForOperands DEF ComputeWaits, BiasMissing
  <2>2. /\ n \in Nat \ {0} /\ args.batch \in Nat \ {0} /\ total \in Nat
        /\ in0 \in 0 .. total /\ rw.b \in 0 .. args.batch /\ rw.k \in 0 .. n
        /\ compute.b \in 0 .. args.batch /\ compute.k \in 0 .. n
        /\ args.drained \in BOOLEAN
        /\ ~args.drained => args.batch = 1
    BY StateFacts, Variant
  <2>3. cb.in0.cnt \in Nat /\ cb.in1.cnt \in Nat
    BY StateFacts DEF CB
  <2>4. /\ cb.in0.cnt = in0 - Consumed
        /\ cb.in1.cnt = Fed - Consumed
        /\ compute.pc = "done" <=> compute.b = args.batch
        /\ compute.pc = "wait" => compute.k < n
        /\ rw.b = args.batch => rw.k = 0
        /\ ~args.drained => rw.k < n
    BY DEF FusedIInv, OperandsPlace, ComputePlace, RWPlace
  <2>5. ~WriterAhead
    BY <2>1 DEF WriterAhead
  <2>6. WriterBehind /\ args.drained => rw.b < args.batch /\ ~RWWaits
    BY FusedWriterCanStore
  <2>7. rw.k < n /\ cb.in1.cnt = 0 => ~RWWaits
    BY DEF RWWaits, HasRoom, NumBuffer
  <2>8. CASE compute.pc = "wait"
    <3> DEFINE p == compute.b * n
    <3>1. p \in Nat /\ p + n <= total
      <4>1. compute.b \in 0 .. args.batch - 1
        BY <2>2, <2>4, <2>8
      <4> QED
        BY <2>2, <4>1, Pieces
    <3>2. Consumed = p + compute.k
      BY <2>8 DEF Consumed, BlockOf
    <3>3. Fed = rw.b * n + rw.k
      BY DEF Fed
    <3>4. CASE cb.in0.cnt = 0
      <4> HIDE DEF p, total
      <4>1. in0 < total
        BY <2>2, <2>4, <2>8, <3>1, <3>2, <3>4
      <4>2. ~In0Waits
        BY <3>4 DEF In0Waits, HasRoom, NumBuffer
      <4> QED
        BY <4>1, <4>2 DEF total
    <3>5. CASE cb.in1.cnt = 0
      <4>1. rw.b < args.batch
        <5> SUFFICES ASSUME rw.b = args.batch PROVE FALSE
          BY <2>2
        <5>1. Fed = total + 0
          BY <2>4, <3>3
        <5> HIDE DEF p, total
        <5> QED
          BY <2>2, <2>4, <2>8, <3>1, <3>2, <3>5, <5>1
      <4>2. CASE rw.k < n
        BY <2>7, <3>5, <4>1, <4>2
      <4>3. CASE rw.k = n
        <5>1. args.drained
          BY <2>2, <2>4, <4>3
        <5>2. ~InStep
          <6> SUFFICES ASSUME InStep PROVE FALSE
            OBVIOUS
          <6>1. Fed = p + n
            BY <3>3, <4>3, <5>1 DEF InStep, WriterAt
          <6> HIDE DEF p
          <6> QED
            BY <2>2, <2>4, <2>8, <3>1, <3>2, <3>5, <6>1
        <5> QED
          BY <2>5, <2>6, <5>1, <5>2 DEF FusedIInv
      <4> QED
        BY <2>2, <4>2, <4>3
    <3> QED
      BY <2>1, <2>3, <2>8, <3>4, <3>5
  <2>9. CASE compute.pc = "done"
    <3>1. Consumed = total + 0 /\ compute.b = args.batch
      BY <2>4, <2>9 DEF Consumed, BlockOf
    <3>2. in0 = total
      <4> HIDE DEF total
      <4> QED
        BY <2>2, <2>3, <2>4, <3>1
    <3>3. InStep => rw.b = args.batch
      BY <2>2, <3>1 DEF InStep, WriterAt
    <3>4. ~args.drained => rw.b = args.batch
      <4> SUFFICES ASSUME ~args.drained, rw.b # args.batch PROVE FALSE
        OBVIOUS
      <4> HIDE DEF total
      <4>1. rw.b = 0 /\ args.batch = 1
        <5>1. args.batch = 1 /\ rw.b \in 0 .. args.batch
          BY <2>2
        <5> QED
          BY <5>1
      <4>2. Fed = 0 * n + rw.k /\ Consumed = 1 * n + 0
        BY <3>1, <4>1 DEF Fed, total
      <4>3. Fed = rw.k /\ Consumed = n
        BY <2>2, <4>2
      <4> QED
        BY <2>2, <2>3, <2>4, <4>3
    <3> QED
      BY <2>2, <2>5, <2>6, <2>9, <3>2, <3>3, <3>4 DEF FusedIInv, FusedDone
  <2> QED
    BY <2>1, <2>8, <2>9
<1>2. FusedInit => FusedIInv /\ StoredWhole
  <2> SUFFICES ASSUME FusedInit PROVE FusedIInv /\ StoredWhole
    OBVIOUS
  <2>1. FusedIInv
    BY FusedInitIInv
  <2>2. rw.stored = 0 /\ args.rows \in Nat
    BY <2>1, StateFacts, Variant DEF FusedInit
  <2>3. rw.stored = 0 * args.rows
    BY <2>2
  <2> QED
    BY <2>1, <2>3 DEF StoredWhole
<1>3. FusedIInv /\ StoredWhole /\ [FusedNext]_fusedVars
        => (FusedIInv /\ StoredWhole)'
  BY FusedNextIInv, StoredWholeNext
<1> QED
  BY <1>1, <1>2, <1>3, PTL DEF FusedSpec
-------------------------------------------------------------------------------
(* Every launch is finite *)

\* How far each kernel is along its loops; the reader of A counts its own.
RWLength == args.numBlocks + BlockStrips

RWSteps == rw.b * RWLength + (rw.k + rw.stored)

BlockLength == 5 * NumSubblocks + 2

RowLength == args.rows + 1

BatchLength ==
  args.numBlocks * BlockLength + BlockLength + args.subH * RowLength + 2

\* Steps of the compute kernel within a K block, the bias loop, or the rows of
\* an untilized output, which stand at the end of the last block.
ComputeInBlock ==
  IF compute.pc = "wait" THEN 0
  ELSE IF compute.pc = "fold" THEN 5 * NumSubblocks + 1
  ELSE IF compute.pc = "untilize" THEN BlockLength + compute.s * RowLength
  ELSE IF compute.pc = "row"
  THEN BlockLength + compute.s * RowLength + compute.h + 1
  ELSE IF compute.pc = "batchEnd" THEN BlockLength + args.subH * RowLength
  ELSE 5 * compute.s + (IF compute.pc \in {"reload", "bias"} THEN 1
                        ELSE IF compute.pc = "math" THEN 2
                        ELSE IF compute.pc = "pack" THEN 3 ELSE 4)

ComputeInBatch ==
  IF compute.pc \in {"batch", "done"} THEN 0
  ELSE compute.k * BlockLength + ComputeInBlock + 1

ComputeSteps == compute.b * BatchLength + ComputeInBatch

Steps == in0 + biasRow + RWSteps + ComputeSteps

MaxSteps ==
  args.batch * args.numBlocks + 1 + (args.batch + 1) * RWLength
    + (args.batch + 1) * BatchLength

LEMMA Lengths ==
  ASSUME args \in FusedPrograms
  PROVE  /\ RowLength \in Nat /\ RowLength = args.rows + 1
         /\ BlockLength \in Nat /\ BlockLength = 5 * NumSubblocks + 2
         /\ RWLength \in Nat /\ BatchLength \in Nat
         /\ args.numBlocks * BlockLength \in Nat
         /\ args.subH * RowLength \in Nat
<1>1. /\ args.numBlocks \in Nat /\ args.subH \in Nat /\ args.rows \in Nat
      /\ NumSubblocks \in Nat /\ BlockStrips \in Nat
  BY Variant
<1>2. RowLength \in Nat /\ BlockLength \in Nat /\ RWLength \in Nat
  BY <1>1 DEF RowLength, BlockLength, RWLength
<1>3. args.numBlocks * BlockLength \in Nat /\ args.subH * RowLength \in Nat
  BY <1>1, <1>2
<1> QED
  BY <1>2, <1>3 DEF RowLength, BlockLength, BatchLength

\* A length of n pieces, and of one more.
LEMMA NextPiece ==
  ASSUME NEW n \in Nat, NEW len \in Nat
  PROVE  n * len \in Nat /\ (n + 1) * len = n * len + len /\ 0 * len = 0
  OBVIOUS

LEMMA RowPieces ==
  ASSUME FusedIInv
  PROVE  /\ compute.s * RowLength \in Nat
         /\ (compute.s + 1) * RowLength = compute.s * RowLength + RowLength
         /\ compute.s < args.subH =>
              compute.s * RowLength + RowLength <= args.subH * RowLength
<1>1. /\ compute.s \in Nat /\ args.subH \in Nat /\ RowLength \in Nat
      /\ compute.s + 1 \in Nat
  BY StateFacts, Lengths, Variant
<1>2. /\ compute.s * RowLength \in Nat
      /\ (compute.s + 1) * RowLength = compute.s * RowLength + RowLength
  BY <1>1, NextPiece
<1>3. ASSUME compute.s < args.subH
      PROVE  (compute.s + 1) * RowLength <= args.subH * RowLength
  <2>1. compute.s + 1 <= args.subH
    BY <1>1, <1>3
  <2> QED
    BY <1>1, <2>1, MonotoneProduct
<1> QED
  BY <1>2, <1>3

\* Within a block, and within a batch element.
LEMMA InBlockRange ==
  ASSUME FusedIInv
  PROVE  /\ ComputeInBlock \in Nat
         /\ ComputeInBlock <= BlockLength + args.subH * RowLength
<1>1. /\ compute.s \in Nat /\ NumSubblocks \in Nat
      /\ compute.s + 1 <= NumSubblocks
      /\ compute.h \in Nat /\ args.rows \in Nat /\ compute.h + 1 <= args.rows
  BY StateFacts, Variant
<1>2. compute.pc \in {"untilize", "row"} => compute.s < args.subH
  BY DEF FusedIInv, ComputePlace
<1> DEFINE a == compute.s * RowLength
           c == args.subH * RowLength
<1>3. /\ a \in Nat /\ c \in Nat /\ RowLength = args.rows + 1
      /\ compute.pc \in {"untilize", "row"} => a + RowLength <= c
      /\ BlockLength = 5 * NumSubblocks + 2
  BY <1>2, RowPieces, Lengths, StateFacts
<1>4. ComputeInBlock =
        IF compute.pc = "wait" THEN 0
        ELSE IF compute.pc = "fold" THEN 5 * NumSubblocks + 1
        ELSE IF compute.pc = "untilize" THEN BlockLength + a
        ELSE IF compute.pc = "row" THEN BlockLength + a + compute.h + 1
        ELSE IF compute.pc = "batchEnd" THEN BlockLength + c
        ELSE 5 * compute.s + (IF compute.pc \in {"reload", "bias"} THEN 1
                              ELSE IF compute.pc = "math" THEN 2
                              ELSE IF compute.pc = "pack" THEN 3 ELSE 4)
  BY DEF ComputeInBlock
<1> HIDE DEF a, c
<1>5. ComputeInBlock \in Nat /\ ComputeInBlock <= BlockLength + c
  BY <1>1, <1>3, <1>4
<1> QED
  BY <1>5 DEF c

LEMMA InBatchRange ==
  ASSUME FusedIInv
  PROVE  ComputeInBatch \in Nat /\ ComputeInBatch < BatchLength
<1>1. /\ compute.k \in Nat /\ args.numBlocks \in Nat
      /\ compute.k <= args.numBlocks /\ BlockLength \in Nat
  BY StateFacts, Variant, Lengths
<1> DEFINE a == compute.k * BlockLength
           c == args.numBlocks * BlockLength
           d == args.subH * RowLength
<1>2. /\ a \in Nat /\ c \in Nat /\ a <= c /\ d \in Nat
      /\ BatchLength = c + BlockLength + d + 2
      /\ ComputeInBatch = IF compute.pc \in {"batch", "done"} THEN 0
                          ELSE a + ComputeInBlock + 1
      /\ ComputeInBlock \in Nat /\ ComputeInBlock <= BlockLength + d
  BY <1>1, StateFacts, Lengths, NextPiece, MonotoneProduct, InBlockRange
     DEF BatchLength, ComputeInBatch
<1> HIDE DEF a, c, d
<1> QED
  BY <1>1, <1>2

LEMMA StepsBounded ==
  ASSUME FusedIInv
  PROVE  /\ in0 \in Nat /\ RWSteps \in Nat /\ ComputeSteps \in Nat
         /\ Steps \in 0 .. MaxSteps
<1>1. /\ in0 \in 0 .. args.batch * args.numBlocks
      /\ rw.b \in Nat /\ rw.b <= args.batch /\ args.batch \in Nat
      /\ rw.k \in Nat /\ rw.stored \in Nat
      /\ rw.k + rw.stored <= RWLength /\ RWLength \in Nat
      /\ compute.b \in Nat /\ compute.b <= args.batch
      /\ ComputeInBatch \in Nat /\ ComputeInBatch <= BatchLength
      /\ BatchLength \in Nat /\ args.batch * args.numBlocks \in Nat
  <2>1. rw.k + rw.stored <= RWLength
    BY StateFacts, Variant DEF RWLength
  <2>2. args.batch * args.numBlocks \in Nat
    BY StateFacts, Variant, NextPiece
  <2> QED
    BY <2>1, <2>2, StateFacts, Variant, Lengths, InBatchRange
<1> DEFINE a == rw.b * RWLength
           c == args.batch * RWLength
           d == compute.b * BatchLength
           e == args.batch * BatchLength
           f == args.batch * args.numBlocks
<1>2. /\ a \in Nat /\ c \in Nat /\ a <= c
      /\ (args.batch + 1) * RWLength = c + RWLength
  BY <1>1, NextPiece, MonotoneProduct
<1>3. /\ d \in Nat /\ e \in Nat /\ d <= e
      /\ (args.batch + 1) * BatchLength = e + BatchLength
  BY <1>1, NextPiece, MonotoneProduct
<1>4. /\ RWSteps = a + (rw.k + rw.stored)
      /\ ComputeSteps = d + ComputeInBatch
      /\ Steps = in0 + biasRow + RWSteps + ComputeSteps
      /\ MaxSteps = f + 1 + (c + RWLength) + (e + BatchLength)
      /\ f \in Nat /\ in0 \in 0 .. f /\ biasRow \in 0 .. 1
  BY <1>1, <1>2, <1>3, StateFacts DEF RWSteps, ComputeSteps, Steps, MaxSteps
<1>5. /\ rw.k + rw.stored \in Nat /\ rw.k + rw.stored <= RWLength
      /\ ComputeInBatch \in Nat /\ ComputeInBatch <= BatchLength
      /\ RWLength \in Nat /\ BatchLength \in Nat
  BY <1>1
<1> HIDE DEF a, c, d, e, f
<1> QED
  BY <1>2, <1>3, <1>4, <1>5

\* A step moves its own kernel along and leaves the other two where they are.
LEMMA RWAdvances ==
  ASSUME FusedIInv, RWStep
  PROVE  /\ RWSteps' \in Nat /\ RWSteps' > RWSteps
         /\ UNCHANGED <<in0, biasRow, ComputeSteps>>
<1>1. UNCHANGED <<args, in0, biasRow, compute>>
  BY DEF RWStep, In1Feed, StoreStrips
<1>2. UNCHANGED <<in0, biasRow, ComputeSteps, RWLength>>
  BY <1>1 DEF ComputeSteps, ComputeInBatch, ComputeInBlock, BatchLength,
              BlockLength, RowLength, RWLength, NumSubblocks, BlockStrips,
              RowStrips
<1>3. /\ rw.b \in Nat /\ rw.k \in Nat /\ rw.stored \in Nat
      /\ rw.stored < BlockStrips /\ BlockStrips \in Nat
      /\ args.numBlocks \in Nat /\ args.rows \in Nat \ {0}
      /\ RWLength = args.numBlocks + BlockStrips /\ RWLength \in Nat
  BY StateFacts, Variant, Lengths DEF RWLength
<1> DEFINE a == rw.b * RWLength
<1>4. a \in Nat /\ (rw.b + 1) * RWLength = a + RWLength
  BY <1>3, NextPiece
<1>5. RWSteps = a + (rw.k + rw.stored)
  BY DEF RWSteps
<1>6. RWSteps' = rw'.b * RWLength + (rw'.k + rw'.stored)
  BY <1>2 DEF RWSteps
<1>7. \/ /\ rw'.b = rw.b /\ rw'.k = rw.k + 1 /\ rw'.stored = rw.stored
      \/ /\ rw'.b = rw.b /\ rw'.k = rw.k
         /\ rw'.stored = rw.stored + args.rows
      \/ /\ rw'.b = rw.b + 1 /\ rw'.k = 0 /\ rw'.stored \in Nat
         /\ rw'.stored >= 0 /\ rw.k + rw.stored < RWLength
  <2>1. CASE In1Feed
    <3>1. rw.k < args.numBlocks
      BY <2>1 DEF In1Feed
    <3>2. rw.k + rw.stored < RWLength
      BY <1>3, <3>1
    <3>3. \/ rw' = [rw EXCEPT !.b = rw.b + 1, !.k = 0]
          \/ rw' = [rw EXCEPT !.k = rw.k + 1]
      BY <2>1 DEF In1Feed
    <3>4. \/ rw' = [b |-> rw.b + 1, k |-> 0, stored |-> rw.stored]
          \/ rw' = [b |-> rw.b, k |-> rw.k + 1, stored |-> rw.stored]
      BY <3>3, RWIs
    <3> QED
      BY <1>3, <3>2, <3>4
  <2>2. CASE StoreStrips
    <3>1. rw.k = args.numBlocks
      BY <2>2 DEF StoreStrips
    <3>2. rw.k + rw.stored < RWLength
      BY <1>3, <3>1
    <3>3. \/ rw' = [rw EXCEPT !.stored = rw.stored + args.rows]
          \/ rw' = [b |-> rw.b + 1, k |-> 0, stored |-> 0]
      BY <2>2 DEF StoreStrips
    <3>4. \/ rw' = [b |-> rw.b, k |-> rw.k, stored |-> rw.stored + args.rows]
          \/ rw' = [b |-> rw.b + 1, k |-> 0, stored |-> 0]
      BY <3>3, RWIs
    <3> QED
      BY <1>3, <3>2, <3>4
  <2> QED
    BY <2>1, <2>2 DEF RWStep
<1>8. \/ RWSteps' = a + (rw.k + 1 + rw.stored)
      \/ RWSteps' = a + (rw.k + rw.stored + args.rows)
      \/ /\ RWSteps' = a + RWLength + rw'.stored /\ rw'.stored \in Nat
         /\ rw.k + rw.stored < RWLength
  <2>1. rw'.b = rw.b => rw'.b * RWLength = a
    OBVIOUS
  <2>2. rw'.b = rw.b + 1 => rw'.b * RWLength = a + RWLength
    BY <1>4
  <2> HIDE DEF a
  <2> QED
    BY <1>3, <1>4, <1>6, <1>7, <2>1, <2>2
<1> HIDE DEF a
<1>9. RWSteps' \in Nat /\ RWSteps' > RWSteps
  BY <1>3, <1>4, <1>5, <1>8
<1> QED
  BY <1>2, <1>9

\* What is later in a piece is later in the whole.
LEMMA LaterInPiece ==
  ASSUME NEW n \in Nat, NEW x \in Nat, NEW y \in Nat, y > x
  PROVE  n + y \in Nat /\ n + y > n + x
  OBVIOUS

\* A compute step that stays in its block only moves on within it.
LEMMA InBlockAdvances ==
  ASSUME FusedIInv, ComputeStep, ~StartBatch, ~EndBatch, ~EndBlock
  PROVE  /\ compute'.b = compute.b /\ compute'.k = compute.k
         /\ {compute.pc, compute'.pc} \cap {"batch", "done"} = {}
         /\ ComputeInBlock' \in Nat /\ ComputeInBlock' > ComputeInBlock
<1>1. args' = args
  BY DEF ComputeStep, WaitOperands, Reload, MatmulBlock, PackPartial,
         PackFinal, PushSubblock, AddBias, StartRow, UntilizeRow
<1>2. UNCHANGED <<BlockLength, RowLength, NumSubblocks>>
  BY <1>1 DEF BlockLength, RowLength, NumSubblocks
<1>3. /\ compute.s \in Nat /\ NumSubblocks \in Nat
      /\ compute.s + 1 <= NumSubblocks /\ compute.h \in Nat
      /\ BlockLength = 5 * NumSubblocks + 2 /\ RowLength = args.rows + 1
      /\ args.rows \in Nat /\ args.subH \in Nat /\ RowLength \in Nat
      /\ compute.h + 1 <= args.rows
  BY StateFacts, Variant, Lengths
<1> DEFINE a == compute.s * RowLength
           c == args.subH * RowLength
<1>4. /\ a \in Nat /\ c \in Nat /\ (compute.s + 1) * RowLength = a + RowLength
      /\ 0 * RowLength = 0
  BY <1>3, RowPieces, NextPiece
<1>5. ComputeInBlock =
        IF compute.pc = "wait" THEN 0
        ELSE IF compute.pc = "fold" THEN 5 * NumSubblocks + 1
        ELSE IF compute.pc = "untilize" THEN BlockLength + a
        ELSE IF compute.pc = "row" THEN BlockLength + a + compute.h + 1
        ELSE IF compute.pc = "batchEnd" THEN BlockLength + c
        ELSE 5 * compute.s + (IF compute.pc \in {"reload", "bias"} THEN 1
                              ELSE IF compute.pc = "math" THEN 2
                              ELSE IF compute.pc = "pack" THEN 3 ELSE 4)
  BY DEF ComputeInBlock
<1>6. ComputeInBlock' =
        IF compute'.pc = "wait" THEN 0
        ELSE IF compute'.pc = "fold" THEN 5 * NumSubblocks + 1
        ELSE IF compute'.pc = "untilize"
        THEN BlockLength + compute'.s * RowLength
        ELSE IF compute'.pc = "row"
        THEN BlockLength + compute'.s * RowLength + compute'.h + 1
        ELSE IF compute'.pc = "batchEnd" THEN BlockLength + c
        ELSE 5 * compute'.s + (IF compute'.pc \in {"reload", "bias"} THEN 1
                               ELSE IF compute'.pc = "math" THEN 2
                               ELSE IF compute'.pc = "pack" THEN 3 ELSE 4)
  BY <1>1, <1>2 DEF ComputeInBlock
<1>7. CASE WaitOperands
  <2>1. /\ compute.pc = "wait" /\ compute'.pc \in {"reload", "math"}
        /\ compute'.b = compute.b /\ compute'.k = compute.k
        /\ compute'.s = 0
    BY <1>7, ComputeIs DEF WaitOperands, SubblockStart
  <2> QED
    BY <1>5, <1>6, <2>1
<1>8. CASE Reload \/ AddBias \/ MatmulBlock \/ PackPartial \/ PackFinal
  <2>1. /\ compute'.b = compute.b /\ compute'.k = compute.k
        /\ compute'.s = compute.s
        /\ \/ compute.pc = "reload" /\ compute'.pc = "math"
           \/ compute.pc = "bias" /\ compute'.pc = "pack"
           \/ compute.pc = "math" /\ compute'.pc = "pack"
           \/ compute.pc = "pack" /\ compute'.pc = "push"
    <3>1. CASE Reload
      BY <3>1, ComputeIs DEF Reload
    <3>2. CASE AddBias
      BY <3>2, ComputeIs DEF AddBias
    <3>3. CASE MatmulBlock
      BY <3>3, ComputeIs DEF MatmulBlock
    <3>4. CASE PackPartial
      BY <3>4, ComputeIs DEF PackPartial
    <3>5. CASE PackFinal
      BY <3>5, ComputeIs DEF PackFinal
    <3> QED
      BY <1>8, <3>1, <3>2, <3>3, <3>4, <3>5
  <2> HIDE DEF a, c
  <2> QED
    BY <1>3, <1>5, <1>6, <2>1
<1>9. CASE PushSubblock
  <2>1. /\ compute.pc = "push"
        /\ compute'.b = compute.b /\ compute'.k = compute.k
        /\ \/ /\ compute'.s = compute.s + 1
              /\ compute'.pc \in {"bias", "reload", "math"}
           \/ /\ compute'.s = 0
              /\ compute'.pc \in {"untilize", "batchEnd", "fold"}
    <3>1. \/ /\ compute' = [compute EXCEPT !.s = compute.s + 1,
                              !.pc = IF InBiasLoop THEN "bias"
                                     ELSE SubblockStart(compute.reload)]
          \/ compute' = [compute EXCEPT !.s = 0,
                           !.pc = IF InBiasLoop THEN AfterBias ELSE "fold"]
      BY <1>9 DEF PushSubblock
    <3> DEFINE p == IF InBiasLoop THEN "bias" ELSE SubblockStart(compute.reload)
               q == IF InBiasLoop THEN AfterBias ELSE "fold"
    <3>2. /\ p \in {"bias", "reload", "math"}
          /\ q \in {"untilize", "batchEnd", "fold"}
      BY DEF SubblockStart, AfterBias
    <3>3. compute.pc = "push"
      BY <1>9 DEF PushSubblock
    <3> HIDE DEF p, q
    <3>4. \/ compute' = [compute EXCEPT !.s = compute.s + 1, !.pc = p]
          \/ compute' = [compute EXCEPT !.s = 0, !.pc = q]
      BY <3>1 DEF p, q
    <3> QED
      BY <3>2, <3>3, <3>4, ComputeIs
  <2>2. compute'.s = 0 => compute'.s * RowLength = 0
    BY <1>4
  <2> HIDE DEF a, c
  <2> QED
    BY <1>3, <1>4, <1>5, <1>6, <2>1, <2>2
<1>10. CASE StartRow
  <2>1. /\ compute.pc = "untilize" /\ compute'.pc = "row"
        /\ compute'.b = compute.b /\ compute'.k = compute.k
        /\ compute'.s = compute.s /\ compute'.h = 0
    BY <1>10, ComputeIs DEF StartRow
  <2>2. compute'.s * RowLength = a
    BY <2>1
  <2> HIDE DEF a, c
  <2> QED
    BY <1>3, <1>4, <1>5, <1>6, <2>1, <2>2
<1>11. CASE UntilizeRow
  <2>1. /\ compute.pc = "row"
        /\ compute'.b = compute.b /\ compute'.k = compute.k
        /\ \/ /\ compute'.pc = "row" /\ compute'.s = compute.s
              /\ compute'.h = compute.h + 1
           \/ /\ compute'.pc = "untilize" /\ compute'.s = compute.s + 1
              /\ compute.h + 1 = args.rows
           \/ /\ compute'.pc = "batchEnd" /\ compute.h + 1 = args.rows
              /\ ~(compute.s + 1 < args.subH)
    BY <1>11, ComputeIs DEF UntilizeRow
  <2>2. compute.s < args.subH
    BY <2>1 DEF FusedIInv, ComputePlace
  <2>3. a + RowLength <= c
    BY <2>2, RowPieces
  <2>4. /\ compute'.s = compute.s => compute'.s * RowLength = a
        /\ compute'.s = compute.s + 1 => compute'.s * RowLength = a + RowLength
    BY <1>4
  <2> HIDE DEF a, c
  <2> QED
    BY <1>3, <1>4, <1>5, <1>6, <2>1, <2>3, <2>4
<1> QED
  BY <1>7, <1>8, <1>9, <1>10, <1>11 DEF ComputeStep

LEMMA ComputeAdvances ==
  ASSUME FusedIInv, ComputeStep
  PROVE  /\ ComputeSteps' \in Nat /\ ComputeSteps' > ComputeSteps
         /\ UNCHANGED <<in0, biasRow, RWSteps>>
<1>1. UNCHANGED <<args, in0, biasRow, rw>>
  BY DEF ComputeStep, StartBatch, WaitOperands, Reload, MatmulBlock,
         PackPartial, PackFinal, PushSubblock, EndBlock, AddBias, StartRow,
         UntilizeRow, EndBatch
<1>2. UNCHANGED <<in0, biasRow, RWSteps, BlockLength, BatchLength, RowLength>>
  BY <1>1 DEF RWSteps, RWLength, BlockLength, BatchLength, RowLength,
              NumSubblocks, BlockStrips, RowStrips
<1>3. /\ compute.b \in Nat /\ compute.k \in Nat /\ compute.s \in Nat
      /\ BlockLength \in Nat /\ BatchLength \in Nat
      /\ BlockLength = 5 * NumSubblocks + 2 /\ NumSubblocks \in Nat
      /\ ComputeInBatch \in Nat /\ ComputeInBatch < BatchLength
      /\ RowLength \in Nat /\ args.subH * RowLength \in Nat
  BY StateFacts, Variant, Lengths, InBatchRange
<1> DEFINE a == compute.b * BatchLength
           c == compute.k * BlockLength
<1>4. /\ a \in Nat /\ (compute.b + 1) * BatchLength = a + BatchLength
      /\ c \in Nat /\ (compute.k + 1) * BlockLength = c + BlockLength
      /\ 0 * BlockLength = 0
  BY <1>3, NextPiece
<1>5. /\ ComputeSteps = a + ComputeInBatch
      /\ ComputeInBatch = IF compute.pc \in {"batch", "done"} THEN 0
                          ELSE c + ComputeInBlock + 1
  BY DEF ComputeSteps, ComputeInBatch
<1>6. /\ ComputeSteps' = compute'.b * BatchLength + ComputeInBatch'
      /\ ComputeInBatch' = IF compute'.pc \in {"batch", "done"} THEN 0
                           ELSE compute'.k * BlockLength + ComputeInBlock' + 1
  BY <1>2 DEF ComputeSteps, ComputeInBatch
<1>7. CASE StartBatch
  <2>1. /\ compute.pc = "batch" /\ compute'.pc = "wait"
        /\ compute'.b = compute.b /\ compute'.k = 0
    BY <1>7, ComputeIs DEF StartBatch
  <2>2. ComputeInBatch = 0 /\ ComputeInBatch' = 0 * BlockLength + 0 + 1
    BY <1>5, <1>6, <2>1 DEF ComputeInBlock
  <2>3. ComputeInBatch' = 1
    BY <1>4, <2>2
  <2>4. ComputeSteps' = a + 1 /\ ComputeSteps = a + 0
    BY <1>5, <1>6, <2>1, <2>2, <2>3
  <2> HIDE DEF a, c
  <2> QED
    BY <1>2, <1>4, <2>4
<1>8. CASE EndBatch
  <2>1. compute'.b = compute.b + 1 /\ compute'.pc \in {"batch", "done"}
    BY <1>8, ComputeIs DEF EndBatch
  <2>2. ComputeSteps' = (compute.b + 1) * BatchLength + 0
    BY <1>6, <2>1
  <2> DEFINE d == (compute.b + 1) * BatchLength
  <2>3. ComputeSteps' = d + 0 /\ d = a + BatchLength
    BY <1>4, <2>2
  <2> HIDE DEF a, c, d
  <2> QED
    BY <1>2, <1>3, <1>4, <1>5, <2>3
<1>9. CASE EndBlock
  <2>1. compute.pc = "fold"
    BY <1>9 DEF EndBlock
  <2>2. /\ compute'.b = compute.b /\ compute'.k = compute.k + 1
        /\ compute'.s = compute.s
        /\ compute'.pc \in {"wait", "bias", "untilize", "batchEnd"}
    BY <1>9, ComputeIs DEF EndBlock, AfterBias
  <2>3. ComputeInBlock' \in Nat
    <3>1. compute.s * RowLength \in Nat
      BY RowPieces
    <3>2. /\ compute'.pc = "wait" => ComputeInBlock' = 0
          /\ compute'.pc = "bias" => ComputeInBlock' = 5 * compute.s + 1
          /\ compute'.pc = "untilize" =>
               ComputeInBlock' = BlockLength + compute.s * RowLength
          /\ compute'.pc = "batchEnd" =>
               ComputeInBlock' = BlockLength + args.subH * RowLength
      BY <1>1, <1>2, <2>2 DEF ComputeInBlock
    <3> QED
      BY <1>3, <2>2, <3>1, <3>2
  <2>4. /\ ComputeInBatch = c + (5 * NumSubblocks + 1) + 1
        /\ ComputeInBatch' =
             (compute.k + 1) * BlockLength + ComputeInBlock' + 1
    BY <1>5, <1>6, <2>1, <2>2 DEF ComputeInBlock
  <2>5. ComputeSteps' = a + ComputeInBatch'
    BY <1>6, <2>2
  <2> DEFINE d == (compute.k + 1) * BlockLength
             e == ComputeInBlock'
  <2>6. /\ ComputeInBatch' = d + e + 1 /\ d = c + BlockLength /\ e \in Nat
    BY <1>4, <2>3, <2>4
  <2> HIDE DEF a, c, d, e
  <2>7. ComputeInBatch' \in Nat /\ ComputeInBatch' > ComputeInBatch
    BY <1>3, <1>4, <2>4, <2>6
  <2>8. ComputeSteps' \in Nat /\ ComputeSteps' > ComputeSteps
    BY <1>3, <1>4, <1>5, <2>5, <2>7, LaterInPiece
  <2> QED
    BY <1>2, <2>8
<1>10. CASE ~StartBatch /\ ~EndBatch /\ ~EndBlock
  <2>1. /\ compute'.b = compute.b /\ compute'.k = compute.k
        /\ {compute.pc, compute'.pc} \cap {"batch", "done"} = {}
        /\ ComputeInBlock' \in Nat /\ ComputeInBlock' > ComputeInBlock
    BY <1>10, InBlockAdvances
  <2>2. ComputeInBlock \in Nat
    BY InBlockRange
  <2>3. ComputeInBatch = c + ComputeInBlock + 1
    BY <1>5, <2>1
  <2>4. ComputeInBatch' = c + ComputeInBlock' + 1
    BY <1>6, <2>1
  <2>5. ComputeSteps' = a + ComputeInBatch'
    BY <1>6, <2>1
  <2> HIDE DEF a, c
  <2>6. /\ c + ComputeInBlock' \in Nat
        /\ c + ComputeInBlock' > c + ComputeInBlock
    BY <1>4, <2>1, <2>2, LaterInPiece
  <2>7. ComputeInBatch' \in Nat /\ ComputeInBatch' > ComputeInBatch
    BY <1>4, <2>2, <2>3, <2>4, <2>6
  <2>8. ComputeSteps' \in Nat /\ ComputeSteps' > ComputeSteps
    BY <1>3, <1>4, <1>5, <2>5, <2>7, LaterInPiece
  <2> QED
    BY <1>2, <2>8
<1> QED
  BY <1>7, <1>8, <1>9, <1>10

\* As in MatmulCore: in every variant each step of a kernel brings the launch
\* nearer to an end that is a known number of steps away, and before which, by
\* NoCircularWait, the kernels never all wait.
THEOREM FusedLaunchIsFinite ==
  FusedSpec => [](Steps \in 0 .. MaxSteps) /\ [][Steps' > Steps]_fusedVars
<1>1. ASSUME FusedIInv
      PROVE  Steps \in 0 .. MaxSteps
  BY <1>1, StepsBounded
<1>2. ASSUME FusedIInv, [FusedNext]_fusedVars
      PROVE  [Steps' > Steps]_fusedVars
  <2>1. /\ in0 \in Nat /\ RWSteps \in Nat /\ ComputeSteps \in Nat
        /\ biasRow \in 0 .. 1
    BY <1>2, StepsBounded, StateFacts
  <2>2. CASE In0Feed \/ FeedBias
    <3>1. /\ UNCHANGED <<args, rw, compute>>
          /\ \/ in0' = in0 + 1 /\ biasRow' = biasRow
             \/ in0' = in0 /\ biasRow' = biasRow + 1
      BY <2>2 DEF In0Feed, FeedBias
    <3>2. UNCHANGED <<RWSteps, ComputeSteps>>
      BY <3>1 DEF RWSteps, RWLength, ComputeSteps, ComputeInBatch,
                  ComputeInBlock, BatchLength, BlockLength, RowLength,
                  NumSubblocks, BlockStrips, RowStrips
    <3>3. Steps' > Steps
      BY <2>1, <3>1, <3>2 DEF Steps
    <3> QED
      BY <3>3
  <2>3. CASE RWStep
    BY <1>2, <2>1, <2>3, RWAdvances DEF Steps
  <2>4. CASE ComputeStep
    BY <1>2, <2>1, <2>4, ComputeAdvances DEF Steps
  <2>5. CASE UNCHANGED fusedVars
    BY <2>5
  <2> QED
    BY <1>2, <2>2, <2>3, <2>4, <2>5 DEF FusedNext, FusedFinished
<1> QED
  BY <1>1, <1>2, FusedInvariant, PTL DEF FusedSpec
-------------------------------------------------------------------------------
(* What the strips hold *)

\* The products of the first n K blocks.
Sum(b, n, p) == [j \in 1 .. n |-> Mul(b, j - 1, p)]

Strips == 0 .. BlockStrips - 1

\* A strip once the loop over subblocks has packed it.
NextSum(p) ==
  IF InBiasLoop \/ (LastOut /\ ~args.bias) THEN FinalValue(compute.b, p)
  ELSE Sum(compute.b, compute.k + 1, p)

\* The strips the loop over subblocks has packed.
Passed ==
  IF compute.pc = "wait" THEN 0
  ELSE IF compute.pc = "fold" THEN BlockStrips
  ELSE IF compute.pc = "push" THEN Offset + args.rows
  ELSE Offset

\* Strip p before and after the loop passes it: in memory that may be shared.
SumAt(p) ==
  /\ p >= Passed /\ compute.k > 0 =>
       l1[PartMem][p] = Sum(compute.b, compute.k, p)
  /\ p < Passed => l1[MemoryOf(Target)][p] = NextSum(p)

SumsPlace ==
  /\ compute.pc \in {"wait", "fold"} \cup InSubblock =>
       \A p \in Strips : SumAt(p)
  /\ compute.pc \in {"untilize", "row"} =>
       \A p \in Strips : l1[PartMem][p] = FinalValue(compute.b, p)

\* The packer applies ReLU from the last pass over the strips on, and is never
\* left doing so for the next batch element.
PackerPlace ==
  /\ compute.pc = "batch" /\ args.batch = 1 => ~packer.relu
  /\ compute.pc = "wait" => ~packer.relu
  /\ compute.pc \in {"fold"} \cup InSubblock /\ ~InBiasLoop =>
       packer.relu = (args.act = "relu" /\ ~args.bias /\ LastOut)
  /\ compute.pc = "bias" => (packer.relu => args.act = "relu")
  /\ compute.pc \in AfterReload /\ InBiasLoop =>
       packer.relu = (args.act = "relu")
  /\ compute.pc = "row" => ~packer.relu /\ ~packer.acc

\* What the math of K block k starts from.
Reloaded(p) ==
  IF compute.reload THEN Sum(compute.b, compute.k, p) ELSE <<>>

\* What the math leaves in DST, but for an activation by the SFPU.
Computed(p) ==
  IF InBiasLoop
  THEN Append(Sum(compute.b, args.numBlocks, p), Bias(compute.b, p))
  ELSE Append(Reloaded(p), Mul(compute.b, compute.k, p))

BySfpu == args.act = "sfpu" /\ (InBiasLoop \/ (LastOut /\ ~args.bias))

DstPlace ==
  /\ compute.pc = "math" =>
       \A h \in Rows : dst[h] = Reloaded(Offset + h)
  /\ compute.pc = "pack" =>
       \A h \in Rows :
         dst[h] = IF BySfpu THEN Activated(Computed(Offset + h))
                            ELSE Computed(Offset + h)

\* CB16's memory: the rows untilized so far, and the batch element before.
OutputsPlace ==
  /\ compute.pc \in {"untilize", "row", "batchEnd"} =>
       \A j \in Strips :
         j < Produced => l1["out"][j] = FinalValue(compute.b, StripAt(j))
  /\ compute.b = WriterAt + 1 =>
       \A j \in Strips : l1["out"][j] = FinalValue(compute.b - 1, StripAt(j))

Stored(b, i) == args.drained /\ (b < rw.b \/ (b = rw.b /\ i < rw.stored))

WrittenPlace ==
  written = [b \in 0 .. args.batch - 1 |->
               [i \in Strips |-> IF Stored(b, i)
                                 THEN FinalValue(b, StripAt(i))
                                 ELSE NotWritten]]

ValuesInv == SumsPlace /\ PackerPlace /\ DstPlace /\ OutputsPlace

FusedDataInv == FusedIInv /\ ValuesInv /\ WrittenPlace

\* What has been handed over of batch element b.
Handed(b, i) == IF args.drained THEN Stored(b, i) ELSE i < cb.out.cnt

AvailableIs ==
  Available = [b \in 0 .. args.batch - 1 |->
                 [i \in Strips |-> IF Handed(b, i) THEN Wanted[b][i]
                                                   ELSE NotWritten]]
-------------------------------------------------------------------------------
(* Sums and final values *)

LEMMA SumFacts ==
  ASSUME NEW b \in Nat, NEW p \in Nat, NEW n \in Nat
  PROVE  /\ Sum(b, 0, p) = <<>>
         /\ Sum(b, n, p) \in Value
         /\ Append(Sum(b, n, p), Mul(b, n, p)) = Sum(b, n + 1, p)
         /\ Sum(b, n, p) \o Append(<<>>, Mul(b, n, p)) = Sum(b, n + 1, p)
<1> DEFINE Entry == [op : {"mul", "bias", "act"}, b : Nat, k : Nat,
                     strip : Nat]
<1>1. \A j \in Nat : Mul(b, j, p) \in Entry
  BY DEF Mul
<1>2. Value = Seq(Entry)
  BY DEF Value
<1> HIDE DEF Entry
<1>3. \A m \in Nat : Sum(b, m, p) \in Seq(Entry) /\ Len(Sum(b, m, p)) = m
  <2> SUFFICES ASSUME NEW m \in Nat
               PROVE  Sum(b, m, p) \in Seq(Entry) /\ Len(Sum(b, m, p)) = m
    OBVIOUS
  <2>1. Sum(b, m, p) \in [1 .. m -> Entry]
    BY <1>1 DEF Sum
  <2> QED
    BY <2>1
<1>4. Sum(b, 0, p) = <<>>
  BY <1>3
<1>5. Append(Sum(b, n, p), Mul(b, n, p)) = Sum(b, n + 1, p)
  <2> DEFINE a == Append(Sum(b, n, p), Mul(b, n, p))
             c == Sum(b, n + 1, p)
  <2>1. a \in Seq(Entry) /\ Len(a) = n + 1
    BY <1>1, <1>3
  <2>2. c \in Seq(Entry) /\ Len(c) = n + 1
    BY <1>3
  <2>3. \A j \in 1 .. n + 1 : a[j] = c[j]
    <3> SUFFICES ASSUME NEW j \in 1 .. n + 1 PROVE a[j] = c[j]
      OBVIOUS
    <3>1. c[j] = Mul(b, j - 1, p)
      BY DEF Sum
    <3>2. CASE j = n + 1
      BY <1>3, <3>1, <3>2
    <3>3. CASE j \in 1 .. n
      <4>1. a[j] = Sum(b, n, p)[j]
        BY <1>1, <1>3, <3>3
      <4>2. Sum(b, n, p)[j] = Mul(b, j - 1, p)
        BY <3>3 DEF Sum
      <4> QED
        BY <3>1, <4>1, <4>2
    <3>4. j = n + 1 \/ j \in 1 .. n
      OBVIOUS
    <3> QED
      BY <3>2, <3>3, <3>4
  <2> HIDE DEF a, c
  <2>4. a \in [1 .. n + 1 -> Entry] /\ c \in [1 .. n + 1 -> Entry]
    BY <2>1, <2>2
  <2>5. a = c
    BY <2>3, <2>4
  <2> QED
    BY <2>5 DEF a, c
<1>6. Sum(b, n, p) \o Append(<<>>, Mul(b, n, p))
        = Append(Sum(b, n, p), Mul(b, n, p))
  <2>1. Sum(b, n, p) \in Seq(Entry) /\ Mul(b, n, p) \in Entry
    BY <1>1, <1>3
  <2> QED
    BY <2>1
<1> QED
  BY <1>2, <1>3, <1>4, <1>5, <1>6

\* What the value of a strip in the output is made of.
LEMMA FinalIs ==
  ASSUME NEW b, NEW p
  PROVE  /\ args.bias =>
              FinalValue(b, p) =
                IF args.act = "none"
                THEN Append(Sum(b, args.numBlocks, p), Bias(b, p))
                ELSE Activated(Append(Sum(b, args.numBlocks, p), Bias(b, p)))
         /\ ~args.bias =>
              FinalValue(b, p) =
                IF args.act = "none" THEN Sum(b, args.numBlocks, p)
                ELSE Activated(Sum(b, args.numBlocks, p))
  BY DEF FinalValue, Sum

LEMMA FinalTyped ==
  ASSUME args \in FusedPrograms, NEW b \in Nat, NEW p \in Nat
  PROVE  FinalValue(b, p) \in Value
<1>1. args.numBlocks \in Nat /\ args.bias \in BOOLEAN
  BY Variant
<1>2. Sum(b, args.numBlocks, p) \in Value
  BY <1>1, SumFacts
<1>3. Append(Sum(b, args.numBlocks, p), Bias(b, p)) \in Value
  BY <1>2, ValueAppend
<1>4. /\ Activated(Sum(b, args.numBlocks, p)) \in Value
      /\ Activated(Append(Sum(b, args.numBlocks, p), Bias(b, p))) \in Value
  BY <1>2, <1>3, ValueAppend
<1> QED
  BY <1>1, <1>2, <1>3, <1>4, FinalIs

LEMMA ValuesFrame ==
  ASSUME args' = args, NEW b, NEW p
  PROVE  /\ FinalValue(b, p)' = FinalValue(b, p)
         /\ StripAt(p)' = StripAt(p)
  BY DEF FinalValue, StripAt
-------------------------------------------------------------------------------
(* What leaves the values alone *)

LEMMA SumFrame ==
  ASSUME args' = args, compute'.b = compute.b, compute'.k = compute.k,
         compute'.s = compute.s, compute'.reload = compute.reload, NEW p
  PROVE  /\ NextSum(p)' = NextSum(p)
         /\ Sum(compute.b, compute.k, p)' = Sum(compute.b, compute.k, p)
         /\ Reloaded(p)' = Reloaded(p) /\ Computed(p)' = Computed(p)
         /\ BySfpu' = BySfpu /\ Offset' = Offset
         /\ PartMem' = PartMem /\ MemoryOf(Target)' = MemoryOf(Target)
         /\ Strips' = Strips /\ Rows' = Rows
         /\ InBiasLoop' = InBiasLoop /\ LastOut' = LastOut
<1>1. /\ LastOut' = LastOut /\ InBiasLoop' = InBiasLoop /\ Target' = Target
      /\ BlockStrips' = BlockStrips /\ PartMem' = PartMem /\ Rows' = Rows
  BY SameBlock, SameVariant
<1>2. FinalValue(compute.b, p)' = FinalValue(compute.b, p)
  BY DEF FinalValue
<1>3. /\ Sum(compute.b, compute.k, p)' = Sum(compute.b, compute.k, p)
      /\ Sum(compute.b, compute.k + 1, p)' = Sum(compute.b, compute.k + 1, p)
      /\ Sum(compute.b, args.numBlocks, p)' = Sum(compute.b, args.numBlocks, p)
  BY DEF Sum
<1>4. Reloaded(p)' = Reloaded(p)
  BY <1>3 DEF Reloaded
<1> QED
  BY <1>1, <1>2, <1>3, <1>4
  DEF NextSum, Computed, BySfpu, Offset, MemoryOf, Strips, Bias, Mul

\* Where only other kernels move.
LEMMA ValuesStay ==
  ASSUME SumsPlace, PackerPlace, DstPlace,
         UNCHANGED <<args, compute, packer, l1, dst>>
  PROVE  SumsPlace' /\ PackerPlace' /\ DstPlace'
<1>1. \A p : /\ NextSum(p)' = NextSum(p)
             /\ Sum(compute.b, compute.k, p)' = Sum(compute.b, compute.k, p)
             /\ Reloaded(p)' = Reloaded(p) /\ Computed(p)' = Computed(p)
             /\ BySfpu' = BySfpu /\ Offset' = Offset
             /\ PartMem' = PartMem /\ MemoryOf(Target)' = MemoryOf(Target)
             /\ Strips' = Strips /\ Rows' = Rows
             /\ InBiasLoop' = InBiasLoop /\ LastOut' = LastOut
             /\ FinalValue(compute.b, p)' = FinalValue(compute.b, p)
  BY SumFrame DEF FinalValue
<1>2. Passed' = Passed
  BY <1>1, SameVariant DEF Passed
<1>3. \A p : SumAt(p) => SumAt(p)'
  BY <1>1, <1>2 DEF SumAt
<1>4. SumsPlace'
  BY <1>1, <1>3 DEF SumsPlace
<1>5. PackerPlace'
  BY <1>1 DEF PackerPlace
<1>6. DstPlace'
  BY <1>1 DEF DstPlace
<1> QED
  BY <1>4, <1>5, <1>6

\* In a loop over subblocks the block before has been stored.
LEMMA LoopMeansStored ==
  ASSUME FusedIInv,
         compute.pc \in {"fold", "untilize", "row", "batchEnd"} \cup InSubblock
  PROVE  compute.b # WriterAt + 1
<1>1. compute.b \in Nat /\ WriterAt \in Nat
  BY StateFacts, Variant DEF WriterAt
<1> QED
  BY <1>1
  DEF FusedIInv, InStep, WriterBehind, WriterAhead, InSubblock

LEMMA OutputsStay ==
  ASSUME OutputsPlace, args' = args, l1'["out"] = l1["out"],
         compute'.b = compute.b, WriterAt' = WriterAt,
         compute'.pc \in {"untilize", "row", "batchEnd"} =>
           /\ compute.pc \in {"untilize", "row", "batchEnd"}
           /\ Produced' = Produced
  PROVE  OutputsPlace'
<1>1. /\ Strips' = Strips
      /\ \A j : FinalValue(compute.b, StripAt(j))'
                  = FinalValue(compute.b, StripAt(j))
      /\ \A j : FinalValue(compute.b - 1, StripAt(j))'
                  = FinalValue(compute.b - 1, StripAt(j))
  BY SameVariant DEF Strips, FinalValue, StripAt
<1> QED
  BY <1>1 DEF OutputsPlace

LEMMA InLoopOutputs ==
  ASSUME FusedIInv, UNCHANGED <<args, rw>>, compute'.b = compute.b,
         compute.pc \in {"fold", "untilize", "row", "batchEnd"} \cup InSubblock,
         compute'.pc \notin {"untilize", "row", "batchEnd"}
  PROVE  OutputsPlace'
<1>1. compute'.b # WriterAt' + 1
  BY LoopMeansStored DEF WriterAt
<1> QED
  BY <1>1 DEF OutputsPlace

LEMMA WrittenStays ==
  ASSUME WrittenPlace, UNCHANGED <<args, written>>,
         args.drained => rw'.b = rw.b /\ rw'.stored = rw.stored
  PROVE  WrittenPlace'
<1>1. Strips' = Strips
  BY SameVariant DEF Strips
<1>2. \A b, i : /\ Stored(b, i)' = Stored(b, i)
                /\ FinalValue(b, StripAt(i))' = FinalValue(b, StripAt(i))
  BY DEF Stored, FinalValue, StripAt
<1> QED
  BY <1>1, <1>2 DEF WrittenPlace
-------------------------------------------------------------------------------
(* The steps of the other kernels *)

LEMMA InitValues == FusedInit => ValuesInv /\ WrittenPlace
<1> SUFFICES ASSUME FusedInit PROVE ValuesInv /\ WrittenPlace
  OBVIOUS
<1>1. /\ compute.pc = "batch" /\ compute.b = 0 /\ rw.b = 0 /\ rw.stored = 0
      /\ ~packer.relu
  BY DEF FusedInit
<1>2. SumsPlace /\ PackerPlace /\ DstPlace
  BY <1>1 DEF SumsPlace, PackerPlace, DstPlace, InSubblock, AfterReload
<1>3. OutputsPlace
  BY <1>1 DEF OutputsPlace, WriterAt
<1>4. WrittenPlace
  <2>1. args \in FusedPrograms
    BY DEF FusedInit
  <2>2. BlockStrips \in Nat /\ args.batch \in Nat
    BY <2>1, Variant
  <2>3. \A b \in 0 .. args.batch - 1, i \in Strips : ~Stored(b, i)
    BY <1>1, <2>2 DEF Stored, Strips
  <2>4. written = [b \in 0 .. args.batch - 1 |->
                     [i \in Strips |-> NotWritten]]
    BY DEF FusedInit, Strips
  <2> QED
    BY <2>3, <2>4 DEF WrittenPlace
<1> QED
  BY <1>2, <1>3, <1>4 DEF ValuesInv

LEMMA ProducedStays ==
  ASSUME UNCHANGED <<args, compute>>
  PROVE  Produced' = Produced
  BY SameBlock, SameVariant DEF Produced, Offset, IfTo

LEMMA FeedValues ==
  ASSUME FusedDataInv, In0Feed \/ In1Feed
  PROVE  ValuesInv' /\ WrittenPlace'
<1>1. /\ UNCHANGED <<args, compute, packer, l1, dst, written>>
      /\ args.drained => rw'.b = rw.b /\ rw'.stored = rw.stored
  <2>1. rw = [b |-> rw.b, k |-> rw.k, stored |-> rw.stored]
    BY RWIs DEF FusedDataInv
  <2>2. CASE In0Feed
    BY <2>2 DEF In0Feed
  <2>3. CASE In1Feed
    BY <2>1, <2>3 DEF In1Feed
  <2> QED
    BY <2>2, <2>3
<1>2. SumsPlace' /\ PackerPlace' /\ DstPlace'
  BY <1>1, ValuesStay DEF FusedDataInv, ValuesInv
<1>3. WriterAt' = WriterAt
  BY <1>1 DEF WriterAt
<1>4. OutputsPlace'
  BY <1>1, <1>3, ProducedStays, OutputsStay DEF FusedDataInv, ValuesInv
<1>5. WrittenPlace'
  BY <1>1, WrittenStays DEF FusedDataInv
<1> QED
  BY <1>2, <1>4, <1>5 DEF ValuesInv

\* All that has gone to CB16 is final, whichever loop it comes from.
LEMMA ProducedIsFinal ==
  ASSUME FusedDataInv, NEW j \in Strips, j < Produced
  PROVE  l1["out"][j] = FinalValue(compute.b, StripAt(j))
<1>1. BlockStrips \in Nat /\ Offset \in Nat /\ Produced \in Nat /\ j \in Nat
  BY StateFacts, Variant, Offsets, ProducedRange DEF FusedDataInv, Strips
<1>2. CASE compute.pc \in {"untilize", "row", "batchEnd"}
  BY <1>2 DEF FusedDataInv, ValuesInv, OutputsPlace
<1>3. CASE compute.pc \notin {"untilize", "row", "batchEnd"}
  <2>1. Produced > 0
    BY <1>1
  <2>2. /\ compute.pc \in {"fold"} \cup InSubblock
        /\ Target = "out"
        /\ Produced = IF compute.pc = "fold" THEN BlockStrips ELSE Offset
    BY <1>3, <2>1 DEF Produced, IfTo
  <2>3. j < Passed
    <3>1. args.rows \in Nat
      BY StateFacts, Variant DEF FusedDataInv
    <3> QED
      BY <1>1, <2>2, <3>1 DEF Passed, InSubblock
  <2>4. l1["out"][j] = NextSum(j)
    BY <2>2, <2>3 DEF FusedDataInv, ValuesInv, SumsPlace, SumAt, MemoryOf
  <2>5. ~args.untilize /\ (InBiasLoop \/ (LastOut /\ ~args.bias))
    BY <2>2, TargetFacts DEF FusedDataInv
  <2>6. NextSum(j) = FinalValue(compute.b, j)
    BY <2>5 DEF NextSum
  <2> QED
    BY <2>4, <2>5, <2>6 DEF StripAt
<1> QED
  BY <1>2, <1>3

\* So is what the writer stores.
LEMMA StoredIsFinal ==
  ASSUME FusedDataInv, StoreStrips
  PROVE  /\ cb.out.rd = rw.stored
         /\ \A j \in rw.stored .. rw.stored + args.rows - 1 :
              l1["out"][j] = FinalValue(rw.b, StripAt(j))
<1>1. /\ args.rows \in Nat \ {0} /\ rw.stored \in Nat /\ BlockStrips \in Nat
  BY StateFacts, Variant DEF FusedDataInv
<1>2. rw.stored + args.rows <= BlockStrips /\ args.drained
  BY StoreFacts DEF FusedDataInv
<1>3. WriterAt = rw.b
  BY <1>2 DEF WriterAt
<1>4. cb.out.rd = rw.stored
  <2>1. ~WriterAhead
    <3>1. cb.out.cnt >= args.rows
      BY DEF StoreStrips
    <3> QED
      BY <1>1, <3>1 DEF WriterAhead, EmptyCB
  <2>2. \/ cb.out = Ring(0, Produced, rw.stored, BlockStrips)
        \/ cb.out = Ring(BlockStrips, 0, rw.stored, BlockStrips)
    BY <2>1 DEF FusedDataInv, FusedIInv, InStep, WriterBehind
  <2>3. rw.stored # BlockStrips
    BY <1>1, <1>2
  <2> QED
    BY <2>2, <2>3, RingFields
<1>5. rw.stored .. rw.stored + args.rows - 1 \subseteq Strips
  BY <1>1, <1>2 DEF Strips
<1>6. CASE WriterBehind
  <2>1. compute.b = rw.b + 1 /\ rw.b \in Nat
    BY <1>3, <1>6, StateFacts, Variant DEF WriterBehind, FusedDataInv
  <2>2. \A j \in Strips :
          l1["out"][j] = FinalValue(compute.b - 1, StripAt(j))
    BY <1>3, <2>1 DEF FusedDataInv, ValuesInv, OutputsPlace
  <2>3. compute.b - 1 = rw.b
    BY <2>1
  <2> QED
    BY <1>4, <1>5, <2>2, <2>3
<1>7. CASE ~WriterBehind
  <2>1. compute.b = rw.b /\ rw.stored + args.rows <= Produced
    BY <1>7, StoreFacts DEF FusedDataInv
  <2>2. Produced \in Nat
    BY ProducedRange DEF FusedDataInv
  <2>3. \A j \in rw.stored .. rw.stored + args.rows - 1 :
          j \in Strips /\ j < Produced
    BY <1>1, <1>5, <2>1, <2>2
  <2> QED
    BY <1>4, <2>1, <2>3, ProducedIsFinal
<1> QED
  BY <1>6, <1>7

LEMMA StoreStripsValues ==
  ASSUME FusedDataInv, StoreStrips
  PROVE  ValuesInv' /\ WrittenPlace'
<1>1. /\ UNCHANGED <<args, compute, packer, l1, dst>>
      /\ rw' = IF rw.stored + args.rows < BlockStrips
               THEN [rw EXCEPT !.stored = rw.stored + args.rows]
               ELSE [b |-> rw.b + 1, k |-> 0, stored |-> 0]
      /\ written' = [written EXCEPT
                       ![rw.b] = [i \in DOMAIN written[rw.b] |->
                                    IF i - rw.stored \in Rows
                                    THEN l1["out"][cb.out.rd + i - rw.stored]
                                    ELSE written[rw.b][i]]]
      /\ rw.b < args.batch
  BY DEF StoreStrips
<1>2. /\ args.rows \in Nat \ {0} /\ rw.stored \in Nat /\ BlockStrips \in Nat
      /\ rw.b \in 0 .. args.batch - 1 /\ args.batch \in Nat
      /\ compute.b \in Nat
  BY <1>1, StateFacts, Variant DEF FusedDataInv
<1>3. rw.stored + args.rows <= BlockStrips /\ args.drained
  BY StoreFacts DEF FusedDataInv
<1>4. /\ rw.stored + args.rows < BlockStrips =>
           rw'.b = rw.b /\ rw'.stored = rw.stored + args.rows
      /\ rw.stored + args.rows = BlockStrips =>
           rw'.b = rw.b + 1 /\ rw'.stored = 0
  <2>1. rw = [b |-> rw.b, k |-> rw.k, stored |-> rw.stored]
    BY RWIs DEF FusedDataInv
  <2> QED
    BY <1>1, <1>2, <2>1
<1>5. SumsPlace' /\ PackerPlace' /\ DstPlace'
  BY <1>1, ValuesStay DEF FusedDataInv, ValuesInv
<1>6. OutputsPlace'
  <2>1. CASE rw'.b = rw.b
    <3>1. WriterAt' = WriterAt
      BY <1>1, <2>1 DEF WriterAt
    <3> QED
      BY <1>1, <3>1, ProducedStays, OutputsStay DEF FusedDataInv, ValuesInv
  <2>2. CASE rw'.b = rw.b + 1
    <3>1. compute.b <= rw.b + 1
      BY <1>2, <1>3
      DEF FusedDataInv, FusedIInv, InStep, WriterBehind, WriterAhead, WriterAt
    <3>2. compute'.b # WriterAt' + 1
      BY <1>1, <1>2, <1>3, <2>2, <3>1 DEF WriterAt
    <3>3. /\ Strips' = Strips /\ Produced' = Produced
          /\ \A j : FinalValue(compute.b, StripAt(j))'
                      = FinalValue(compute.b, StripAt(j))
      BY <1>1, SameVariant, ProducedStays DEF Strips, FinalValue, StripAt
    <3> QED
      BY <1>1, <3>2, <3>3 DEF FusedDataInv, ValuesInv, OutputsPlace
  <2> QED
    BY <1>2, <1>3, <1>4, <2>1, <2>2
<1>7. WrittenPlace'
  <2> DEFINE old == [i \in Strips |->
                       IF i < rw.stored THEN FinalValue(rw.b, StripAt(i))
                                        ELSE NotWritten]
             new == [i \in Strips |->
                       IF i < rw.stored + args.rows
                       THEN FinalValue(rw.b, StripAt(i)) ELSE NotWritten]
  <2>1. \A b \in 0 .. args.batch - 1, i \in Strips :
          b = rw.b => /\ Stored(b, i) <=> i < rw.stored
                      /\ Stored(b, i)' <=> i < rw.stored + args.rows
    BY <1>1, <1>2, <1>3, <1>4 DEF Stored, Strips
  <2>2. written[rw.b] = old
    BY <1>2, <2>1 DEF FusedDataInv, WrittenPlace
  <2>3. \A i \in Strips :
          (IF i - rw.stored \in Rows
           THEN l1["out"][cb.out.rd + i - rw.stored]
           ELSE old[i]) = new[i]
    <3> SUFFICES ASSUME NEW i \in Strips
                 PROVE  (IF i - rw.stored \in Rows
                         THEN l1["out"][cb.out.rd + i - rw.stored]
                         ELSE old[i]) = new[i]
      OBVIOUS
    <3>1. i \in Nat
      BY <1>2 DEF Strips
    <3>2. CASE i - rw.stored \in Rows
      <4>1. i \in rw.stored .. rw.stored + args.rows - 1
        BY <1>2, <3>1, <3>2 DEF Rows
      <4>2. cb.out.rd = rw.stored
        BY StoredIsFinal
      <4>3. cb.out.rd + i - rw.stored = i
        BY <1>2, <3>1, <4>2
      <4>4. l1["out"][i] = FinalValue(rw.b, StripAt(i))
        BY <4>1, StoredIsFinal
      <4>5. i < rw.stored + args.rows
        BY <1>2, <4>1
      <4> QED
        BY <3>2, <4>3, <4>4, <4>5
    <3>3. CASE i - rw.stored \notin Rows
      <4>1. i < rw.stored <=> i < rw.stored + args.rows
        BY <1>2, <3>1, <3>3 DEF Rows
      <4> QED
        BY <3>3, <4>1
    <3> QED
      BY <3>2, <3>3
  <2>4. written' = [written EXCEPT ![rw.b] = new]
    <3>1. DOMAIN written[rw.b] = Strips
      BY <2>2
    <3> HIDE DEF old
    <3>2. [i \in DOMAIN written[rw.b] |->
             IF i - rw.stored \in Rows
             THEN l1["out"][cb.out.rd + i - rw.stored]
             ELSE written[rw.b][i]] = new
      BY <2>2, <2>3, <3>1
    <3> QED
      BY <1>1, <3>2
  <2>5. Strips' = Strips
    BY <1>1, SameVariant DEF Strips
  <2>6. \A b, i : FinalValue(b, StripAt(i))' = FinalValue(b, StripAt(i))
    BY <1>1 DEF FinalValue, StripAt
  <2>7. \A b \in 0 .. args.batch - 1, i \in Strips :
          b # rw.b => (Stored(b, i)' <=> Stored(b, i))
    BY <1>1, <1>2, <1>3, <1>4 DEF Stored, Strips
  <2>8. written = [b \in 0 .. args.batch - 1 |->
                     [i \in Strips |-> IF Stored(b, i)
                                       THEN FinalValue(b, StripAt(i))
                                       ELSE NotWritten]]
    BY DEF FusedDataInv, WrittenPlace
  <2> DEFINE Now(b) == [i \in Strips |-> IF Stored(b, i)'
                                         THEN FinalValue(b, StripAt(i))'
                                         ELSE NotWritten]
  <2>9. \A b \in 0 .. args.batch - 1 : written'[b] = Now(b)
    <3> SUFFICES ASSUME NEW b \in 0 .. args.batch - 1
                 PROVE  written'[b] = Now(b)
      OBVIOUS
    <3>1. CASE b = rw.b
      <4>1. written'[b] = new
        BY <2>4, <2>8, <3>1
      <4>2. new = Now(b)
        BY <2>1, <2>6, <3>1
      <4> QED
        BY <4>1, <4>2
    <3>2. CASE b # rw.b
      <4>1. written'[b] = written[b]
        BY <2>4, <3>2
      <4> QED
        BY <2>6, <2>7, <2>8, <3>2, <4>1
    <3> QED
      BY <3>1, <3>2
  <2>10. written' = [b \in 0 .. args.batch - 1 |-> Now(b)]
    <3>1. written' = [b \in 0 .. args.batch - 1 |-> written'[b]]
      BY <2>4, <2>8
    <3> HIDE DEF Now
    <3> QED
      BY <2>9, <3>1
  <2> HIDE DEF old, new
  <2> QED
    BY <1>1, <2>5, <2>10 DEF WrittenPlace
<1> QED
  BY <1>5, <1>6, <1>7 DEF ValuesInv
-------------------------------------------------------------------------------
(* The steps of the compute kernel up to a subblock's math *)

LEMMA StartBatchValues ==
  ASSUME FusedDataInv, StartBatch
  PROVE  ValuesInv'
<1>1. /\ UNCHANGED <<args, rw, l1>> /\ compute.pc = "batch"
      /\ packer' = [packer EXCEPT !.relu = ReluAtStart]
      /\ compute' = [compute EXCEPT !.pc = "wait", !.k = 0, !.reload = FALSE,
                                    !.toWait = args.rows]
  BY DEF StartBatch
<1>2. compute'.pc = "wait" /\ compute'.b = compute.b /\ compute'.k = 0
  BY <1>1, ComputeIs DEF FusedDataInv
<1>3. packer'.relu = ReluAtStart
  BY <1>1, StateFacts DEF FusedDataInv
<1>4. args.batch \in Nat \ {0} /\ BlockStrips \in Nat /\ Strips' = Strips
  BY <1>1, StateFacts, Variant, SameVariant DEF FusedDataInv, Strips
<1>5. SumsPlace'
  <2>1. \A p \in Strips : SumAt(p)'
    BY <1>2, <1>4 DEF SumAt, Passed, Strips
  <2> QED
    BY <1>2, <1>4, <2>1 DEF SumsPlace
<1>6. PackerPlace'
  <2>1. ~packer'.relu
    BY <1>1, <1>3, <1>4
    DEF ReluAtStart, FusedDataInv, ValuesInv, PackerPlace
  <2> QED
    BY <1>2, <2>1 DEF PackerPlace, InSubblock, AfterReload
<1>7. DstPlace'
  BY <1>2 DEF DstPlace
<1>8. OutputsPlace'
  <2>1. WriterAt' = WriterAt
    BY <1>1 DEF WriterAt
  <2> QED
    BY <1>1, <1>2, <2>1, OutputsStay DEF FusedDataInv, ValuesInv
<1> QED
  BY <1>5, <1>6, <1>7, <1>8 DEF ValuesInv

LEMMA WaitOperandsValues ==
  ASSUME FusedDataInv, WaitOperands
  PROVE  ValuesInv'
<1>1. /\ UNCHANGED <<args, rw, l1>> /\ compute.pc = "wait"
      /\ packer' = [packer EXCEPT
                      !.relu = packer.relu \/ (args.act = "relu" /\ ~args.bias
                                                 /\ LastOut)]
      /\ compute' = [compute EXCEPT !.pc = SubblockStart(compute.reload),
                                    !.s = 0]
      /\ dst' = [h \in Rows |-> <<>>]
  BY DEF WaitOperands
<1>2. /\ compute'.pc = SubblockStart(compute.reload) /\ compute'.b = compute.b
      /\ compute'.k = compute.k /\ compute'.s = 0
      /\ compute'.reload = compute.reload
  BY <1>1, ComputeIs DEF FusedDataInv
<1>3. /\ compute'.pc \in {"reload", "math"}
      /\ compute'.pc = "math" => ~compute.reload
  BY <1>2 DEF SubblockStart
<1>4. /\ args.rows \in Nat /\ BlockStrips \in Nat /\ Strips' = Strips
      /\ PartMem' = PartMem /\ Rows' = Rows
      /\ LastOut' = LastOut /\ InBiasLoop' = InBiasLoop
  BY <1>1, <1>2, StateFacts, Variant, SameVariant, SameBlock
  DEF FusedDataInv, Strips
<1>5. Passed = 0 /\ Passed' = 0
  BY <1>1, <1>2, <1>3, <1>4 DEF Passed, Offset
<1>6. SumsPlace'
  <2>1. \A p \in Strips : SumAt(p)
    BY <1>1 DEF FusedDataInv, ValuesInv, SumsPlace
  <2>2. \A p \in Strips : ~(p < 0)
    BY <1>4 DEF Strips
  <2>3. \A p : Sum(compute.b, compute.k, p)' = Sum(compute.b, compute.k, p)
    BY <1>2 DEF Sum
  <2>4. \A p \in Strips : SumAt(p)'
    BY <1>1, <1>2, <1>4, <1>5, <2>1, <2>2, <2>3 DEF SumAt
  <2> QED
    BY <1>3, <1>4, <2>4 DEF SumsPlace
<1>7. PackerPlace'
  <2>1. /\ ~packer.relu /\ packer \in [relu : BOOLEAN, acc : BOOLEAN]
    BY <1>1, StateFacts DEF FusedDataInv, ValuesInv, PackerPlace
  <2>2. packer'.relu = (args.act = "relu" /\ ~args.bias /\ LastOut)
    BY <1>1, <2>1
  <2>3. ~InBiasLoop
    <3>1. compute.k < args.numBlocks
      BY <1>1 DEF FusedDataInv, FusedIInv, ComputePlace
    <3>2. args.numBlocks \in Nat
      BY StateFacts, Variant DEF FusedDataInv
    <3> QED
      BY <3>1, <3>2 DEF InBiasLoop
  <2> QED
    BY <1>1, <1>3, <1>4, <2>2, <2>3 DEF PackerPlace
<1>8. DstPlace'
  <2>1. compute'.pc = "math" => \A h \in Rows : dst'[h] = Reloaded(Offset + h)'
    BY <1>1, <1>2, <1>3 DEF Reloaded
  <2> QED
    BY <1>3, <1>4, <2>1 DEF DstPlace
<1>9. OutputsPlace'
  <2>1. WriterAt' = WriterAt
    BY <1>1 DEF WriterAt
  <2> QED
    BY <1>1, <1>2, <1>3, <2>1, OutputsStay DEF FusedDataInv, ValuesInv
<1> QED
  BY <1>6, <1>7, <1>8, <1>9 DEF ValuesInv

\* Before a subblock is packed the strips stay as they are.
LEMMA SubblockValues ==
  ASSUME FusedDataInv, UNCHANGED <<args, rw, l1>>,
         compute.pc \in InSubblock \ {"push"},
         compute'.pc \in InSubblock \ {"push"},
         compute'.b = compute.b, compute'.k = compute.k,
         compute'.s = compute.s, compute'.reload = compute.reload
  PROVE  /\ SumsPlace' /\ OutputsPlace'
         /\ Rows' = Rows /\ LastOut' = LastOut /\ InBiasLoop' = InBiasLoop
         /\ Offset' = Offset /\ BySfpu' = BySfpu
         /\ \A p : Reloaded(p)' = Reloaded(p) /\ Computed(p)' = Computed(p)
<1>1. \A p : /\ NextSum(p)' = NextSum(p)
             /\ Sum(compute.b, compute.k, p)' = Sum(compute.b, compute.k, p)
             /\ Reloaded(p)' = Reloaded(p) /\ Computed(p)' = Computed(p)
             /\ BySfpu' = BySfpu /\ Offset' = Offset
             /\ PartMem' = PartMem /\ MemoryOf(Target)' = MemoryOf(Target)
             /\ Strips' = Strips /\ Rows' = Rows
             /\ InBiasLoop' = InBiasLoop /\ LastOut' = LastOut
  BY SumFrame
<1>2. Passed' = Offset /\ Passed = Offset
  BY <1>1 DEF Passed, InSubblock
<1>3. \A p \in Strips : SumAt(p)
  BY DEF FusedDataInv, ValuesInv, SumsPlace
<1>4. \A p \in Strips : SumAt(p)'
  BY <1>1, <1>2, <1>3 DEF SumAt
<1>5. SumsPlace'
  BY <1>1, <1>4 DEF SumsPlace, InSubblock
<1>6. OutputsPlace'
  BY InLoopOutputs DEF FusedDataInv, InSubblock
<1> QED
  BY <1>1, <1>5, <1>6

\* Sums are reloaded only where there are some.
LEMMA ReloadMeansSums ==
  ASSUME FusedIInv, compute.reload,
         compute.pc \in {"wait", "fold"} \cup InSubblock, ~InBiasLoop
  PROVE  compute.k > 0
<1>1. /\ compute.k \in 0 .. args.numBlocks /\ args.numBlocks \in Nat \ {0}
      /\ args.l1Acc \in BOOLEAN
      /\ args.l1Acc /\ ~args.bias => args.numBlocks > 1
  BY StateFacts, Variant
<1>2. compute.reload =
        (IF args.l1Acc THEN ~args.bias /\ LastOut ELSE compute.k > 0)
  BY DEF FusedIInv, ReloadPlace
<1>3. CASE args.l1Acc
  <2>1. ~args.bias /\ LastOut
    BY <1>2, <1>3
  <2> QED
    BY <1>1, <1>3, <2>1 DEF LastOut
<1>4. CASE ~args.l1Acc
  BY <1>2, <1>4
<1> QED
  BY <1>1, <1>3, <1>4

\* What a subblock's strips hold when they are read.
LEMMA SumsRead ==
  ASSUME FusedDataInv, compute.pc \in {"reload", "bias"}, NEW h \in Rows
  PROVE  l1[PartMem][cb.part.rd + h]
           = Sum(compute.b, compute.k, Offset + h)
<1>1. cb.part.rd = Offset
  BY ReadFacts DEF FusedDataInv
<1>2. /\ Offset \in Nat /\ args.rows \in Nat /\ BlockStrips \in Nat
      /\ Offset + args.rows <= BlockStrips
  BY StateFacts, Variant, Offsets DEF FusedDataInv
<1>3. h \in 0 .. args.rows - 1
  BY DEF Rows
<1>4. Offset + h \in Strips /\ Offset + h >= Offset
  BY <1>2, <1>3 DEF Strips
<1>5. SumAt(Offset + h) /\ Passed = Offset
  BY <1>4 DEF FusedDataInv, ValuesInv, SumsPlace, InSubblock, Passed
<1>6. compute.k > 0
  <2>1. CASE compute.pc = "reload"
    <3>1. compute.reload /\ ~InBiasLoop
      BY <2>1, StateFacts, Variant
      DEF FusedDataInv, FusedIInv, ComputePlace, InBiasLoop
    <3> QED
      BY <2>1, <3>1, ReloadMeansSums DEF FusedDataInv, InSubblock
  <2>2. CASE compute.pc = "bias"
    BY <2>2, StateFacts, Variant
    DEF FusedDataInv, FusedIInv, ComputePlace, InBiasLoop
  <2> QED
    BY <2>1, <2>2
<1> QED
  BY <1>1, <1>4, <1>5, <1>6 DEF SumAt

LEMMA ReloadValues ==
  ASSUME FusedDataInv, Reload
  PROVE  ValuesInv'
<1>1. /\ UNCHANGED <<args, rw, packer, l1>> /\ compute.pc = "reload"
      /\ dst' = [h \in Rows |-> l1[PartMem][cb.part.rd + h]]
      /\ compute' = [compute EXCEPT !.pc = "math"]
  BY DEF Reload
<1>2. /\ compute'.pc = "math" /\ compute'.b = compute.b
      /\ compute'.k = compute.k /\ compute'.s = compute.s
      /\ compute'.reload = compute.reload
  BY <1>1, ComputeIs DEF FusedDataInv
<1>3. /\ SumsPlace' /\ OutputsPlace'
      /\ Rows' = Rows /\ LastOut' = LastOut /\ InBiasLoop' = InBiasLoop
      /\ Offset' = Offset
      /\ \A p : Reloaded(p)' = Reloaded(p)
  BY <1>1, <1>2, SubblockValues DEF InSubblock
<1>4. ~InBiasLoop /\ compute.reload
  <2>1. /\ ComputePlace /\ compute.pc = "reload"
    BY <1>1 DEF FusedDataInv, FusedIInv
  <2>2. compute.k < args.numBlocks /\ compute.reload
    BY <2>1 DEF ComputePlace
  <2>3. args.numBlocks \in Nat
    BY StateFacts, Variant DEF FusedDataInv
  <2> QED
    BY <2>2, <2>3 DEF InBiasLoop
<1>5. PackerPlace'
  BY <1>1, <1>2, <1>3, <1>4
  DEF FusedDataInv, ValuesInv, PackerPlace, InSubblock
<1>6. DstPlace'
  <2>1. \A h \in Rows : dst'[h] = Reloaded(Offset + h)
    BY <1>1, <1>4, SumsRead DEF Reloaded
  <2> QED
    BY <1>2, <1>3, <2>1 DEF DstPlace
<1> QED
  BY <1>3, <1>5, <1>6 DEF ValuesInv

LEMMA MatmulBlockValues ==
  ASSUME FusedDataInv, MatmulBlock
  PROVE  ValuesInv'
<1> DEFINE Product(h) == Append(dst[h], Mul(compute.b, compute.k,
                                            compute.s * args.rows + h))
<1>1. /\ UNCHANGED <<args, rw, packer, l1>> /\ compute.pc = "math"
      /\ dst' = [h \in Rows |-> IF LastOut /\ ~args.bias /\ args.act = "sfpu"
                                THEN Activated(Product(h)) ELSE Product(h)]
      /\ compute' = [compute EXCEPT !.pc = "pack"]
  BY DEF MatmulBlock
<1>2. /\ compute'.pc = "pack" /\ compute'.b = compute.b
      /\ compute'.k = compute.k /\ compute'.s = compute.s
      /\ compute'.reload = compute.reload
  BY <1>1, ComputeIs DEF FusedDataInv
<1>3. /\ SumsPlace' /\ OutputsPlace'
      /\ Rows' = Rows /\ LastOut' = LastOut /\ InBiasLoop' = InBiasLoop
      /\ Offset' = Offset /\ BySfpu' = BySfpu
      /\ \A p : Computed(p)' = Computed(p)
  BY <1>1, <1>2, SubblockValues DEF InSubblock
<1>4. ~InBiasLoop
  <2>1. /\ ComputePlace /\ compute.pc = "math"
    BY <1>1 DEF FusedDataInv, FusedIInv
  <2>2. compute.k < args.numBlocks
    BY <2>1 DEF ComputePlace
  <2>3. args.numBlocks \in Nat
    BY StateFacts, Variant DEF FusedDataInv
  <2> QED
    BY <2>2, <2>3 DEF InBiasLoop
<1>5. PackerPlace'
  BY <1>1, <1>2, <1>3, <1>4
  DEF FusedDataInv, ValuesInv, PackerPlace, InSubblock
<1>6. DstPlace'
  <2>1. \A h \in Rows : Product(h) = Computed(Offset + h)
    BY <1>1, <1>4
    DEF FusedDataInv, ValuesInv, DstPlace, Computed, Offset
  <2>2. BySfpu <=> LastOut /\ ~args.bias /\ args.act = "sfpu"
    BY <1>4 DEF BySfpu
  <2> HIDE DEF Product
  <2>3. \A h \in Rows :
          dst'[h] = IF BySfpu THEN Activated(Computed(Offset + h))
                              ELSE Computed(Offset + h)
    BY <1>1, <2>1, <2>2
  <2> QED
    BY <1>2, <1>3, <2>3 DEF DstPlace
<1> QED
  BY <1>3, <1>5, <1>6 DEF ValuesInv

LEMMA AddBiasValues ==
  ASSUME FusedDataInv, AddBias
  PROVE  ValuesInv'
<1> DEFINE Biased(h) == Append(l1[PartMem][cb.part.rd + h],
                               Bias(compute.b, compute.s * args.rows + h))
<1>1. /\ UNCHANGED <<args, rw, l1>> /\ compute.pc = "bias"
      /\ dst' = [h \in Rows |-> IF args.act = "sfpu" THEN Activated(Biased(h))
                                                    ELSE Biased(h)]
      /\ packer' = [relu |-> packer.relu \/ args.act = "relu", acc |-> FALSE]
      /\ compute' = [compute EXCEPT !.pc = "pack"]
  BY DEF AddBias
<1>2. /\ compute'.pc = "pack" /\ compute'.b = compute.b
      /\ compute'.k = compute.k /\ compute'.s = compute.s
      /\ compute'.reload = compute.reload
  BY <1>1, ComputeIs DEF FusedDataInv
<1>3. /\ SumsPlace' /\ OutputsPlace'
      /\ Rows' = Rows /\ LastOut' = LastOut /\ InBiasLoop' = InBiasLoop
      /\ Offset' = Offset /\ BySfpu' = BySfpu
      /\ \A p : Computed(p)' = Computed(p)
  BY <1>1, <1>2, SubblockValues DEF InSubblock
<1>4. InBiasLoop
  BY <1>1 DEF FusedDataInv, FusedIInv, ComputePlace
<1>5. PackerPlace'
  <2>1. packer.relu => args.act = "relu"
    BY <1>1 DEF FusedDataInv, ValuesInv, PackerPlace
  <2>2. packer'.relu = (args.act = "relu")
    <3>1. packer.relu \in BOOLEAN
      BY StateFacts DEF FusedDataInv
    <3>2. packer'.relu = (packer.relu \/ args.act = "relu")
      BY <1>1
    <3> QED
      BY <2>1, <3>1, <3>2
  <2> QED
    BY <1>1, <1>2, <1>3, <1>4, <2>2 DEF PackerPlace
<1>6. DstPlace'
  <2>1. \A h \in Rows : Biased(h) = Computed(Offset + h)
    BY <1>1, <1>4, SumsRead DEF Computed, Offset, InBiasLoop
  <2>2. BySfpu <=> args.act = "sfpu"
    BY <1>4 DEF BySfpu
  <2> HIDE DEF Biased
  <2>3. \A h \in Rows :
          dst'[h] = IF BySfpu THEN Activated(Computed(Offset + h))
                              ELSE Computed(Offset + h)
    BY <1>1, <2>1, <2>2
  <2> QED
    BY <1>2, <1>3, <2>3 DEF DstPlace
<1> QED
  BY <1>3, <1>5, <1>6 DEF ValuesInv
-------------------------------------------------------------------------------
(* The pack of a subblock *)

\* Whether the packer adds to what is in L1: then nothing was reloaded.
LEMMA AccumulatesOrReloads ==
  ASSUME FusedIInv, compute.pc = "pack", ~InBiasLoop
  PROVE  /\ Accumulates(compute.k) =>
              /\ compute.k > 0 /\ ~compute.reload /\ Target = "part"
              /\ LastOut => args.bias
         /\ ~Accumulates(compute.k) => compute.reload \/ compute.k = 0
<1>1. /\ compute.k \in Nat /\ args.l1Acc \in BOOLEAN /\ args.bias \in BOOLEAN
      /\ compute.reload \in BOOLEAN
  BY StateFacts, Variant
<1>2. compute.reload =
        (IF args.l1Acc THEN ~args.bias /\ LastOut ELSE compute.k > 0)
  BY DEF FusedIInv, ReloadPlace, InSubblock
<1>3. CASE args.l1Acc
  <2>1. compute.reload = (~args.bias /\ LastOut)
    BY <1>2, <1>3
  <2>2. Accumulates(compute.k) <=> compute.k > 0 /\ (LastOut => args.bias)
    BY <1>3 DEF Accumulates
  <2>3. ~LastOut \/ args.bias => Target = "part"
    BY TargetFacts
  <2>4. compute.k > 0 \/ compute.k = 0
    BY <1>1
  <2> QED
    BY <2>1, <2>2, <2>3, <2>4
<1>4. CASE ~args.l1Acc
  <2>1. compute.reload = (compute.k > 0)
    BY <1>2, <1>4
  <2>2. ~Accumulates(compute.k)
    BY <1>4 DEF Accumulates
  <2>3. compute.k > 0 \/ compute.k = 0
    BY <1>1
  <2> QED
    BY <2>1, <2>2, <2>3
<1> QED
  BY <1>1, <1>3, <1>4

\* Packing leaves each strip as the loop over subblocks owes it.
LEMMA PackedIs ==
  ASSUME FusedDataInv, compute.pc = "pack",
         NEW config, config.relu = packer.relu,
         config.acc = (~InBiasLoop /\ Accumulates(compute.k)),
         NEW h \in Rows, NEW old,
         compute.k > 0 /\ Target = "part" =>
           old = Sum(compute.b, compute.k, Offset + h)
  PROVE  Packed(config, dst[h], old) = NextSum(Offset + h)
<1> DEFINE b == compute.b
           k == compute.k
           p == Offset + h
<1>1. /\ b \in Nat /\ k \in Nat /\ p \in Nat /\ args.numBlocks \in Nat
      /\ compute.reload \in BOOLEAN
  BY StateFacts, Variant, StripNumber DEF FusedDataInv, Offset
<1>2. dst[h] = IF BySfpu THEN Activated(Computed(p)) ELSE Computed(p)
  BY DEF FusedDataInv, ValuesInv, DstPlace
<1>3. args.act \in {"none", "relu", "sfpu"}
  BY StateFacts, FusedProgramsAssumption DEF FusedDataInv, FusedProgram
<1>4. CASE InBiasLoop
  <2>1. args.bias /\ ~config.acc
    BY <1>4 DEF FusedDataInv, FusedIInv, ComputePlace, InSubblock
  <2>2. config.relu = (args.act = "relu")
    BY <1>4 DEF FusedDataInv, ValuesInv, PackerPlace, AfterReload
  <2>3. BySfpu <=> args.act = "sfpu"
    BY <1>4 DEF BySfpu
  <2>4. Computed(p) = Append(Sum(b, args.numBlocks, p), Bias(b, p))
    BY <1>4 DEF Computed
  <2>5. NextSum(p) = FinalValue(b, p)
    BY <1>4 DEF NextSum
  <2>6. FinalValue(b, p) = IF args.act = "none" THEN Computed(p)
                                                ELSE Activated(Computed(p))
    BY <2>1, <2>4, FinalIs
  <2> QED
    BY <1>2, <1>3, <2>1, <2>2, <2>3, <2>5, <2>6 DEF Packed
<1>5. CASE ~InBiasLoop /\ Accumulates(k)
  <2>1. /\ k > 0 /\ ~compute.reload /\ Target = "part"
        /\ ~(LastOut /\ ~args.bias)
    BY <1>5, AccumulatesOrReloads DEF FusedDataInv
  <2>2. ~BySfpu
    BY <1>5, <2>1 DEF BySfpu
  <2>3. ~config.relu /\ config.acc
    BY <1>5, <2>1 DEF FusedDataInv, ValuesInv, PackerPlace, InSubblock
  <2>4. dst[h] = Append(<<>>, Mul(b, k, p))
    BY <1>2, <1>5, <2>1, <2>2 DEF Computed, Reloaded
  <2>5. old = Sum(b, k, p)
    BY <2>1
  <2>6. NextSum(p) = Sum(b, k + 1, p)
    BY <1>5, <2>1 DEF NextSum
  <2>7. Sum(b, k, p) \o Append(<<>>, Mul(b, k, p)) = Sum(b, k + 1, p)
    BY <1>1, SumFacts
  <2>8. Packed(config, dst[h], old) = old \o dst[h]
    BY <2>3 DEF Packed
  <2> QED
    BY <2>4, <2>5, <2>6, <2>7, <2>8
<1>6. CASE ~InBiasLoop /\ ~Accumulates(k)
  <2>1. compute.reload \/ k = 0
    BY <1>6, AccumulatesOrReloads DEF FusedDataInv
  <2>2. Reloaded(p) = Sum(b, k, p)
    <3>1. CASE compute.reload
      BY <3>1 DEF Reloaded
    <3>2. CASE ~compute.reload
      <4>1. k = 0
        BY <2>1, <3>2
      <4>2. Sum(b, 0, p) = <<>>
        BY <1>1, SumFacts
      <4> QED
        BY <3>2, <4>1, <4>2 DEF Reloaded
    <3> QED
      BY <3>1, <3>2
  <2>3. Computed(p) = Sum(b, k + 1, p)
    <3>1. Append(Sum(b, k, p), Mul(b, k, p)) = Sum(b, k + 1, p)
      BY <1>1, SumFacts
    <3> QED
      BY <1>6, <2>2, <3>1 DEF Computed
  <2>4. ~config.acc
    BY <1>6
  <2>5. config.relu = (args.act = "relu" /\ ~args.bias /\ LastOut)
    BY <1>6 DEF FusedDataInv, ValuesInv, PackerPlace, InSubblock
  <2>6. CASE LastOut /\ ~args.bias
    <3>1. NextSum(p) = FinalValue(b, p)
      BY <2>6 DEF NextSum
    <3>2. k + 1 = args.numBlocks
      BY <1>1, <2>6 DEF LastOut
    <3>3. FinalValue(b, p) = IF args.act = "none" THEN Computed(p)
                                                  ELSE Activated(Computed(p))
      BY <2>3, <2>6, <3>2, FinalIs
    <3>4. BySfpu <=> args.act = "sfpu"
      BY <2>6 DEF BySfpu
    <3> QED
      BY <1>2, <1>3, <2>4, <2>5, <2>6, <3>1, <3>3, <3>4 DEF Packed
  <2>7. CASE ~(LastOut /\ ~args.bias)
    <3>1. NextSum(p) = Sum(b, k + 1, p) /\ ~BySfpu
      BY <1>6, <2>7 DEF NextSum, BySfpu
    <3> QED
      BY <1>2, <2>3, <2>4, <2>5, <2>7, <3>1 DEF Packed
  <2> QED
    BY <2>6, <2>7
<1> QED
  BY <1>4, <1>5, <1>6

\* The subblock goes where its strips belong.
LEMMA PackedAt ==
  ASSUME FusedIInv, compute.pc = "pack"
  PROVE  cb[Target].wr = Offset
<1>1. /\ Offset \in Nat /\ BlockStrips \in Nat /\ args.rows \in Nat \ {0}
      /\ Offset + args.rows <= BlockStrips
  BY StateFacts, Variant, Offsets
<1>2. Offset # BlockStrips
  BY <1>1
<1>3. CASE Target = "part"
  <2>1. cb.part = Ring(IfSums(BlockStrips), Offset,
                       IfSums(Offset + args.rows), BlockStrips)
    BY <1>3 DEF FusedIInv, PartialsPlace, AfterReload, IfTo
  <2> QED
    BY <1>2, <1>3, <2>1, RingFields
<1>4. CASE Target = "out"
  <2>1. cb.out = Ring(0, Produced, rw.stored, BlockStrips)
    BY DEF FusedIInv, InStep, WriterBehind, WriterAhead
  <2>2. Produced = Offset
    BY <1>4 DEF Produced, InSubblock, IfTo
  <2> QED
    BY <1>2, <1>4, <2>1, <2>2, RingFields
<1> QED
  BY <1>3, <1>4, TargetFacts

LEMMA PackValues ==
  ASSUME FusedDataInv, UNCHANGED <<args, rw, dst>>, compute.pc = "pack",
         compute'.pc = "push", compute'.b = compute.b, compute'.k = compute.k,
         compute'.s = compute.s, compute'.reload = compute.reload,
         packer'.relu = packer.relu,
         packer'.acc = (~InBiasLoop /\ Accumulates(compute.k)),
         l1' = PackedInto(Target, packer')
  PROVE  ValuesInv'
<1>1. \A p : /\ NextSum(p)' = NextSum(p)
             /\ Sum(compute.b, compute.k, p)' = Sum(compute.b, compute.k, p)
             /\ Offset' = Offset /\ PartMem' = PartMem
             /\ MemoryOf(Target)' = MemoryOf(Target)
             /\ Strips' = Strips /\ Rows' = Rows
             /\ InBiasLoop' = InBiasLoop /\ LastOut' = LastOut
  BY SumFrame
<1>2. /\ Offset \in Nat /\ BlockStrips \in Nat /\ args.rows \in Nat
      /\ Offset + args.rows <= BlockStrips
  BY StateFacts, Variant, Offsets DEF FusedDataInv
<1>3. Passed = Offset /\ Passed' = Offset + args.rows
  BY <1>1 DEF Passed
<1>4. \A p \in Strips : SumAt(p)
  BY DEF FusedDataInv, ValuesInv, SumsPlace, InSubblock
<1>5. /\ MemoryOf(Target) \in {"out", "part"} /\ PartMem \in {"out", "part"}
      /\ l1 \in [{"out", "part"} -> [Strips -> Value]]
      /\ cb[Target].wr = Offset
  BY StateFacts, TargetFacts, PackedAt DEF FusedDataInv, Memories, Strips
<1> DEFINE m == MemoryOf(Target)
<1>6. /\ \A p \in Strips :
           l1'[m][p] = IF p - Offset \in Rows
                       THEN Packed(packer', dst[p - Offset], l1[m][p])
                       ELSE l1[m][p]
      /\ PartMem # m => l1'[PartMem] = l1[PartMem]
  <2>1. l1' = [l1 EXCEPT
                 ![m] = [i \in DOMAIN l1[m] |->
                           IF i - Offset \in Rows
                           THEN Packed(packer', dst[i - Offset], l1[m][i])
                           ELSE l1[m][i]]]
    BY <1>5 DEF PackedInto
  <2>2. DOMAIN l1[m] = Strips
    BY <1>5
  <2> HIDE DEF m
  <2>3. m \in DOMAIN l1
    BY <1>5 DEF m
  <2> QED
    BY <1>5, <2>1, <2>2, <2>3
<1>7. ASSUME NEW p \in Strips PROVE SumAt(p)'
  <2>1. p \in Nat /\ p < BlockStrips
    BY <1>2 DEF Strips
  <2>2. CASE p < Offset
    <3>1. p - Offset \notin Rows /\ p < Offset + args.rows
      BY <1>2, <2>1, <2>2 DEF Rows
    <3>2. l1'[m][p] = NextSum(p)
      BY <1>3, <1>4, <1>6, <2>2, <3>1 DEF SumAt
    <3>3. ~(p >= Passed')
      BY <1>2, <1>3, <2>1, <3>1
    <3> QED
      BY <1>1, <3>2, <3>3 DEF SumAt
  <2>3. CASE p >= Offset + args.rows
    <3>1. p - Offset \notin Rows /\ p >= Offset
      BY <1>2, <2>1, <2>3 DEF Rows
    <3>2. l1'[PartMem][p] = l1[PartMem][p]
      BY <1>6, <3>1
    <3>3. ~(p < Passed')
      BY <1>2, <1>3, <2>1, <2>3
    <3>4. compute.k > 0 => l1[PartMem][p] = Sum(compute.b, compute.k, p)
      BY <1>3, <1>4, <3>1 DEF SumAt
    <3> QED
      BY <1>1, <3>2, <3>3, <3>4 DEF SumAt
  <2>4. CASE Offset <= p /\ p < Offset + args.rows
    <3> DEFINE h == p - Offset
    <3>1. h \in Rows /\ Offset + h = p
      BY <1>2, <2>1, <2>4 DEF Rows
    <3> HIDE DEF h
    <3>2. compute.k > 0 /\ Target = "part" =>
            l1[m][p] = Sum(compute.b, compute.k, Offset + h)
      BY <1>3, <1>4, <2>4, <3>1 DEF SumAt, MemoryOf
    <3>3. Packed(packer', dst[h], l1[m][p]) = NextSum(p)
      <4> HIDE DEF m
      <4> DEFINE old == l1[m][p]
      <4> HIDE DEF old
      <4>1. compute.k > 0 /\ Target = "part" =>
              old = Sum(compute.b, compute.k, Offset + h)
        BY <3>2 DEF old
      <4>2. Packed(packer', dst[h], old) = NextSum(Offset + h)
        BY <3>1, <4>1, PackedIs
      <4> QED
        BY <3>1, <4>2 DEF old
    <3>4. l1'[m][p] = NextSum(p)
      BY <1>6, <3>1, <3>3 DEF h
    <3>5. ~(p >= Passed')
      BY <1>2, <1>3, <2>1, <2>4
    <3> QED
      BY <1>1, <3>4, <3>5 DEF SumAt
  <2> QED
    BY <1>2, <2>1, <2>2, <2>3, <2>4
<1>8. SumsPlace'
  BY <1>1, <1>7 DEF SumsPlace
<1>9. PackerPlace'
  BY <1>1 DEF FusedDataInv, ValuesInv, PackerPlace, InSubblock, AfterReload
<1>10. DstPlace'
  BY DEF DstPlace
<1>11. OutputsPlace'
  BY InLoopOutputs DEF FusedDataInv, InSubblock
<1> QED
  BY <1>8, <1>9, <1>10, <1>11 DEF ValuesInv

LEMMA PackPartialValues ==
  ASSUME FusedDataInv, PackPartial
  PROVE  ValuesInv'
<1>1. /\ UNCHANGED <<args, rw, dst>> /\ compute.pc = "pack"
      /\ ~LastOut /\ ~InBiasLoop
      /\ packer' = [packer EXCEPT !.acc = Accumulates(compute.k)]
      /\ l1' = PackedInto("part", packer')
      /\ compute' = [compute EXCEPT !.pc = "push", !.toWait = NextToWait]
  BY DEF PackPartial
<1>2. /\ compute'.pc = "push" /\ compute'.b = compute.b
      /\ compute'.k = compute.k /\ compute'.s = compute.s
      /\ compute'.reload = compute.reload
  BY <1>1, ComputeIs DEF FusedDataInv
<1>3. /\ packer'.relu = packer.relu
      /\ packer'.acc = Accumulates(compute.k)
  BY <1>1, StateFacts DEF FusedDataInv
<1>4. Accumulates(compute.k) \in BOOLEAN
  BY StateFacts, Variant DEF Accumulates, FusedDataInv
<1>5. Target = "part"
  BY <1>1, TargetFacts DEF FusedDataInv
<1> QED
  BY <1>1, <1>2, <1>3, <1>4, <1>5, PackValues

LEMMA PackFinalValues ==
  ASSUME FusedDataInv, PackFinal
  PROVE  ValuesInv'
<1>1. /\ UNCHANGED <<args, rw, dst>> /\ compute.pc = "pack"
      /\ LastOut \/ InBiasLoop
      /\ packer' = [packer EXCEPT !.acc = LastOut /\ Accumulates(compute.k)]
      /\ l1' = PackedInto(Target, packer')
      /\ compute' = [compute EXCEPT !.pc = "push"]
  BY DEF PackFinal
<1>2. /\ compute'.pc = "push" /\ compute'.b = compute.b
      /\ compute'.k = compute.k /\ compute'.s = compute.s
      /\ compute'.reload = compute.reload
  BY <1>1, ComputeIs DEF FusedDataInv
<1>3. /\ packer'.relu = packer.relu
      /\ packer'.acc = (LastOut /\ Accumulates(compute.k))
  BY <1>1, StateFacts DEF FusedDataInv
<1>4. LastOut <=> ~InBiasLoop
  BY <1>1, TargetFacts DEF FusedDataInv
<1>5. packer'.acc = (~InBiasLoop /\ Accumulates(compute.k))
  BY <1>3, <1>4
<1> QED
  BY <1>1, <1>2, <1>3, <1>5, PackValues
-------------------------------------------------------------------------------
(* The ends of the loops *)

LEMMA PushSubblockValues ==
  ASSUME FusedDataInv, PushSubblock
  PROVE  ValuesInv'
<1>1. /\ UNCHANGED <<args, rw, packer, l1>> /\ compute.pc = "push"
      /\ dst' = [h \in Rows |-> <<>>]
      /\ compute' =
           IF compute.s + 1 < NumSubblocks
           THEN [compute EXCEPT !.s = compute.s + 1,
                                !.pc = IF InBiasLoop THEN "bias"
                                       ELSE SubblockStart(compute.reload)]
           ELSE [compute EXCEPT !.s = 0,
                                !.pc = IF InBiasLoop THEN AfterBias
                                       ELSE "fold"]
  BY DEF PushSubblock
<1>2. /\ Offset \in Nat /\ BlockStrips \in Nat /\ args.rows \in Nat \ {0}
      /\ Offset + args.rows <= BlockStrips
      /\ Offset + args.rows = BlockStrips <=> compute.s + 1 = NumSubblocks
      /\ (compute.s + 1) * args.rows = Offset + args.rows
      /\ NumSubblocks \in Nat /\ compute.s \in 0 .. NumSubblocks - 1
  BY StateFacts, Variant, Offsets DEF FusedDataInv
<1>3. compute'.b = compute.b /\ compute'.k = compute.k
      /\ compute'.reload = compute.reload
  BY <1>1, ComputeIs DEF FusedDataInv
<1>4. /\ LastOut' = LastOut /\ InBiasLoop' = InBiasLoop /\ Target' = Target
      /\ PartMem' = PartMem /\ Rows' = Rows /\ BlockStrips' = BlockStrips
      /\ Strips' = Strips /\ RowStrips' = RowStrips
      /\ MemoryOf(Target)' = MemoryOf(Target)
  BY <1>1, <1>3, SameBlock, SameVariant DEF Strips, MemoryOf
<1>5. \A p : /\ NextSum(p)' = NextSum(p)
             /\ Sum(compute.b, compute.k, p)' = Sum(compute.b, compute.k, p)
  <2>1. /\ \A b, p : FinalValue(b, p)' = FinalValue(b, p)
        /\ \A b, n, p : Sum(b, n, p)' = Sum(b, n, p)
    BY <1>1 DEF FinalValue, Sum, Mul
  <2> QED
    BY <1>1, <1>3, <1>4, <2>1 DEF NextSum
<1>6. Passed = Offset + args.rows /\ \A p \in Strips : SumAt(p)
  BY <1>1 DEF FusedDataInv, ValuesInv, SumsPlace, InSubblock, Passed
<1>7. compute.b # WriterAt + 1 /\ compute'.b # WriterAt' + 1
  <2>1. WriterAt' = WriterAt
    BY <1>1 DEF WriterAt
  <2> QED
    BY <1>1, <1>3, <2>1, LoopMeansStored DEF FusedDataInv, InSubblock
<1>8. CASE compute.s + 1 < NumSubblocks
  <2>1. /\ compute'.pc = (IF InBiasLoop THEN "bias"
                          ELSE SubblockStart(compute.reload))
        /\ compute'.s = compute.s + 1
    BY <1>1, <1>8, ComputeIs DEF FusedDataInv
  <2>2. /\ compute'.pc \in {"bias", "reload", "math"}
        /\ compute'.pc = "bias" <=> InBiasLoop
        /\ compute'.pc = "math" => ~compute.reload /\ ~InBiasLoop
    BY <2>1 DEF SubblockStart
  <2>3. Offset' = Offset + args.rows
    BY <1>1, <1>2, <2>1 DEF Offset
  <2>4. Passed' = Offset + args.rows
    BY <2>2, <2>3 DEF Passed
  <2>5. \A p \in Strips : SumAt(p)'
    BY <1>1, <1>4, <1>5, <1>6, <2>4 DEF SumAt
  <2>6. SumsPlace'
    BY <1>4, <2>2, <2>5 DEF SumsPlace
  <2>7. PackerPlace'
    BY <1>1, <1>4, <2>2
    DEF FusedDataInv, ValuesInv, PackerPlace, InSubblock, AfterReload
  <2>8. DstPlace'
    BY <1>1, <1>3, <1>4, <2>2 DEF DstPlace, Reloaded
  <2>9. OutputsPlace'
    BY <1>7, <2>2 DEF OutputsPlace
  <2> QED
    BY <2>6, <2>7, <2>8, <2>9 DEF ValuesInv
<1>9. CASE ~(compute.s + 1 < NumSubblocks)
  <2>1. /\ compute'.pc = (IF InBiasLoop THEN AfterBias ELSE "fold")
        /\ compute'.s = 0
    BY <1>1, <1>9, ComputeIs DEF FusedDataInv
  <2>2. Offset + args.rows = BlockStrips
    <3>1. compute.s + 1 = NumSubblocks
      BY <1>2, <1>9
    <3> QED
      BY <1>2, <3>1
  <2>3. \A p \in Strips : l1[MemoryOf(Target)][p] = NextSum(p)
    <3>1. \A p \in Strips : p < Passed
      BY <1>2, <1>6, <2>2 DEF Strips
    <3> QED
      BY <1>6, <3>1 DEF SumAt
  <2>4. CASE ~InBiasLoop
    <3>1. compute'.pc = "fold"
      BY <2>1, <2>4
    <3>2. Passed' = BlockStrips
      BY <1>4, <3>1 DEF Passed
    <3>3. \A p \in Strips : SumAt(p)'
      <4>1. \A p \in Strips : ~(p >= BlockStrips)
        BY <1>2 DEF Strips
      <4> QED
        BY <1>1, <1>4, <1>5, <2>3, <3>2, <4>1 DEF SumAt
    <3>4. SumsPlace'
      BY <1>4, <3>1, <3>3 DEF SumsPlace
    <3>5. PackerPlace'
      BY <1>1, <1>4, <2>4, <3>1
      DEF FusedDataInv, ValuesInv, PackerPlace, InSubblock, AfterReload
    <3>6. DstPlace' /\ OutputsPlace'
      BY <1>7, <3>1 DEF DstPlace, OutputsPlace
    <3> QED
      BY <3>4, <3>5, <3>6 DEF ValuesInv
  <2>5. CASE InBiasLoop
    <3>1. /\ args.untilize => compute'.pc = "untilize"
          /\ ~args.untilize => compute'.pc = "batchEnd"
      BY <2>1, <2>5 DEF AfterBias
    <3>2. \A p \in Strips :
            l1[MemoryOf(Target)][p] = FinalValue(compute.b, p)
      BY <2>3, <2>5 DEF NextSum
    <3>3. PackerPlace' /\ DstPlace'
      BY <3>1 DEF PackerPlace, DstPlace, InSubblock, AfterReload
    <3>4. \A b, p : FinalValue(b, p)' = FinalValue(b, p)
      BY <1>1 DEF FinalValue
    <3>5. SumsPlace'
      <4>1. args.untilize => MemoryOf(Target) = PartMem
        BY TargetFacts DEF FusedDataInv, MemoryOf
      <4> QED
        BY <1>1, <1>3, <1>4, <3>1, <3>2, <3>4, <4>1
        DEF SumsPlace, InSubblock
    <3>6. OutputsPlace'
      <4>1. CASE args.untilize
        <5>1. compute'.pc = "untilize" /\ Produced' = 0 * RowStrips
          BY <1>4, <2>1, <3>1, <4>1 DEF Produced
        <5>2. RowStrips \in Nat
          BY StateFacts, Variant DEF FusedDataInv
        <5>3. Produced' = 0
          BY <5>1, <5>2
        <5>4. \A j \in Strips : ~(j < 0)
          BY <1>2 DEF Strips
        <5> QED
          BY <1>4, <1>7, <5>3, <5>4 DEF OutputsPlace
      <4>2. CASE ~args.untilize
        <5>1. MemoryOf(Target) = "out"
          BY <2>5, <4>2 DEF Target, UntilizeModeOut, MemoryOf
        <5>2. \A j : StripAt(j)' = j
          BY <1>1, <4>2 DEF StripAt
        <5> QED
          BY <1>1, <1>3, <1>4, <1>7, <3>2, <3>4, <5>1, <5>2
          DEF OutputsPlace
      <4> QED
        BY <4>1, <4>2
    <3> QED
      BY <3>3, <3>5, <3>6 DEF ValuesInv
  <2> QED
    BY <2>4, <2>5
<1> QED
  BY <1>8, <1>9

LEMMA EndBlockValues ==
  ASSUME FusedDataInv, EndBlock
  PROVE  ValuesInv'
<1>1. /\ UNCHANGED <<args, rw, packer, l1, dst>> /\ compute.pc = "fold"
  BY FoldNext DEF EndBlock, FusedDataInv
<1>2. /\ compute'.pc = (IF ~LastOut THEN "wait"
                        ELSE IF args.bias THEN "bias" ELSE AfterBias)
      /\ compute'.b = compute.b /\ compute'.k = compute.k + 1
      /\ compute'.s = 0
  BY FoldNext DEF FusedDataInv
<1>3. /\ compute.k \in Nat /\ args.numBlocks \in Nat \ {0}
      /\ compute.k < args.numBlocks /\ args.rows \in Nat
      /\ BlockStrips \in Nat /\ RowStrips \in Nat
      /\ LastOut <=> compute.k + 1 = args.numBlocks
  <2>1. /\ compute.k \in Nat /\ args.numBlocks \in Nat \ {0}
        /\ args.rows \in Nat /\ BlockStrips \in Nat /\ RowStrips \in Nat
    BY StateFacts, Variant DEF FusedDataInv
  <2>2. compute.k < args.numBlocks
    BY <1>1, FoldFacts DEF FusedDataInv
  <2>3. LastOut <=> compute.k + 1 = args.numBlocks
    BY <2>1 DEF LastOut
  <2> QED
    BY <2>1, <2>2, <2>3
<1>4. /\ PartMem' = PartMem /\ Strips' = Strips /\ RowStrips' = RowStrips
      /\ BlockStrips' = BlockStrips
      /\ \A b, p : FinalValue(b, p)' = FinalValue(b, p)
  BY <1>1, SameVariant DEF Strips, FinalValue
<1>5. ~InBiasLoop
  BY <1>3 DEF InBiasLoop
<1>6. \A p \in Strips : l1[MemoryOf(Target)][p] = NextSum(p)
  <2>1. \A p \in Strips : SumAt(p)
    BY <1>1 DEF FusedDataInv, ValuesInv, SumsPlace
  <2>2. \A p \in Strips : p < Passed
    BY <1>1, <1>3 DEF Strips, Passed
  <2> QED
    BY <2>1, <2>2 DEF SumAt
<1>7. packer.relu = (args.act = "relu" /\ ~args.bias /\ LastOut)
  BY <1>1, <1>5 DEF FusedDataInv, ValuesInv, PackerPlace
<1>8. compute'.b # WriterAt' + 1
  <2>1. WriterAt' = WriterAt
    BY <1>1 DEF WriterAt
  <2> QED
    BY <1>1, <1>2, <2>1, LoopMeansStored DEF FusedDataInv
<1>9. ASSUME ~LastOut \/ args.bias
      PROVE  \A p \in Strips :
               l1[PartMem][p] = Sum(compute.b, compute.k + 1, p)
  <2>1. Target = "part"
    BY <1>5, <1>9, TargetFacts DEF FusedDataInv
  <2>2. MemoryOf(Target) = PartMem
    BY <2>1 DEF MemoryOf
  <2>3. \A p : NextSum(p) = Sum(compute.b, compute.k + 1, p)
    BY <1>5, <1>9 DEF NextSum
  <2> QED
    BY <1>6, <2>2, <2>3
<1>10. CASE ~LastOut \/ args.bias
  <2>1. /\ ~LastOut => compute'.pc = "wait"
        /\ LastOut => compute'.pc = "bias"
        /\ compute'.pc \in {"wait", "bias"}
    BY <1>2, <1>10
  <2>2. Passed' = 0
    <3>1. Offset' = 0
      BY <1>1, <1>2, <1>3 DEF Offset
    <3> QED
      BY <2>1, <3>1 DEF Passed
  <2>3. \A p : Sum(compute.b, compute.k, p)'
                 = Sum(compute.b, compute.k + 1, p)
    BY <1>2 DEF Sum
  <2>4. \A p \in Strips : SumAt(p)'
    <3>1. \A p \in Strips : ~(p < 0)
      BY <1>3 DEF Strips
    <3> QED
      BY <1>1, <1>4, <1>9, <1>10, <2>2, <2>3, <3>1 DEF SumAt
  <2>5. SumsPlace'
    BY <1>4, <2>1, <2>4 DEF SumsPlace
  <2>6. PackerPlace'
    <3>1. ~packer.relu
      BY <1>7, <1>10
    <3>2. compute'.pc = "bias" => InBiasLoop'
      BY <1>1, <1>2, <1>3, <2>1 DEF InBiasLoop
    <3> QED
      BY <1>1, <2>1, <3>1, <3>2 DEF PackerPlace, InSubblock, AfterReload
  <2>7. DstPlace' /\ OutputsPlace'
    BY <1>8, <2>1 DEF DstPlace, OutputsPlace
  <2> QED
    BY <2>5, <2>6, <2>7 DEF ValuesInv
<1>11. CASE LastOut /\ ~args.bias
  <2>1. /\ args.untilize => compute'.pc = "untilize"
        /\ ~args.untilize => compute'.pc = "batchEnd"
    BY <1>2, <1>11 DEF AfterBias
  <2>2. \A p \in Strips : l1[MemoryOf(Target)][p] = FinalValue(compute.b, p)
    BY <1>6, <1>11 DEF NextSum
  <2>3. PackerPlace' /\ DstPlace'
    BY <2>1 DEF PackerPlace, DstPlace, InSubblock, AfterReload
  <2>4. SumsPlace'
    <3>1. args.untilize => MemoryOf(Target) = PartMem
      BY TargetFacts DEF FusedDataInv, MemoryOf
    <3> QED
      BY <1>1, <1>2, <1>4, <2>1, <2>2, <3>1 DEF SumsPlace, InSubblock
  <2>5. OutputsPlace'
    <3>1. CASE args.untilize
      <4>1. Produced' = 0 * RowStrips
        BY <1>2, <1>4, <2>1, <3>1 DEF Produced
      <4>2. Produced' = 0
        BY <1>3, <4>1
      <4>3. \A j \in Strips : ~(j < 0)
        BY <1>3 DEF Strips
      <4> QED
        BY <1>4, <1>8, <4>2, <4>3 DEF OutputsPlace
    <3>2. CASE ~args.untilize
      <4>1. MemoryOf(Target) = "out"
        BY <1>5, <1>11, <3>2 DEF Target, MmOut, UntilizeModeOut, MemoryOf
      <4>2. \A j : StripAt(j)' = j
        BY <1>1, <3>2 DEF StripAt
      <4> QED
        BY <1>1, <1>2, <1>4, <1>8, <2>2, <4>1, <4>2 DEF OutputsPlace
    <3> QED
      BY <3>1, <3>2
  <2> QED
    BY <2>3, <2>4, <2>5 DEF ValuesInv
<1> QED
  BY <1>10, <1>11

LEMMA StartRowValues ==
  ASSUME FusedDataInv, StartRow
  PROVE  ValuesInv'
<1>1. /\ UNCHANGED <<args, rw, l1, dst>> /\ compute.pc = "untilize"
      /\ packer' = [relu |-> FALSE, acc |-> FALSE]
      /\ compute' = [compute EXCEPT !.pc = "row", !.h = 0]
  BY DEF StartRow
<1>2. /\ compute'.pc = "row" /\ compute'.b = compute.b
      /\ compute'.s = compute.s /\ compute'.h = 0
  BY <1>1, ComputeIs DEF FusedDataInv
<1>3. /\ PartMem' = PartMem /\ Strips' = Strips /\ RowStrips' = RowStrips
      /\ \A p : FinalValue(compute.b, p)' = FinalValue(compute.b, p)
      /\ WriterAt' = WriterAt
  BY <1>1, <1>2, SameVariant DEF Strips, FinalValue, WriterAt
<1>4. SumsPlace'
  BY <1>1, <1>2, <1>3
  DEF FusedDataInv, ValuesInv, SumsPlace, InSubblock
<1>5. PackerPlace' /\ DstPlace'
  BY <1>1, <1>2 DEF PackerPlace, DstPlace, InSubblock, AfterReload
<1>6. Produced' = Produced
  <2> DEFINE a == compute.s * RowStrips
  <2>1. a \in Nat /\ args.subW \in Nat
    BY <1>1, StateFacts, Variant, RowOffsets DEF FusedDataInv
  <2>2. Produced' = a + 0 * args.subW /\ Produced = a
    BY <1>1, <1>2, <1>3 DEF Produced
  <2> HIDE DEF a
  <2> QED
    BY <2>1, <2>2
<1>7. OutputsPlace'
  BY <1>1, <1>2, <1>3, <1>6, OutputsStay DEF FusedDataInv, ValuesInv
<1> QED
  BY <1>4, <1>5, <1>7 DEF ValuesInv

LEMMA EndBatchValues ==
  ASSUME FusedDataInv, EndBatch
  PROVE  ValuesInv'
<1>1. /\ UNCHANGED <<args, rw, packer, l1, dst>> /\ compute.pc = "batchEnd"
      /\ compute' = [compute EXCEPT !.b = compute.b + 1,
                                    !.pc = IF compute.b + 1 < args.batch
                                           THEN "batch" ELSE "done"]
  BY DEF EndBatch
<1>2. /\ compute'.pc = (IF compute.b + 1 < args.batch THEN "batch" ELSE "done")
      /\ compute'.b = compute.b + 1
  BY <1>1, ComputeIs DEF FusedDataInv
<1>3. compute'.pc \in {"batch", "done"}
  BY <1>2
<1>4. /\ compute.b \in Nat /\ args.batch \in Nat \ {0} /\ BlockStrips \in Nat
  BY StateFacts, Variant DEF FusedDataInv
<1>5. SumsPlace' /\ DstPlace'
  BY <1>3 DEF SumsPlace, DstPlace, InSubblock
<1>6. PackerPlace'
  <2>1. compute'.pc = "batch" => args.batch # 1
    BY <1>2, <1>4
  <2> QED
    BY <1>1, <1>3, <2>1 DEF PackerPlace, InSubblock, AfterReload
<1>7. OutputsPlace'
  <2>1. \A j \in Strips : j < Produced
    BY <1>1, <1>4 DEF Strips, Produced
  <2>2. \A j \in Strips : l1["out"][j] = FinalValue(compute.b, StripAt(j))
    BY <1>1, <2>1 DEF FusedDataInv, ValuesInv, OutputsPlace
  <2>3. compute'.b - 1 = compute.b
    BY <1>2, <1>4
  <2>4. Strips' = Strips
    BY <1>1, SameVariant DEF Strips
  <2>5. /\ \A b, p : FinalValue(b, p)' = FinalValue(b, p)
        /\ \A j : StripAt(j)' = StripAt(j)
    BY <1>1 DEF FinalValue, StripAt
  <2>6. \A j : FinalValue(compute.b - 1, StripAt(j))'
                 = FinalValue(compute.b, StripAt(j))
    BY <2>3, <2>5
  <2> QED
    BY <1>1, <1>3, <2>2, <2>4, <2>6 DEF OutputsPlace
<1> QED
  BY <1>5, <1>6, <1>7 DEF ValuesInv
-------------------------------------------------------------------------------
(* The rows of an untilized output *)

\* The e-th of piece q is found again by division.
LEMMA PieceOf ==
  ASSUME NEW q \in Nat, NEW b \in Nat \ {0}, NEW e \in 0 .. b - 1
  PROVE  (q * b + e) \div b = q /\ (q * b + e) % b = e
<1> DEFINE s == q * b + e
           d == s \div b
           r == s % b
<1>1. s \in Nat
  BY PositiveProduct
<1> HIDE DEF s
<1>2. d \in Nat /\ r \in 0 .. b - 1 /\ s = d * b + r
  BY <1>1
<1> HIDE DEF d, r
<1>3. ASSUME NEW m \in Nat, NEW n \in Nat, NEW x \in 0 .. b - 1,
             NEW y \in 0 .. b - 1, m < n
      PROVE  m * b + x # n * b + y
  <2>1. m \in 0 .. n - 1
    BY <1>3
  <2>2. m * b \in Nat /\ m * b + b <= n * b
    BY <2>1, Pieces
  <2> QED
    BY <1>3, <2>2
<1>4. d = q
  <2>1. d * b + r = q * b + e
    BY <1>2 DEF s
  <2>2. ~(d < q) /\ ~(q < d)
    BY <1>2, <1>3, <2>1
  <2> QED
    BY <1>2, <2>2
<1>5. r = e
  <2> DEFINE p == q * b
  <2>1. p \in Nat /\ p + r = p + e
    BY <1>2, <1>4, PositiveProduct DEF s
  <2> HIDE DEF p
  <2> QED
    BY <1>2, <2>1
<1> QED
  BY <1>4, <1>5 DEF d, r, s

\* The strips of a row come from the subblocks in their order.
LEMMA RowStrip ==
  ASSUME FusedIInv, UntilizeRow, NEW n \in 0 .. args.subW - 1
  PROVE  StripAt(Produced + n)
           = cb.part.rd + StripOfRow(n, compute.h)
<1> DEFINE s == compute.s
           h == compute.h
           w == args.subW
           r == args.rows
<1>1. /\ s \in Nat /\ w \in Nat \ {0} /\ r \in Nat \ {0}
      /\ h \in 0 .. r - 1 /\ n \in 0 .. w - 1
      /\ RowStrips = r * w
  BY StateFacts, Variant
<1>2. /\ args.untilize /\ cb.part.rd = s * RowStrips
      /\ Produced = s * RowStrips + h * w
  BY RowFacts DEF FusedIInv, ComputePlace
<1>3. StripAt(Produced + n)
        = ((((Produced + n) \div w) \div r) * w + ((Produced + n) % w)) * r
            + (((Produced + n) \div w) % r)
  BY <1>2 DEF StripAt
<1> HIDE DEF s, h, w, r
<1>4. Produced + n = (s * r + h) * w + n
  <2>1. s * RowStrips = (s * r) * w
    BY <1>1
  <2>2. (s * r + h) * w = (s * r) * w + h * w
    BY <1>1
  <2> QED
    BY <1>1, <1>2, <2>1, <2>2
<1>5. s * r + h \in Nat
  BY <1>1
<1>6. (Produced + n) \div w = s * r + h /\ (Produced + n) % w = n
  <2> DEFINE q == s * r + h
  <2>1. q \in Nat
    BY <1>5
  <2> HIDE DEF q
  <2>2. (q * w + n) \div w = q /\ (q * w + n) % w = n
    BY <1>1, <2>1, PieceOf
  <2> QED
    BY <1>4, <2>2 DEF q
<1>7. (s * r + h) \div r = s /\ (s * r + h) % r = h
  BY <1>1, PieceOf
<1>8. StripAt(Produced + n) = (s * w + n) * r + h
  BY <1>3, <1>6, <1>7
<1>9. (s * w + n) * r = s * RowStrips + n * r
  <2>1. (s * w + n) * r = (s * w) * r + n * r
    BY <1>1
  <2>2. (s * w) * r = s * (r * w)
    BY <1>1
  <2> QED
    BY <1>1, <2>1, <2>2
<1>10. cb.part.rd + StripOfRow(n, compute.h) = s * RowStrips + (n * r + h)
  BY <1>2 DEF StripOfRow, r, h
<1>11. s * RowStrips \in Nat /\ n * r \in Nat /\ h \in Nat
  BY <1>1
<1> QED
  <2> DEFINE x == s * RowStrips
             y == n * r
  <2>1. x \in Nat /\ y \in Nat /\ h \in Nat
    BY <1>11
  <2>2. /\ StripAt(Produced + n) = (x + y) + h
        /\ cb.part.rd + StripOfRow(n, compute.h) = x + (y + h)
    BY <1>8, <1>9, <1>10
  <2> HIDE DEF x, y
  <2> QED
    BY <2>1, <2>2

\* A row leaves CB24, unless it is CB16's memory, and then each of its strips
\* stays where it is.
LEMMA RowWritten ==
  ASSUME FusedDataInv, UntilizeRow
  PROVE  /\ \A j \in Strips :
              l1'["out"][j] =
                IF j - Produced \in 0 .. args.subW - 1
                THEN FinalValue(compute.b, StripAt(j)) ELSE l1["out"][j]
         /\ \A p \in Strips : l1'[PartMem][p] = FinalValue(compute.b, p)
<1> DEFINE Read(i) == l1[PartMem][cb.part.rd
                         + StripOfRow(i - cb.out.wr, compute.h)]
<1>1. /\ compute.pc = "row" /\ cb.out.wr = Produced
      /\ Produced \in Nat
  BY RowFacts DEF FusedDataInv
<1>2. /\ BlockStrips \in Nat /\ args.subW \in Nat \ {0}
      /\ l1 \in [{"out", "part"} -> [Strips -> Value]]
      /\ PartMem \in {"out", "part"}
  BY StateFacts, Variant, TargetFacts DEF FusedDataInv, Memories, Strips
<1>3. \A v, old : Packed(packer, v, old) = v
  BY <1>1 DEF FusedDataInv, ValuesInv, PackerPlace, Packed
<1>4. \A p \in Strips : l1[PartMem][p] = FinalValue(compute.b, p)
  BY <1>1 DEF FusedDataInv, ValuesInv, SumsPlace
<1>5. ASSUME NEW j \in Strips, j - Produced \in 0 .. args.subW - 1
      PROVE  Read(j) = FinalValue(compute.b, StripAt(j))
  <2> DEFINE n == j - Produced
  <2>1. n \in 0 .. args.subW - 1 /\ Produced + n = j
    BY <1>1, <1>2, <1>5 DEF Strips
  <2> HIDE DEF n
  <2>2. /\ StripAt(j) = cb.part.rd + StripOfRow(n, compute.h)
        /\ StripAt(j) \in Strips
    BY <2>1, RowStrip, RowReads DEF FusedDataInv, Strips
  <2> QED
    BY <1>1, <1>4, <2>2 DEF n
<1>6. l1' = [l1 EXCEPT
               !["out"] = [i \in Strips |->
                             IF i - Produced \in 0 .. args.subW - 1
                             THEN Read(i) ELSE l1["out"][i]]]
  <2>1. l1' = [l1 EXCEPT
                 !["out"] = [i \in DOMAIN l1["out"] |->
                    IF i - cb.out.wr \in 0 .. args.subW - 1
                    THEN Packed(packer, Read(i), l1["out"][i])
                    ELSE l1["out"][i]]]
    BY DEF UntilizeRow
  <2>2. DOMAIN l1["out"] = Strips
    BY <1>2
  <2> HIDE DEF Read
  <2> QED
    BY <1>1, <1>3, <2>1, <2>2
<1> HIDE DEF Read
<1>7. \A j \in Strips :
        l1'["out"][j] = IF j - Produced \in 0 .. args.subW - 1
                        THEN FinalValue(compute.b, StripAt(j))
                        ELSE l1["out"][j]
  BY <1>2, <1>5, <1>6
<1>8. ASSUME NEW p \in Strips
      PROVE  l1'[PartMem][p] = FinalValue(compute.b, p)
  <2>1. CASE PartMem = "part"
    <3>1. l1'[PartMem] = l1[PartMem]
      BY <1>2, <1>6, <2>1
    <3> QED
      BY <1>4, <3>1
  <2>2. CASE PartMem = "out"
    <3>1. CASE p - Produced \in 0 .. args.subW - 1
      <4>1. args.subW = 1 /\ args.untilize
        BY <1>1, <2>2, StateFacts, Variant
        DEF PartMem, FusedDataInv, FusedIInv, ComputePlace
      <4>2. args.rows \in Nat \ {0} /\ p \in Nat
        BY <1>2, StateFacts, Variant DEF FusedDataInv, Strips
      <4>3. StripAt(p) = (p \div args.rows) * args.rows + (p % args.rows)
        <5>1. p \div 1 = p /\ p % 1 = 0
          BY <4>2
        <5>2. (p \div args.rows) * 1 + 0 = p \div args.rows
          BY <4>2
        <5> QED
          BY <4>1, <5>1, <5>2 DEF StripAt
      <4>4. \A x \in Nat, r \in Nat \ {0} : (x \div r) * r + (x % r) = x
        OBVIOUS
      <4>5. StripAt(p) = p
        BY <4>2, <4>3, <4>4
      <4> QED
        BY <1>7, <2>2, <3>1, <4>5
    <3>2. CASE p - Produced \notin 0 .. args.subW - 1
      BY <1>4, <1>7, <2>2, <3>2
    <3> QED
      BY <3>1, <3>2
  <2> QED
    BY <1>2, <2>1, <2>2
<1> QED
  BY <1>7, <1>8

LEMMA UntilizeRowValues ==
  ASSUME FusedDataInv, UntilizeRow
  PROVE  ValuesInv'
<1>1. /\ UNCHANGED <<args, rw, packer, dst>>
  BY DEF UntilizeRow
<1>2. /\ compute.pc = "row" /\ Produced \in Nat /\ compute.b = WriterAt
      /\ BlockStrips \in Nat /\ args.subW \in Nat /\ WriterAt \in Nat
  BY RowFacts, StateFacts, Variant DEF FusedDataInv, WriterAt
<1>3. /\ compute'.b = compute.b
      /\ compute'.pc \in {"row", "untilize", "batchEnd"}
      /\ Produced' = Produced + args.subW
  BY RowAdvance DEF FusedDataInv
<1>4. /\ \A j \in Strips :
           l1'["out"][j] = IF j - Produced \in 0 .. args.subW - 1
                           THEN FinalValue(compute.b, StripAt(j))
                           ELSE l1["out"][j]
      /\ \A p \in Strips : l1'[PartMem][p] = FinalValue(compute.b, p)
  BY RowWritten
<1>5. /\ PartMem' = PartMem /\ Strips' = Strips /\ WriterAt' = WriterAt
      /\ \A b, p : FinalValue(b, p)' = FinalValue(b, p)
      /\ \A j : StripAt(j)' = StripAt(j)
  BY <1>1, SameVariant DEF Strips, FinalValue, StripAt, WriterAt
<1>6. SumsPlace'
  BY <1>3, <1>4, <1>5 DEF SumsPlace, InSubblock
<1>7. PackerPlace' /\ DstPlace'
  BY <1>1, <1>2, <1>3
  DEF FusedDataInv, ValuesInv, PackerPlace, DstPlace, InSubblock, AfterReload
<1>8. OutputsPlace'
  <2>1. compute'.b # WriterAt' + 1
    BY <1>2, <1>3, <1>5
  <2>2. ASSUME NEW j \in Strips, j < Produced + args.subW
        PROVE  l1'["out"][j] = FinalValue(compute.b, StripAt(j))
    <3>1. CASE j - Produced \in 0 .. args.subW - 1
      BY <1>4, <3>1
    <3>2. CASE j - Produced \notin 0 .. args.subW - 1
      <4>1. j < Produced
        BY <1>2, <2>2, <3>2 DEF Strips
      <4> QED
        BY <1>2, <1>4, <3>2, <4>1 DEF FusedDataInv, ValuesInv, OutputsPlace
    <3> QED
      BY <3>1, <3>2
  <2> QED
    BY <1>3, <1>5, <2>1, <2>2 DEF OutputsPlace
<1> QED
  BY <1>6, <1>7, <1>8 DEF ValuesInv
-------------------------------------------------------------------------------
(* Every step *)

\* The feeding of the bias, and a stutter.
LEMMA StutterValues ==
  ASSUME FusedDataInv, FeedBias \/ UNCHANGED fusedVars
  PROVE  ValuesInv' /\ WrittenPlace'
<1>1. UNCHANGED <<args, in0, rw, compute, packer, cb, l1, dst, written>>
  BY DEF FeedBias, fusedVars
<1>2. SumsPlace' /\ PackerPlace' /\ DstPlace'
  BY <1>1, ValuesStay DEF FusedDataInv, ValuesInv
<1>3. OutputsPlace'
  BY <1>1, ProducedStays, OutputsStay DEF FusedDataInv, ValuesInv, WriterAt
<1>4. WrittenPlace'
  BY <1>1, WrittenStays DEF FusedDataInv
<1> QED
  BY <1>2, <1>3, <1>4 DEF ValuesInv

\* The steps of the compute kernel hand nothing to the writer's destination.
LEMMA ComputeKeepsWritten ==
  ASSUME ComputeStep
  PROVE  UNCHANGED <<args, rw, written>>
  BY DEF ComputeStep, StartBatch, WaitOperands, Reload, MatmulBlock,
     PackPartial, PackFinal, PushSubblock, EndBlock, AddBias, StartRow,
     UntilizeRow, EndBatch

LEMMA FusedNextData ==
  ASSUME FusedDataInv, [FusedNext]_fusedVars
  PROVE  FusedDataInv'
<1>1. FusedIInv'
  BY FusedNextIInv DEF FusedDataInv
<1>2. CASE In0Feed \/ RWStep
  BY <1>1, <1>2, FeedValues, StoreStripsValues DEF RWStep, FusedDataInv
<1>3. CASE ComputeStep
  <2>1. ValuesInv'
    BY <1>3, StartBatchValues, WaitOperandsValues, ReloadValues,
       MatmulBlockValues, PackPartialValues, PackFinalValues,
       PushSubblockValues, EndBlockValues, AddBiasValues, StartRowValues,
       UntilizeRowValues, EndBatchValues DEF ComputeStep
  <2>2. WrittenPlace'
    BY <1>3, ComputeKeepsWritten, WrittenStays DEF FusedDataInv
  <2> QED
    BY <1>1, <2>1, <2>2 DEF FusedDataInv
<1>4. CASE FeedBias \/ FusedFinished \/ UNCHANGED fusedVars
  BY <1>1, <1>4, StutterValues DEF FusedFinished, FusedDataInv
<1> QED
  BY <1>2, <1>3, <1>4 DEF FusedNext

\* What every strip of CB16, of CB24 and of DST holds, in every state: at each
\* place the products of the K blocks so far, the bias and the activation.
THEOREM FusedDataInvariant == FusedSpec => []FusedDataInv
<1>1. FusedInit => FusedDataInv
  BY FusedInitIInv, InitValues DEF FusedDataInv
<1>2. FusedDataInv /\ [FusedNext]_fusedVars => FusedDataInv'
  BY FusedNextData
<1> QED
  BY <1>1, <1>2, PTL DEF FusedSpec
-------------------------------------------------------------------------------
(* What has been handed over *)

LEMMA StripInBlock ==
  ASSUME args \in FusedPrograms, NEW i \in Strips
  PROVE  StripAt(i) \in Nat
<1>1. /\ args.subW \in Nat \ {0} /\ args.rows \in Nat \ {0} /\ i \in Nat
  BY Variant DEF Strips
<1>2. \A x \in Nat, d \in Nat \ {0} : x \div d \in Nat /\ x % d \in Nat
  OBVIOUS
<1>3. \A x \in Nat, y \in Nat : x * y \in Nat /\ x + y \in Nat
  OBVIOUS
<1> DEFINE row == i \div args.subW
<1>4. row \in Nat /\ i % args.subW \in Nat
  BY <1>1, <1>2
<1> HIDE DEF row
<1>5. row \div args.rows \in Nat /\ row % args.rows \in Nat
  BY <1>1, <1>2, <1>4
<1>6. (row \div args.rows) * args.subW + (i % args.subW) \in Nat
  BY <1>1, <1>3, <1>4, <1>5
<1>7. ((row \div args.rows) * args.subW + (i % args.subW)) * args.rows
        + (row % args.rows) \in Nat
  BY <1>1, <1>3, <1>5, <1>6
<1> QED
  BY <1>1, <1>7 DEF StripAt, row

LEMMA WantedFacts ==
  ASSUME args \in FusedPrograms
  PROVE  /\ DOMAIN Wanted = 0 .. args.batch - 1
         /\ \A b \in 0 .. args.batch - 1 :
              /\ DOMAIN Wanted[b] = Strips
              /\ \A i \in Strips :
                   /\ Wanted[b][i] = FinalValue(b, StripAt(i))
                   /\ Wanted[b][i] # NotWritten
<1>1. Wanted = [b \in 0 .. args.batch - 1 |->
                  [i \in Strips |-> FinalValue(b, StripAt(i))]]
  BY DEF Wanted, Strips
<1>2. \A b \in 0 .. args.batch - 1, i \in Strips :
        FinalValue(b, StripAt(i)) # NotWritten
  <2>1. \A b \in 0 .. args.batch - 1 : b \in Nat
    BY Variant
  <2> QED
    BY <2>1, StripInBlock, FinalTyped, NotWrittenAssumption
<1> QED
  BY <1>1, <1>2

\* What a kernel leaves in CB16 for nobody to drain.
LEMMA LeftInCB16 ==
  ASSUME FusedDataInv, ~args.drained, NEW i \in Strips, i < cb.out.cnt
  PROVE  l1["out"][i] = FinalValue(0, StripAt(i))
<1>1. rw.stored = 0 /\ WriterAt = 0
  BY DEF FusedDataInv, FusedIInv, RWPlace, WriterAt
<1>2. BlockStrips \in Nat /\ Produced \in Nat /\ i \in Nat
  BY StateFacts, Variant, ProducedRange DEF FusedDataInv, Strips
<1>3. CASE InStep
  <2>1. compute.b = 0 /\ cb.out = Ring(0, Produced, 0, BlockStrips)
    BY <1>1, <1>3 DEF InStep
  <2>2. cb.out.cnt = 0 + Produced - 0
    BY <2>1, RingFields
  <2>3. i < Produced
    BY <1>2, <2>2
  <2> QED
    BY <2>1, <2>3, ProducedIsFinal
<1>4. CASE WriterBehind
  <2>1. compute.b = WriterAt + 1 /\ compute.b - 1 = 0
    BY <1>1, <1>4 DEF WriterBehind
  <2> QED
    BY <2>1 DEF FusedDataInv, ValuesInv, OutputsPlace
<1>5. CASE WriterAhead
  <2>1. cb.out.cnt = 0
    BY <1>5 DEF WriterAhead, EmptyCB
  <2> QED
    BY <1>2, <2>1
<1> QED
  BY <1>3, <1>4, <1>5 DEF FusedDataInv, FusedIInv

LEMMA HandedIsAvailable ==
  ASSUME FusedDataInv
  PROVE  AvailableIs
<1>1. args \in FusedPrograms
  BY StateFacts DEF FusedDataInv
<1>2. CASE args.drained
  <2>1. Available = [b \in 0 .. args.batch - 1 |->
                       [i \in Strips |-> IF Stored(b, i)
                                         THEN FinalValue(b, StripAt(i))
                                         ELSE NotWritten]]
    BY <1>2 DEF Available, FusedDataInv, WrittenPlace
  <2>2. \A b \in 0 .. args.batch - 1 :
          [i \in Strips |-> IF Stored(b, i) THEN FinalValue(b, StripAt(i))
                            ELSE NotWritten]
            = [i \in Strips |-> IF Handed(b, i) THEN Wanted[b][i]
                                ELSE NotWritten]
    BY <1>1, <1>2, WantedFacts DEF Handed
  <2> QED
    BY <2>1, <2>2 DEF AvailableIs
<1>3. CASE ~args.drained
  <2>1. args.batch = 1 /\ 0 .. args.batch - 1 = {0}
    BY <1>1, <1>3, Variant
  <2>2. Available = [b \in {0} |-> [i \in Strips |->
                                     IF i < cb.out.cnt THEN l1["out"][i]
                                     ELSE NotWritten]]
    BY <1>3 DEF Available, Strips
  <2>3. \A i \in Strips : i < cb.out.cnt => l1["out"][i] = Wanted[0][i]
    BY <1>1, <1>3, <2>1, LeftInCB16, WantedFacts
  <2>4. [i \in Strips |-> IF i < cb.out.cnt THEN l1["out"][i] ELSE NotWritten]
          = [i \in Strips |-> IF Handed(0, i) THEN Wanted[0][i]
                              ELSE NotWritten]
    BY <1>3, <2>3 DEF Handed
  <2> QED
    BY <2>1, <2>2, <2>4 DEF AvailableIs
<1> QED
  BY <1>2, <1>3


\* Without a writer CB16 is never popped.
LEMMA OutputGrows ==
  ASSUME FusedIInv, ~args.drained, [FusedNext]_fusedVars
  PROVE  cb.out.cnt \in Nat /\ cb'.out.cnt \in Nat /\ cb.out.cnt <= cb'.out.cnt
<1>1. /\ cb.out.cnt \in Nat /\ cb.out \in CB(BlockStrips)
      /\ args.rows \in Nat /\ args.subW \in Nat /\ BlockStrips \in Nat
  BY StateFacts, Variant DEF CB
<1>2. cb = [c \in {"in0", "in1", "out", "part"} |-> cb[c]]
  BY DEF FusedIInv, CBsTyped
<1>3. ~StoreStrips
  <2>1. rw.k < args.numBlocks
    BY DEF FusedIInv, RWPlace
  <2>2. args.numBlocks \in Nat
    BY StateFacts, Variant
  <2> QED
    BY <2>1, <2>2 DEF StoreStrips
<1>4. CASE PushSubblock
  <2>1. cb' = [cb EXCEPT ![Target] = PushBack(cb[Target], args.rows,
                                              BlockStrips)]
    BY <1>4 DEF PushSubblock
  <2>2. CASE Target = "out"
    <3>1. cb'.out = PushBack(cb.out, args.rows, BlockStrips)
      BY <1>2, <2>1, <2>2
    <3>2. cb'.out.cnt = cb.out.cnt + args.rows
      BY <1>1, <3>1 DEF PushBack, CB
    <3> QED
      BY <1>1, <3>2
  <2>3. CASE Target # "out"
    <3>1. cb'.out = cb.out
      BY <1>2, <2>1, <2>3
    <3> QED
      BY <1>1, <3>1
  <2> QED
    BY <2>2, <2>3
<1>5. CASE UntilizeRow
  <2>1. /\ cb.out = Ring(0, Produced, rw.stored, BlockStrips)
        /\ cb'.out = Ring(0, Produced + args.subW, rw.stored, BlockStrips)
        /\ Produced \in Nat
    BY <1>5, RowFacts, RowMoves
  <2>2. rw.stored \in Nat
    BY StateFacts
  <2>3. /\ cb.out.cnt = 0 + Produced - rw.stored
        /\ cb'.out.cnt = 0 + (Produced + args.subW) - rw.stored
    BY <2>1, RingFields
  <2> QED
    BY <1>1, <2>1, <2>2, <2>3
<1>6. CASE ~PushSubblock /\ ~UntilizeRow
  <2>1. cb'.out = cb.out
    <3>1. CASE In0Feed
      BY <1>2, <3>1 DEF In0Feed
    <3>2. CASE In1Feed
      BY <1>2, <3>2 DEF In1Feed
    <3>3. CASE Reload \/ AddBias
      BY <1>2, <3>3 DEF Reload, AddBias
    <3>4. CASE EndBlock
      BY <1>2, <3>4 DEF EndBlock
    <3>5. CASE UNCHANGED cb
      BY <3>5
    <3> QED
      BY <1>3, <1>6, <3>1, <3>2, <3>3, <3>4, <3>5
      DEF FusedNext, RWStep, ComputeStep, StartBatch, WaitOperands,
          MatmulBlock, PackPartial, PackFinal, StartRow, EndBatch, FeedBias,
          FusedFinished, fusedVars
  <2> QED
    BY <1>1, <2>1
<1> QED
  BY <1>4, <1>5, <1>6

\* What has been handed over stays so, and a step hands over strips of one
\* batch element only.
LEMMA HandedStays ==
  ASSUME FusedDataInv, [FusedNext]_fusedVars
  PROVE  \E o \in 0 .. args.batch - 1 :
           \A b \in 0 .. args.batch - 1, i \in Strips :
             /\ Handed(b, i) => Handed(b, i)'
             /\ b # o => (Handed(b, i)' => Handed(b, i))
<1>1. /\ args.batch \in Nat \ {0} /\ BlockStrips \in Nat
      /\ args.rows \in Nat \ {0} /\ rw.stored \in Nat
      /\ rw.b \in 0 .. args.batch
      /\ ~args.drained => args.batch = 1
  BY StateFacts, Variant DEF FusedDataInv
<1>2. args' = args
  BY DEF FusedNext, RWStep, In0Feed, In1Feed, StoreStrips, ComputeStep,
     StartBatch, WaitOperands, Reload, MatmulBlock, PackPartial, PackFinal,
     PushSubblock, EndBlock, AddBias, StartRow, UntilizeRow, EndBatch,
     FeedBias, FusedFinished, fusedVars
<1>3. CASE ~args.drained
  <2>1. cb.out.cnt \in Nat /\ cb'.out.cnt \in Nat /\ cb.out.cnt <= cb'.out.cnt
    BY <1>3, OutputGrows DEF FusedDataInv
  <2>2. \A b, i : /\ Handed(b, i) <=> i < cb.out.cnt
                  /\ Handed(b, i)' <=> i < cb'.out.cnt
    BY <1>2, <1>3 DEF Handed
  <2>3. \A i \in Strips : i < cb.out.cnt => i < cb'.out.cnt
    BY <1>1, <2>1 DEF Strips
  <2>4. \A b \in 0 .. args.batch - 1 : b = 0
    BY <1>1, <1>3
  <2>5. 0 \in 0 .. args.batch - 1
    BY <1>1
  <2> QED
    BY <2>2, <2>3, <2>4, <2>5
<1>4. CASE args.drained /\ ~StoreStrips
  <2>1. rw'.b = rw.b /\ rw'.stored = rw.stored
    <3>1. CASE In1Feed
      <4>1. rw' = [rw EXCEPT !.k = rw.k + 1]
        BY <1>4, <3>1 DEF In1Feed
      <4> QED
        BY <4>1, RWIs DEF FusedDataInv
    <3>2. CASE ~In1Feed
      <4>1. rw' = rw
        BY <1>4, <3>2, ComputeKeepsWritten
        DEF FusedNext, RWStep, In0Feed, FeedBias, FusedFinished, fusedVars
      <4> QED
        BY <4>1
    <3> QED
      BY <3>1, <3>2
  <2>2. \A b, i : Handed(b, i)' <=> Handed(b, i)
    BY <1>2, <1>4, <2>1 DEF Handed, Stored
  <2>3. 0 \in 0 .. args.batch - 1
    BY <1>1
  <2> QED
    BY <2>2, <2>3
<1>5. CASE args.drained /\ StoreStrips
  <2>1. rw.b \in 0 .. args.batch - 1
    BY <1>1, <1>5 DEF StoreStrips
  <2>2. rw.stored + args.rows <= BlockStrips
    BY <1>5, StoreFacts DEF FusedDataInv
  <2>3. /\ rw.stored + args.rows < BlockStrips =>
             rw'.b = rw.b /\ rw'.stored = rw.stored + args.rows
        /\ ~(rw.stored + args.rows < BlockStrips) =>
             rw'.b = rw.b + 1 /\ rw'.stored = 0
    BY <1>5, RWIs DEF StoreStrips, FusedDataInv
  <2>4. \A b, i : /\ Handed(b, i) <=> b < rw.b \/ (b = rw.b /\ i < rw.stored)
                  /\ Handed(b, i)' <=>
                       b < rw'.b \/ (b = rw'.b /\ i < rw'.stored)
    BY <1>2, <1>5 DEF Handed, Stored
  <2>5. ASSUME NEW b \in 0 .. args.batch - 1, NEW i \in Strips
        PROVE  /\ Handed(b, i) => Handed(b, i)'
               /\ b # rw.b => (Handed(b, i)' => Handed(b, i))
    <3>1. b \in Nat /\ i \in Nat
      BY <1>1 DEF Strips
    <3>2. CASE rw.stored + args.rows < BlockStrips
      BY <1>1, <2>3, <2>4, <3>1, <3>2
    <3>3. CASE ~(rw.stored + args.rows < BlockStrips)
      <4>1. rw'.b = rw.b + 1 /\ rw'.stored = 0
        BY <2>3, <3>3
      <4>2. ~(i < 0)
        BY <3>1
      <4> QED
        BY <1>1, <2>4, <3>1, <4>1, <4>2
    <3> QED
      BY <3>2, <3>3
  <2> QED
    BY <2>1, <2>5
<1> QED
  BY <1>3, <1>4, <1>5

(* For every set of variants the kernel implements what OutputBlocks       *)
(* promises, but for its fairness: each strip is handed over once, at its  *)
(* place in the tiled or the untilized output, with every product once,    *)
(* the bias once and the activation last, and does not change any more.    *)
THEOREM FusedImplementsOutputBlocks ==
  FusedSpec => Promised!Init /\ [][Promised!Next]_(Promised!vars)
<1>1. FusedInit => Promised!Init
  <2> SUFFICES ASSUME FusedInit PROVE Promised!Init
    OBVIOUS
  <2>1. FusedDataInv
    BY FusedInitIInv, InitValues DEF FusedDataInv
  <2>2. args \in FusedPrograms /\ BlockStrips \in Nat
    BY <2>1, StateFacts, Variant DEF FusedDataInv
  <2>3. \A b \in 0 .. args.batch - 1, i \in Strips : ~Handed(b, i)
    <3>1. rw.b = 0 /\ rw.stored = 0 /\ cb.out.cnt = 0
      BY DEF FusedInit, EmptyCB
    <3>2. args.batch \in Nat
      BY <2>2, Variant
    <3> QED
      BY <2>2, <3>1, <3>2 DEF Handed, Stored, Strips
  <2>4. Available = [b \in 0 .. args.batch - 1 |->
                       [i \in Strips |-> NotWritten]]
    BY <2>1, <2>3, HandedIsAvailable DEF AvailableIs
  <2>5. [b \in DOMAIN Wanted |-> [i \in DOMAIN Wanted[b] |-> NotWritten]]
          = [b \in 0 .. args.batch - 1 |-> [i \in Strips |-> NotWritten]]
    BY <2>2, WantedFacts
  <2> QED
    BY <2>4, <2>5 DEF Promised!Init
<1>2. FusedDataInv => AvailableIs
  BY HandedIsAvailable
<1>3. FusedDataInv /\ AvailableIs /\ AvailableIs' /\ [FusedNext]_fusedVars =>
        [Promised!Next]_(Promised!vars)
  <2> SUFFICES ASSUME FusedDataInv, AvailableIs, AvailableIs',
                      [FusedNext]_fusedVars
               PROVE  Promised!Next
    OBVIOUS
  <2>1. args' = args /\ args \in FusedPrograms
    BY StateFacts
    DEF FusedDataInv, FusedNext, RWStep, In0Feed, In1Feed, StoreStrips,
        ComputeStep, StartBatch, WaitOperands, Reload, MatmulBlock,
        PackPartial, PackFinal, PushSubblock, EndBlock, AddBias, StartRow,
        UntilizeRow, EndBatch, FeedBias, FusedFinished, fusedVars
  <2>2. Wanted' = Wanted /\ Strips' = Strips
    BY <2>1, SameVariant DEF Wanted, Strips, FinalValue, StripAt
  <2>3. PICK o \in 0 .. args.batch - 1 :
          \A b \in 0 .. args.batch - 1, i \in Strips :
            /\ Handed(b, i) => Handed(b, i)'
            /\ b # o => (Handed(b, i)' => Handed(b, i))
    BY HandedStays
  <2>4. PICK S \in SUBSET Strips :
          S = { i \in Strips : Handed(o, i)' /\ ~Handed(o, i) }
    OBVIOUS
  <2>5. /\ Available = [b \in 0 .. args.batch - 1 |->
                         [i \in Strips |-> IF Handed(b, i) THEN Wanted[b][i]
                                           ELSE NotWritten]]
        /\ Available' = [b \in 0 .. args.batch - 1 |->
                          [i \in Strips |->
                             IF Handed(b, i)' THEN Wanted[b][i]
                             ELSE NotWritten]]
    BY <2>1, <2>2 DEF AvailableIs
  <2>6. \A s \in S : Available[o][s] = NotWritten /\ Wanted[o][s] # NotWritten
    BY <2>1, <2>4, <2>5, WantedFacts
  <2>7. Available' = [Available EXCEPT
                        ![o] = [s \in DOMAIN Available[o] |->
                                  IF s \in S THEN Wanted[o][s]
                                  ELSE Available[o][s]]]
    <3> DEFINE new == [s \in Strips |-> IF s \in S THEN Wanted[o][s]
                                        ELSE Available[o][s]]
    <3>1. DOMAIN Available[o] = Strips
      BY <2>5
    <3>2. Available'[o] = new
      <4>1. \A s \in Strips :
              (IF Handed(o, s)' THEN Wanted[o][s] ELSE NotWritten)
                = (IF s \in S THEN Wanted[o][s] ELSE Available[o][s])
        BY <2>3, <2>4, <2>5
      <4> QED
        BY <2>5, <4>1
    <3>3. \A b \in 0 .. args.batch - 1 : b # o => Available'[b] = Available[b]
      BY <2>3, <2>5
    <3> HIDE DEF new
    <3>4. Available' = [Available EXCEPT ![o] = new]
      <4>1. /\ Available = [b \in 0 .. args.batch - 1 |-> Available[b]]
            /\ Available' = [b \in 0 .. args.batch - 1 |-> Available'[b]]
        BY <2>5
      <4> HIDE DEF Available
      <4> QED
        BY <3>2, <3>3, <4>1
    <3> QED
      BY <3>1, <3>4 DEF new
  <2>8. Promised!WriteBack(o, S)
    BY <2>2, <2>6, <2>7 DEF Promised!WriteBack
  <2>9. o \in DOMAIN Available /\ S \in SUBSET DOMAIN Available[o]
    BY <2>4, <2>5
  <2> QED
    BY <2>8, <2>9 DEF Promised!Next
<1> QED
  BY <1>1, <1>2, <1>3, FusedDataInvariant, PTL DEF FusedSpec
===============================================================================
