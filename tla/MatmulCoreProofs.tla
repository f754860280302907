--------------------------- MODULE MatmulCoreProofs ---------------------------
(***************************************************************************)
(* Theorems about MatmulCore, for every set of programs: types and buffer  *)
(* bounds, exclusive use of the memory that CB16 and CB24 share, the fact  *)
(* that partial sums always find CB16 drained, and that a launch is        *)
(* finite: every step brings it nearer to a known last one.                *)
(*                                                                         *)
(* The argument: the kernels never see each other's position, but the      *)
(* counters of the CBs tie them together.  IInv says, for each CB, how its *)
(* counter and its two positions follow from where the kernels stand.  The *)
(* in1 reader/writer and the compute kernel are at most one outer block    *)
(* apart, and then only in the two ways InStep, WriterBehind and           *)
(* WriterAhead describe.                                                   *)
(***************************************************************************)
EXTENDS MatmulCore, TLAPS

\* The position at distance n from the start of the shared memory.
Pos(n) == IF n = NumSubblocks THEN 0 ELSE n

\* Subblocks of its outer block the writer has popped from CB16.
Drained ==
  IF rw.pc \in {"front", "store"} THEN rw.sbh * args.subW + rw.sbw
  ELSE IF rw.pc = "skipW" THEN rw.sbh * args.subW + ColsToStore(rw.o)
  ELSE IF rw.pc = "skipH" THEN RowsToStore(rw.o) * args.subW
  ELSE 0

\* Subblocks of its outer block the compute kernel has pushed to CB16.
Produced == IF LastOut THEN compute.s ELSE 0

\* Where each kernel's loop variables may stand at each program point.
ReaderPlace ==
  /\ reader.pc = "done" => reader.o = NumOuter
  /\ reader.pc # "done" => reader.o < NumOuter
  /\ reader.pc = "read" => cbIn0.cnt < NumBuffer

RWPlace ==
  /\ rw.pc = "done" => rw.o = NumOuter /\ rw.k = 0
  /\ rw.pc # "done" => rw.o < NumOuter
  /\ rw.pc \in {"reserve", "read"} => rw.k < args.numBlocks
  /\ rw.pc \in {"front", "store", "skipW", "skipH"} => rw.k = args.numBlocks
  /\ rw.pc = "read" => cbIn1.cnt < NumBuffer
  /\ rw.pc \in {"front", "store"} => rw.sbw < ColsToStore(rw.o)
  /\ rw.pc \in {"front", "store", "skipW"} => rw.sbh < RowsToStore(rw.o)
  /\ rw.pc \notin {"front", "store"} => rw.sbw = 0
  /\ rw.pc = "store" => cbOut.cnt >= 1

ComputePlace ==
  /\ compute.pc = "done" => compute.o = NumOuter /\ compute.k = 0
  /\ compute.pc # "done" => compute.o < NumOuter
  /\ compute.pc \in {"wait", "done"} => compute.s = 0
  /\ compute.pc \in {"reload", "math", "pack", "push"} =>
       compute.s < NumSubblocks
  /\ compute.pc = "pop" => compute.s = NumSubblocks
  /\ compute.reload <=> compute.k > 0
  /\ compute.pc = "reload" => compute.k > 0
  /\ compute.pc \notin {"wait", "done"} => cbIn0.cnt >= 1 /\ cbIn1.cnt >= 1
  /\ compute.k = 0 /\ ~LastOut =>
       compute.toWait = IF compute.pc = "push" THEN compute.s + 2
                                               ELSE compute.s + 1
  /\ compute.pc = "push" /\ LastOut => cbOut.cnt < NumSubblocks

\* The partial sums in CB24 follow from the compute kernel's position alone.
PartialsCount ==
  IF args.numBlocks = 1 THEN 0
  ELSE IF compute.k = 0 THEN compute.s
  ELSE IF compute.k < args.numBlocks - 1
       THEN IF compute.pc \in {"math", "pack", "push"}
            THEN NumSubblocks - 1 ELSE NumSubblocks
       ELSE IF compute.pc \in {"math", "pack", "push"}
            THEN NumSubblocks - compute.s - 1 ELSE NumSubblocks - compute.s

PartialsPlace ==
  /\ cbPart.cnt = PartialsCount
  /\ cbPart.wr = IF LastOut THEN 0 ELSE Pos(compute.s)
  /\ cbPart.rd = IF compute.k = 0 THEN 0
                 ELSE IF compute.pc \in {"math", "pack", "push"}
                      THEN Pos(compute.s + 1) ELSE Pos(compute.s)

\* The three ways the in1 reader/writer and the compute kernel can stand.
InStep ==
  /\ rw.o = compute.o
  /\ cbIn1.cnt = rw.k - compute.k
  /\ cbOut.cnt = Produced - Drained
  /\ cbOut.rd = Pos(Drained)
  /\ cbOut.wr = Pos(Produced)

WriterBehind ==
  /\ compute.o = rw.o + 1
  /\ rw.pc \in {"front", "store", "skipW", "skipH"}
  /\ compute.k = 0 /\ compute.pc \in {"wait", "done"}
  /\ cbIn1.cnt = 0
  /\ cbOut.cnt = NumSubblocks - Drained
  /\ cbOut.rd = Pos(Drained)
  /\ cbOut.wr = 0

WriterAhead ==
  /\ rw.o = compute.o + 1
  /\ LastOut /\ compute.pc = "pop"
  /\ rw.pc \in {"reserve", "read", "front", "done"}
  /\ rw.sbh = 0 /\ rw.sbw = 0
  /\ cbIn1.cnt = rw.k + 1
  /\ cbOut.cnt = 0 /\ cbOut.rd = 0 /\ cbOut.wr = 0

IInv ==
  /\ TypeOK
  /\ ReaderPlace
  /\ RWPlace
  /\ ComputePlace
  /\ PartialsPlace
  /\ InStep \/ WriterBehind \/ WriterAhead
-------------------------------------------------------------------------------
(* Facts about the argument set and the operators on it *)

\* The products the drain arithmetic needs.
LEMMA RowProduct ==
  ASSUME NEW a \in Nat, NEW b \in Nat
  PROVE  (a + 1) * b = a * b + b /\ 0 * b = 0 /\ a * b \in Nat
  OBVIOUS

LEMMA SplitProduct ==
  ASSUME NEW a \in Nat, NEW b \in Nat, NEW c \in Nat
  PROVE  (a - b) * c + b * c = a * c
  OBVIOUS

LEMMA MonotoneProduct ==
  ASSUME NEW a \in Nat, NEW b \in Nat, NEW c \in Nat, a <= b
  PROVE  a * c <= b * c
  OBVIOUS

LEMMA PositiveProduct ==
  ASSUME NEW a \in Nat \ {0}, NEW b \in Nat \ {0}
  PROVE  a * b \in Nat \ {0}
  OBVIOUS

\* What the assumption on Programs says of the argument set in force.
LEMMA ArgsFacts ==
  ASSUME args \in Programs
  PROVE  /\ args \in Program
         /\ args.nzH <= args.subH /\ args.nzW <= args.subW
         /\ NumOuter \in Nat \ {0}
         /\ NumSubblocks \in Nat \ {0}
  BY ProgramsAssumption, PositiveProduct DEF Program, NumOuter, NumSubblocks

LEMMA RangeFacts ==
  ASSUME args \in Programs, NEW o \in Nat
  PROVE  /\ RowOf(o) \in Nat /\ ColOf(o) \in Nat
         /\ RowsToStore(o) \in 1 .. args.subH
         /\ ColsToStore(o) \in 1 .. args.subW
  BY ArgsFacts DEF Program, RowOf, ColOf, RowsToStore, ColsToStore
-------------------------------------------------------------------------------
(* The inductive invariant *)

LEMMA InitIInv == Init => IInv
<1> SUFFICES ASSUME Init PROVE IInv
  OBVIOUS
<1>1. args \in Programs /\ args \in Program
  BY ArgsFacts DEF Init
<1>2. NumOuter \in Nat \ {0} /\ NumSubblocks \in Nat \ {0}
  BY <1>1, ArgsFacts
<1>3. TypeOK
  BY <1>1, <1>2 DEF Init, TypeOK, EmptyCB, CB, Block, InFlight, NumBuffer, Program
<1>4. ReaderPlace /\ RWPlace /\ ComputePlace
  BY <1>1, <1>2 DEF Init, ReaderPlace, RWPlace, ComputePlace, LastOut, EmptyCB,
     NumBuffer, Program
<1>5. PartialsPlace
  BY <1>1, <1>2 DEF Init, PartialsPlace, PartialsCount, LastOut, Pos, EmptyCB,
     Program
<1>6. InStep
  BY <1>1, <1>2 DEF Init, InStep, Produced, Drained, LastOut, Pos, EmptyCB,
     Program
<1> QED
  BY <1>3, <1>4, <1>5, <1>6 DEF IInv

\* What every step of the proofs below starts from.
LEMMA StepFacts ==
  ASSUME IInv, args' = args
  PROVE  /\ args \in Programs /\ args \in Program /\ args' \in Program
         /\ NumOuter \in Nat \ {0} /\ NumOuter' = NumOuter
         /\ NumSubblocks \in Nat \ {0} /\ NumSubblocks' = NumSubblocks
<1>1. args \in Programs
  BY DEF IInv, TypeOK
<1>2. NumOuter' = NumOuter /\ NumSubblocks' = NumSubblocks
  BY DEF NumOuter, NumSubblocks
<1> QED
  BY <1>1, <1>2, ArgsFacts

LEMMA PushFacts ==
  ASSUME NEW size \in Nat \ {0}, NEW cb \in CB(size), cb.cnt < size
  PROVE  /\ PushBack(cb, 1, size) \in CB(size)
         /\ PushBack(cb, 1, size).cnt = cb.cnt + 1
         /\ PushBack(cb, 1, size).rd = cb.rd
         /\ PushBack(cb, 1, size).wr = IF cb.wr + 1 = size THEN 0 ELSE cb.wr + 1
<1>1. cb.cnt \in 0 .. size /\ cb.wr \in 0 .. size - 1 /\ cb.rd \in 0 .. size - 1
  BY DEF CB
<1> DEFINE w == IF cb.wr + 1 = size THEN 0 ELSE cb.wr + 1
<1>2. w \in 0 .. size - 1 /\ cb.cnt + 1 \in 0 .. size
  BY <1>1
<1>3. PushBack(cb, 1, size) = [cb EXCEPT !.cnt = cb.cnt + 1, !.wr = w]
  BY DEF PushBack, Advance
<1>4. cb = [cnt |-> cb.cnt, wr |-> cb.wr, rd |-> cb.rd]
  BY DEF CB
<1>5. PushBack(cb, 1, size) = [cnt |-> cb.cnt + 1, wr |-> w, rd |-> cb.rd]
  BY <1>3, <1>4
<1> QED
  BY <1>1, <1>2, <1>5 DEF CB

LEMMA PopFacts ==
  ASSUME NEW size \in Nat \ {0}, NEW cb \in CB(size),
         NEW n \in Nat, n <= cb.cnt, cb.rd + n <= size
  PROVE  /\ PopFront(cb, n, size) \in CB(size)
         /\ PopFront(cb, n, size).cnt = cb.cnt - n
         /\ PopFront(cb, n, size).wr = cb.wr
         /\ PopFront(cb, n, size).rd = IF cb.rd + n = size THEN 0 ELSE cb.rd + n
<1>1. cb.cnt \in 0 .. size /\ cb.wr \in 0 .. size - 1 /\ cb.rd \in 0 .. size - 1
  BY DEF CB
<1> DEFINE r == IF cb.rd + n = size THEN 0 ELSE cb.rd + n
<1>2. r \in 0 .. size - 1 /\ cb.cnt - n \in 0 .. size
  BY <1>1
<1>3. PopFront(cb, n, size) = [cb EXCEPT !.cnt = cb.cnt - n, !.rd = r]
  BY DEF PopFront, Advance
<1>4. cb = [cnt |-> cb.cnt, wr |-> cb.wr, rd |-> cb.rd]
  BY DEF CB
<1>5. PopFront(cb, n, size) = [cnt |-> cb.cnt - n, wr |-> cb.wr, rd |-> r]
  BY <1>3, <1>4
<1> QED
  BY <1>1, <1>2, <1>5 DEF CB

\* The numbers in a state of the invariant, with their ranges.
LEMMA StateFacts ==
  ASSUME IInv
  PROVE  /\ args.numBlocks \in Nat \ {0} /\ args.numBlocksW \in Nat \ {0}
         /\ args.subH \in Nat \ {0} /\ args.subW \in Nat \ {0}
         /\ NumOuter \in Nat \ {0} /\ NumSubblocks \in Nat \ {0}
         /\ reader.o \in 0 .. NumOuter /\ reader.k \in 0 .. args.numBlocks - 1
         /\ rw.o \in 0 .. NumOuter /\ rw.k \in 0 .. args.numBlocks
         /\ rw.sbh \in 0 .. args.subH /\ rw.sbw \in 0 .. args.subW - 1
         /\ compute.o \in 0 .. NumOuter
         /\ compute.k \in 0 .. args.numBlocks - 1
         /\ compute.s \in 0 .. NumSubblocks
         /\ compute.toWait \in 1 .. NumSubblocks + 1
         /\ cbIn0.cnt \in 0 .. 2 /\ cbIn1.cnt \in 0 .. 2
         /\ cbOut.cnt \in 0 .. NumSubblocks /\ cbPart.cnt \in 0 .. NumSubblocks
         /\ cbOut.rd \in 0 .. NumSubblocks - 1
         /\ cbPart.rd \in 0 .. NumSubblocks - 1
         /\ cbOut.wr \in 0 .. NumSubblocks - 1
         /\ cbPart.wr \in 0 .. NumSubblocks - 1
<1>1. args \in Programs
  BY DEF IInv, TypeOK
<1>2. args.numBlocks \in Nat \ {0} /\ args.numBlocksW \in Nat \ {0}
      /\ args.subH \in Nat \ {0} /\ args.subW \in Nat \ {0}
  BY <1>1, ArgsFacts DEF Program
<1> QED
  BY <1>1, <1>2, ArgsFacts DEF IInv, TypeOK, CB, NumBuffer

\* What the writer has popped, bounded by the size of the output block.
LEMMA DrainedFacts ==
  ASSUME IInv
  PROVE  /\ Drained \in 0 .. NumSubblocks
         /\ rw.pc \in {"front", "store"} => Drained < NumSubblocks
         /\ ColsToStore(rw.o) \in 1 .. args.subW
         /\ RowsToStore(rw.o) \in 1 .. args.subH
         /\ WSkip(rw.o) \in Nat /\ HSkip(rw.o) \in Nat
         /\ rw.pc = "skipW" => Drained + WSkip(rw.o) = (rw.sbh + 1) * args.subW
         /\ rw.pc = "skipW" => Drained + WSkip(rw.o) <= NumSubblocks
         /\ rw.pc = "skipH" => Drained + HSkip(rw.o) = NumSubblocks
<1>1. args.subH \in Nat \ {0} /\ args.subW \in Nat \ {0}
      /\ rw.sbh \in 0 .. args.subH /\ rw.sbw \in 0 .. args.subW - 1
      /\ NumSubblocks \in Nat \ {0} /\ rw.o \in Nat /\ args \in Programs
  BY StateFacts DEF IInv, TypeOK
<1>2. ColsToStore(rw.o) \in 1 .. args.subW /\ RowsToStore(rw.o) \in 1 .. args.subH
  BY <1>1, RangeFacts
<1> DEFINE c == ColsToStore(rw.o)
           r == RowsToStore(rw.o)
           w == args.subW
           h == args.subH
           i == rw.sbh
<1> HIDE DEF c, r, w, h, i
<1>3. c \in 1 .. w /\ r \in 1 .. h /\ w \in Nat \ {0} /\ h \in Nat \ {0} /\ i \in 0 .. h
  BY <1>1, <1>2 DEF c, r, w, h, i
<1>4. (i + 1) * w = i * w + w /\ i * w \in Nat
  BY <1>3, RowProduct
<1>5. r * w \in Nat /\ r * w <= h * w
  BY <1>3, RowProduct, MonotoneProduct
<1>6. (h - r) * w + r * w = h * w
  BY <1>3, SplitProduct
<1>7. (h - r) * w \in Nat
  <2>1. h - r \in Nat
    BY <1>3
  <2> QED
    BY <1>3, <2>1, RowProduct
<1>8. i < r => (i + 1) * w <= h * w
  <2>1. i < r => i + 1 <= h
    BY <1>3
  <2> QED
    BY <1>3, <2>1, MonotoneProduct
<1>9. NumSubblocks = h * w
  BY DEF NumSubblocks, h, w
<1>10. WSkip(rw.o) = w - c /\ HSkip(rw.o) = (h - r) * w
  BY DEF WSkip, HSkip, w, c, h, r
<1>11. /\ rw.pc \in {"front", "store", "skipW"} => i < r
       /\ rw.pc \in {"front", "store"} => rw.sbw < c
  BY DEF IInv, RWPlace, i, r, c
<1>12. Drained = IF rw.pc \in {"front", "store"} THEN i * w + rw.sbw
                 ELSE IF rw.pc = "skipW" THEN i * w + c
                 ELSE IF rw.pc = "skipH" THEN r * w ELSE 0
  BY DEF Drained, i, w, c, r
<1>13. c \in 1 .. w /\ r \in 1 .. h
  BY <1>3
<1>14. ColsToStore(rw.o) = c /\ RowsToStore(rw.o) = r /\ args.subW = w
       /\ args.subH = h /\ rw.sbh = i
  BY DEF c, r, w, h, i
<1> QED
  BY <1>1, <1>3, <1>4, <1>5, <1>6, <1>7, <1>8, <1>9, <1>10, <1>11, <1>12, <1>14
-------------------------------------------------------------------------------
(* Steps that leave a kernel alone preserve what the invariant says of it  *)

LEMMA ReaderFrame ==
  ASSUME IInv, UNCHANGED <<args, reader>>, cbIn0'.cnt \in Nat,
         cbIn0'.cnt <= cbIn0.cnt
  PROVE  ReaderPlace'
  BY StepFacts, StateFacts DEF IInv, ReaderPlace, NumBuffer

LEMMA RWFrame ==
  ASSUME IInv, UNCHANGED <<args, rw>>, cbIn1'.cnt \in Nat, cbOut'.cnt \in Nat,
         cbIn1'.cnt <= cbIn1.cnt, cbOut'.cnt >= cbOut.cnt
  PROVE  RWPlace'
<1>1. /\ ColsToStore(rw.o)' = ColsToStore(rw.o)
      /\ RowsToStore(rw.o)' = RowsToStore(rw.o)
  BY DEF ColsToStore, RowsToStore, RowOf, ColOf
<1> QED
  BY <1>1, StepFacts, StateFacts DEF IInv, RWPlace, NumBuffer

LEMMA ComputeFrame ==
  ASSUME IInv, UNCHANGED <<args, compute, cbPart>>,
         cbIn0'.cnt \in Nat, cbIn1'.cnt \in Nat, cbOut'.cnt \in Nat,
         cbIn0'.cnt >= cbIn0.cnt, cbIn1'.cnt >= cbIn1.cnt,
         cbOut'.cnt <= cbOut.cnt
  PROVE  ComputePlace' /\ PartialsPlace'
<1>1. ComputePlace'
  BY StepFacts, StateFacts DEF IInv, ComputePlace, LastOut
<1>2. PartialsPlace'
  BY StepFacts DEF IInv, PartialsPlace, PartialsCount, LastOut, Pos
<1> QED
  BY <1>1, <1>2

LEMMA DrainedFrame ==
  ASSUME IInv, UNCHANGED <<args, rw>>
  PROVE  Drained' = Drained
  BY DEF Drained, ColsToStore, RowsToStore, RowOf, ColOf

LEMMA ProducedFrame ==
  ASSUME IInv, UNCHANGED <<args, compute>>
  PROVE  Produced' = Produced /\ LastOut' = LastOut
  BY DEF Produced, LastOut

LEMMA RelationFrame ==
  ASSUME IInv, UNCHANGED <<args, rw, compute, cbIn1, cbOut>>
  PROVE  (InStep \/ WriterBehind \/ WriterAhead)'
<1>1. Drained' = Drained /\ Produced' = Produced /\ LastOut' = LastOut
  BY DrainedFrame, ProducedFrame
<1> QED
  BY <1>1, StepFacts DEF IInv, InStep, WriterBehind, WriterAhead, Pos

\* The blocks that travel through CB0 and CB1 have the type they should.
LEMMA BlockFacts ==
  ASSUME args \in Programs, NEW o \in Nat, NEW k \in Nat
  PROVE  In0Block(o, k) \in Block /\ In1Block(o, k) \in Block
<1>1. RowOf(o) \in Nat /\ ColOf(o) \in Nat
  BY RangeFacts
<1>2. In0Block(o, k) = [mat |-> "A", row |-> RowOf(o),
                        col |-> IF args.useDram THEN k ELSE 0]
  BY DEF In0Block, ABlock
<1>3. (IF args.useDram THEN k ELSE 0) \in Nat
  OBVIOUS
<1> QED
  BY <1>1, <1>2, <1>3 DEF In1Block, BBlock, Block
-------------------------------------------------------------------------------
(* The in0 reader *)

LEMMA In0ReserveIInv ==
  ASSUME IInv, In0Reserve
  PROVE  IInv'
<1>1. /\ UNCHANGED <<args, rw, compute, cbIn0, cbIn1, cbOut, cbPart, in1L1,
                     outL1, dst, written>>
      /\ reader.pc = "reserve"
      /\ reader' = [reader EXCEPT !.pc = "read"]
      /\ cbIn0.cnt + 1 <= 2
  BY DEF In0Reserve, HasRoom, NumBuffer
<1>2. TypeOK'
  BY <1>1, StepFacts DEF IInv, TypeOK, In0Reserve, Block, InFlight
<1>3. ReaderPlace'
  <2>1. reader'.pc = "read" /\ reader'.o = reader.o
    BY <1>1 DEF IInv, TypeOK
  <2>2. reader.o < NumOuter
    BY <1>1 DEF IInv, ReaderPlace
  <2> QED
    BY <1>1, <2>1, <2>2, StepFacts, StateFacts DEF ReaderPlace, NumBuffer
<1>4. RWPlace' /\ ComputePlace' /\ PartialsPlace'
  BY <1>1, RWFrame, ComputeFrame, StateFacts
<1>5. (InStep \/ WriterBehind \/ WriterAhead)'
  BY <1>1, RelationFrame
<1> QED
  BY <1>2, <1>3, <1>4, <1>5 DEF IInv

LEMMA In0PushIInv ==
  ASSUME IInv, In0Push
  PROVE  IInv'
<1>1. /\ UNCHANGED <<args, rw, compute, cbIn1, cbOut, cbPart, in1L1, outL1, dst,
                     written>>
      /\ reader.pc = "read"
      /\ cbIn0' = PushBack(cbIn0, 1, 2)
      /\ in0L1' = [in0L1 EXCEPT ![cbIn0.wr] = In0Block(reader.o, reader.k)]
  BY DEF In0Push, NumBuffer
<1>2. cbIn0 \in CB(2) /\ cbIn0.cnt < 2 /\ reader.o < NumOuter
  BY <1>1 DEF IInv, TypeOK, ReaderPlace, NumBuffer
<1>3. cbIn0' \in CB(2) /\ cbIn0'.cnt = cbIn0.cnt + 1
  BY <1>1, <1>2, PushFacts
<1>4. /\ reader' \in [pc : {"reserve", "read", "done"}, o : 0 .. NumOuter,
                       k : 0 .. args.numBlocks - 1]
      /\ reader'.pc \in {"reserve", "done"}
      /\ reader'.pc = "done" => reader'.o = NumOuter
      /\ reader'.pc = "reserve" => reader'.o < NumOuter
  <2>1. CASE reader.k + 1 < args.numBlocks
    <3>1. reader' = [reader EXCEPT !.pc = "reserve", !.k = reader.k + 1]
      BY <2>1 DEF In0Push
    <3>2. reader \in [pc : {"reserve", "read", "done"}, o : 0 .. NumOuter,
                      k : 0 .. args.numBlocks - 1]
      BY DEF IInv, TypeOK
    <3>3. reader.k + 1 \in 0 .. args.numBlocks - 1
      BY <2>1, StateFacts
    <3> QED
      BY <1>2, <3>1, <3>2, <3>3
  <2>2. CASE ~(reader.k + 1 < args.numBlocks)
    <3>1. reader' = [pc |-> IF reader.o + 1 = NumOuter THEN "done" ELSE "reserve",
                     o |-> reader.o + 1, k |-> 0]
      BY <2>2 DEF In0Push, NextOuter
    <3> QED
      BY <1>2, <3>1, StateFacts
  <2> QED
    BY <2>1, <2>2
<1>5. In0Block(reader.o, reader.k) \in Block
  BY BlockFacts, StateFacts DEF IInv, TypeOK
<1>6. TypeOK'
  BY <1>1, <1>3, <1>4, <1>5, StepFacts DEF IInv, TypeOK, NumBuffer
<1>7. ReaderPlace'
  BY <1>1, <1>4, StepFacts DEF ReaderPlace
<1>8. RWPlace' /\ ComputePlace' /\ PartialsPlace'
  BY <1>1, <1>3, RWFrame, ComputeFrame, StateFacts
<1>9. (InStep \/ WriterBehind \/ WriterAhead)'
  BY <1>1, RelationFrame
<1> QED
  BY <1>6, <1>7, <1>8, <1>9 DEF IInv
-------------------------------------------------------------------------------
(* The in1 reader/writer *)

LEMMA RWTypes ==
  ASSUME IInv
  PROVE  rw = [pc |-> rw.pc, o |-> rw.o, k |-> rw.k, sbh |-> rw.sbh,
               sbw |-> rw.sbw]
  BY DEF IInv, TypeOK

LEMMA In1ReserveIInv ==
  ASSUME IInv, In1Reserve
  PROVE  IInv'
<1>1. /\ UNCHANGED <<args, reader, compute, cbIn0, cbIn1, cbOut, cbPart, in0L1,
                     outL1, dst, written>>
      /\ rw.pc = "reserve"
      /\ rw' = [rw EXCEPT !.pc = "read"]
      /\ cbIn1.cnt + 1 <= 2
  BY DEF In1Reserve, HasRoom, NumBuffer
<1>2. rw' = [pc |-> "read", o |-> rw.o, k |-> rw.k, sbh |-> rw.sbh, sbw |-> rw.sbw]
  BY <1>1, RWTypes
<1>3. TypeOK'
  BY <1>1, <1>2, StepFacts DEF IInv, TypeOK, In1Reserve, Block, InFlight
<1>4. RWPlace'
  BY <1>1, <1>2, StepFacts, StateFacts DEF IInv, RWPlace, NumBuffer
<1>5. ReaderPlace' /\ ComputePlace' /\ PartialsPlace'
  BY <1>1, ReaderFrame, ComputeFrame, StateFacts
<1>6. (InStep \/ WriterBehind \/ WriterAhead)'
  <2>1. Drained = 0 /\ Drained' = 0
    BY <1>1, <1>2 DEF Drained
  <2>2. Produced' = Produced /\ LastOut' = LastOut
    BY <1>1, ProducedFrame
  <2> QED
    BY <1>1, <1>2, <2>1, <2>2, StepFacts
    DEF IInv, InStep, WriterBehind, WriterAhead, Pos
<1> QED
  BY <1>3, <1>4, <1>5, <1>6 DEF IInv

LEMMA In1PushIInv ==
  ASSUME IInv, In1Push
  PROVE  IInv'
<1>1. /\ UNCHANGED <<args, reader, compute, cbIn0, cbOut, cbPart, in0L1, outL1,
                     dst, written>>
      /\ rw.pc = "read"
      /\ cbIn1' = PushBack(cbIn1, 1, 2)
      /\ in1L1' = [in1L1 EXCEPT ![cbIn1.wr] = In1Block(rw.o, rw.k)]
  BY DEF In1Push, NumBuffer
<1>2. cbIn1 \in CB(2) /\ cbIn1.cnt < 2 /\ rw.o < NumOuter
      /\ rw.k < args.numBlocks /\ rw.sbw = 0
  BY <1>1 DEF IInv, TypeOK, RWPlace, NumBuffer
<1>3. cbIn1' \in CB(2) /\ cbIn1'.cnt = cbIn1.cnt + 1
  BY <1>1, <1>2, PushFacts
<1>4. rw' = IF rw.k + 1 < args.numBlocks
            THEN [pc |-> "reserve", o |-> rw.o, k |-> rw.k + 1,
                  sbh |-> rw.sbh, sbw |-> rw.sbw]
            ELSE [pc |-> "front", o |-> rw.o, k |-> rw.k + 1, sbh |-> 0,
                  sbw |-> 0]
  <2>1. CASE rw.k + 1 < args.numBlocks
    <3>1. rw' = [rw EXCEPT !.pc = "reserve", !.k = rw.k + 1]
      BY <2>1 DEF In1Push
    <3>2. rw' = [pc |-> "reserve", o |-> rw.o, k |-> rw.k + 1, sbh |-> rw.sbh,
                 sbw |-> rw.sbw]
      BY <3>1, RWTypes
    <3> QED
      BY <2>1, <3>2
  <2>2. CASE ~(rw.k + 1 < args.numBlocks)
    <3>1. rw' = [rw EXCEPT !.pc = "front", !.k = rw.k + 1, !.sbh = 0, !.sbw = 0]
      BY <2>2 DEF In1Push
    <3>2. rw' = [pc |-> "front", o |-> rw.o, k |-> rw.k + 1, sbh |-> 0,
                 sbw |-> 0]
      BY <3>1, RWTypes
    <3> QED
      BY <2>2, <3>2
  <2> QED
    BY <2>1, <2>2
<1>5. rw' \in [pc : {"reserve", "read", "front", "store", "skipW", "skipH",
                     "done"},
               o : 0 .. NumOuter, k : 0 .. args.numBlocks,
               sbh : 0 .. args.subH, sbw : 0 .. args.subW - 1]
  BY <1>2, <1>4, StateFacts
<1>6. In1Block(rw.o, rw.k) \in Block
  BY BlockFacts, StateFacts DEF IInv, TypeOK
<1>7. TypeOK'
  BY <1>1, <1>3, <1>5, <1>6, StepFacts DEF IInv, TypeOK, NumBuffer
<1>8. RWPlace'
  <2>1. /\ ColsToStore(rw.o)' \in 1 .. args.subW
        /\ RowsToStore(rw.o)' \in 1 .. args.subH
    BY <1>1, <1>4, DrainedFacts DEF ColsToStore, RowsToStore, RowOf, ColOf
  <2>2. rw'.o = rw.o
    BY <1>4
  <2>3. /\ ColsToStore(rw'.o) = ColsToStore(rw.o)
        /\ RowsToStore(rw'.o) = RowsToStore(rw.o)
    BY <2>2
  <2>4. ColsToStore(rw.o)' > 0 /\ RowsToStore(rw.o)' > 0
    BY <2>1, StateFacts
  <2> QED
    BY <1>1, <1>2, <1>4, <2>4, StepFacts, StateFacts DEF RWPlace, NumBuffer
<1>9. ReaderPlace' /\ ComputePlace' /\ PartialsPlace'
  BY <1>1, <1>3, ReaderFrame, ComputeFrame, StateFacts
<1>10. (InStep \/ WriterBehind \/ WriterAhead)'
  <2>1. Drained = 0
    BY <1>1 DEF Drained
  <2>2. Drained' = 0
    BY <1>1, <1>2, <1>4, StateFacts, RowProduct DEF Drained
  <2>3. Produced' = Produced /\ LastOut' = LastOut
    BY <1>1, ProducedFrame
  <2>4. CASE InStep
    <3>1. rw'.o = rw.o /\ rw'.k = rw.k + 1
      BY <1>4
    <3> QED
      BY <1>1, <1>3, <2>1, <2>2, <2>3, <2>4, <3>1, StepFacts, StateFacts
      DEF InStep, Pos
  <2>5. CASE WriterAhead
    BY <1>1, <1>2, <1>3, <1>4, <2>3, <2>5, StepFacts, StateFacts DEF WriterAhead
  <2> QED
    BY <1>1, <2>4, <2>5 DEF IInv, WriterBehind
<1> QED
  BY <1>7, <1>8, <1>9, <1>10 DEF IInv

LEMMA StoreIssueIInv ==
  ASSUME IInv, StoreIssue
  PROVE  IInv'
<1>1. /\ UNCHANGED <<args, reader, compute, cbIn0, cbIn1, cbOut, cbPart, in0L1,
                     in1L1, outL1, dst, written>>
      /\ rw.pc = "front" /\ cbOut.cnt >= 1
      /\ rw' = [rw EXCEPT !.pc = "store"]
  BY DEF StoreIssue
<1>2. rw' = [pc |-> "store", o |-> rw.o, k |-> rw.k, sbh |-> rw.sbh, sbw |-> rw.sbw]
  BY <1>1, RWTypes
<1>3. TypeOK'
  BY <1>1, <1>2, StepFacts DEF IInv, TypeOK
<1>4. /\ ColsToStore(rw.o)' = ColsToStore(rw.o)
      /\ RowsToStore(rw.o)' = RowsToStore(rw.o)
  BY <1>1, <1>2 DEF ColsToStore, RowsToStore, RowOf, ColOf
<1>5. RWPlace'
  BY <1>1, <1>2, <1>4, StepFacts DEF IInv, RWPlace
<1>6. ReaderPlace' /\ ComputePlace' /\ PartialsPlace'
  BY <1>1, ReaderFrame, ComputeFrame, StateFacts
<1>7. (InStep \/ WriterBehind \/ WriterAhead)'
  <2>1. Drained' = Drained
    BY <1>1, <1>2 DEF Drained
  <2>2. Produced' = Produced /\ LastOut' = LastOut
    BY <1>1, ProducedFrame
  <2>3. ~WriterAhead
    BY <1>1 DEF WriterAhead
  <2> QED
    BY <1>1, <1>2, <2>1, <2>2, <2>3, StepFacts DEF IInv, InStep, WriterBehind, Pos
<1> QED
  BY <1>3, <1>5, <1>6, <1>7 DEF IInv

\* Popping n subblocks moves the writer's position from Drained to
\* Drained + n, whichever way the two kernels stand.
LEMMA DrainPop ==
  ASSUME IInv, rw.pc \in {"store", "skipW", "skipH"}, NEW n \in Nat,
         n <= cbOut.cnt, Drained + n <= NumSubblocks
  PROVE  /\ PopFront(cbOut, n, NumSubblocks) \in CB(NumSubblocks)
         /\ PopFront(cbOut, n, NumSubblocks).cnt = cbOut.cnt - n
         /\ PopFront(cbOut, n, NumSubblocks).wr = cbOut.wr
         /\ PopFront(cbOut, n, NumSubblocks).rd = Pos(Drained + n)
         /\ InStep \/ WriterBehind
<1>1. InStep \/ WriterBehind
  BY DEF IInv, WriterAhead
<1>2. cbOut \in CB(NumSubblocks) /\ cbOut.rd = Pos(Drained)
  BY <1>1 DEF IInv, TypeOK, InStep, WriterBehind
<1>3. Drained \in 0 .. NumSubblocks /\ NumSubblocks \in Nat \ {0}
  BY DrainedFacts, StateFacts
<1>4. cbOut.rd + n <= NumSubblocks
  BY <1>2, <1>3 DEF Pos
<1>5. Pos(Drained + n) =
        IF cbOut.rd + n = NumSubblocks THEN 0 ELSE cbOut.rd + n
  BY <1>2, <1>3 DEF Pos
<1> QED
  BY <1>1, <1>2, <1>3, <1>4, <1>5, PopFacts

LEMMA StoreBarrierIInv ==
  ASSUME IInv, StoreBarrier
  PROVE  IInv'
<1>1. /\ UNCHANGED <<args, reader, compute, cbIn0, cbIn1, cbPart, in0L1, in1L1,
                     outL1, dst>>
      /\ rw.pc = "store"
      /\ cbOut' = PopFront(cbOut, 1, NumSubblocks)
  BY DEF StoreBarrier
<1>2. rw' = IF rw.sbw + 1 < ColsToStore(rw.o)
            THEN [pc |-> "front", o |-> rw.o, k |-> rw.k, sbh |-> rw.sbh,
                  sbw |-> rw.sbw + 1]
            ELSE [pc |-> "skipW", o |-> rw.o, k |-> rw.k, sbh |-> rw.sbh,
                  sbw |-> 0]
  <2>1. CASE rw.sbw + 1 < ColsToStore(rw.o)
    <3>1. rw' = [rw EXCEPT !.pc = "front", !.sbw = rw.sbw + 1]
      BY <2>1 DEF StoreBarrier
    <3>2. rw' = [pc |-> "front", o |-> rw.o, k |-> rw.k, sbh |-> rw.sbh,
                 sbw |-> rw.sbw + 1]
      BY <3>1, RWTypes
    <3> QED
      BY <2>1, <3>2
  <2>2. CASE ~(rw.sbw + 1 < ColsToStore(rw.o))
    <3>1. rw' = [rw EXCEPT !.pc = "skipW", !.sbw = 0]
      BY <2>2 DEF StoreBarrier
    <3>2. rw' = [pc |-> "skipW", o |-> rw.o, k |-> rw.k, sbh |-> rw.sbh,
                 sbw |-> 0]
      BY <3>1, RWTypes
    <3> QED
      BY <2>2, <3>2
  <2> QED
    BY <2>1, <2>2
<1>3. /\ cbOut.cnt >= 1 /\ rw.sbw < ColsToStore(rw.o)
      /\ rw.sbh < RowsToStore(rw.o) /\ rw.k = args.numBlocks
      /\ rw.o < NumOuter
  BY <1>1 DEF IInv, RWPlace
<1>4. /\ Drained < NumSubblocks /\ Drained \in Nat
      /\ ColsToStore(rw.o) \in 1 .. args.subW
      /\ RowsToStore(rw.o) \in 1 .. args.subH
  BY <1>1, DrainedFacts, StateFacts
<1>5. Drained + 1 <= NumSubblocks
  BY <1>4, StateFacts
<1>6. /\ cbOut' \in CB(NumSubblocks) /\ cbOut'.cnt = cbOut.cnt - 1
      /\ cbOut'.wr = cbOut.wr /\ cbOut'.rd = Pos(Drained + 1)
      /\ InStep \/ WriterBehind
  BY <1>1, <1>3, <1>5, DrainPop
<1>7. rw' \in [pc : {"reserve", "read", "front", "store", "skipW", "skipH",
                     "done"},
               o : 0 .. NumOuter, k : 0 .. args.numBlocks,
               sbh : 0 .. args.subH, sbw : 0 .. args.subW - 1]
  BY <1>2, <1>4, StateFacts
<1>8. DOMAIN written' = 0 .. NumOuter - 1
  BY DEF StoreBarrier, IInv, TypeOK
<1>9. TypeOK'
  BY <1>1, <1>6, <1>7, <1>8, StepFacts DEF IInv, TypeOK
<1>10. rw'.o = rw.o
  BY <1>2
<1>11. /\ ColsToStore(rw.o)' = ColsToStore(rw.o)
       /\ RowsToStore(rw.o)' = RowsToStore(rw.o)
  BY <1>1, <1>10 DEF ColsToStore, RowsToStore, RowOf, ColOf
<1>12. RWPlace'
  BY <1>1, <1>2, <1>3, <1>4, <1>11, StepFacts, StateFacts DEF RWPlace
<1>13. ReaderPlace' /\ ComputePlace' /\ PartialsPlace'
  <2>1. cbOut'.cnt \in Nat /\ cbOut'.cnt <= cbOut.cnt
    BY <1>3, <1>6, StateFacts
  <2>2. /\ cbIn0'.cnt \in Nat /\ cbIn0'.cnt = cbIn0.cnt
        /\ cbIn1'.cnt \in Nat /\ cbIn1'.cnt = cbIn1.cnt
    BY <1>1, StateFacts
  <2> QED
    BY <1>1, <2>1, <2>2, ReaderFrame, ComputeFrame, StateFacts
<1>14. Drained' = Drained + 1
  <2> DEFINE t == rw.sbh * args.subW
  <2>1. t \in Nat
    BY StateFacts, RowProduct
  <2>2. Drained = t + rw.sbw
    BY <1>1 DEF Drained
  <2>3. CASE rw.sbw + 1 < ColsToStore(rw.o)
    <3>1. Drained' = t + (rw.sbw + 1)
      BY <1>1, <1>2, <2>3 DEF Drained
    <3> HIDE DEF t
    <3> QED
      BY <2>1, <2>2, <3>1, StateFacts
  <2>4. CASE ~(rw.sbw + 1 < ColsToStore(rw.o))
    <3>1. Drained' = t + ColsToStore(rw.o)
      BY <1>1, <1>2, <1>11, <2>4 DEF Drained
    <3>2. ColsToStore(rw.o) = rw.sbw + 1
      BY <1>3, <1>4, <2>4, StateFacts
    <3> HIDE DEF t
    <3> QED
      BY <2>1, <2>2, <3>1, <3>2, StateFacts
  <2> QED
    BY <2>3, <2>4
<1>15. (InStep \/ WriterBehind \/ WriterAhead)'
  <2>1. Produced' = Produced /\ LastOut' = LastOut /\ Produced \in Nat
    BY <1>1, ProducedFrame, StateFacts DEF Produced
  <2>2. rw'.k = rw.k /\ rw'.pc \in {"front", "skipW"}
    BY <1>2
  <2>3. CASE InStep
    BY <1>1, <1>4, <1>6, <1>10, <1>14, <2>1, <2>2, <2>3, StepFacts, StateFacts
    DEF InStep, Pos
  <2>4. CASE WriterBehind
    BY <1>1, <1>4, <1>6, <1>10, <1>14, <2>1, <2>2, <2>4, StepFacts, StateFacts
    DEF WriterBehind, Pos
  <2> QED
    BY <1>6, <2>3, <2>4
<1> QED
  BY <1>9, <1>12, <1>13, <1>15 DEF IInv

LEMMA SkipRowTailIInv ==
  ASSUME IInv, SkipRowTail
  PROVE  IInv'
<1>1. /\ UNCHANGED <<args, reader, compute, cbIn0, cbIn1, cbPart, in0L1, in1L1,
                     outL1, dst, written>>
      /\ rw.pc = "skipW"
      /\ cbOut.cnt >= WSkip(rw.o)
      /\ cbOut' = PopFront(cbOut, WSkip(rw.o), NumSubblocks)
  BY DEF SkipRowTail, RowTailReady
<1>2. rw' = [pc |-> IF rw.sbh + 1 < RowsToStore(rw.o) THEN "front" ELSE "skipH",
             o |-> rw.o, k |-> rw.k, sbh |-> rw.sbh + 1, sbw |-> rw.sbw]
  <2>1. rw' = [rw EXCEPT !.pc = IF rw.sbh + 1 < RowsToStore(rw.o)
                                THEN "front" ELSE "skipH",
                         !.sbh = rw.sbh + 1]
    BY DEF SkipRowTail
  <2> QED
    BY <2>1, RWTypes
<1>3. /\ rw.sbh < RowsToStore(rw.o) /\ rw.k = args.numBlocks
      /\ rw.o < NumOuter /\ rw.sbw = 0
  BY <1>1 DEF IInv, RWPlace
<1>4. /\ Drained \in Nat /\ WSkip(rw.o) \in Nat
      /\ ColsToStore(rw.o) \in 1 .. args.subW
      /\ RowsToStore(rw.o) \in 1 .. args.subH
      /\ Drained + WSkip(rw.o) = (rw.sbh + 1) * args.subW
      /\ Drained + WSkip(rw.o) <= NumSubblocks
  BY <1>1, DrainedFacts, StateFacts
<1>5. /\ cbOut' \in CB(NumSubblocks) /\ cbOut'.cnt = cbOut.cnt - WSkip(rw.o)
      /\ cbOut'.wr = cbOut.wr /\ cbOut'.rd = Pos(Drained + WSkip(rw.o))
      /\ InStep \/ WriterBehind
  BY <1>1, <1>4, DrainPop
<1>6. rw' \in [pc : {"reserve", "read", "front", "store", "skipW", "skipH",
                     "done"},
               o : 0 .. NumOuter, k : 0 .. args.numBlocks,
               sbh : 0 .. args.subH, sbw : 0 .. args.subW - 1]
  <2>1. rw.sbh + 1 \in 0 .. args.subH
    BY <1>3, <1>4, StateFacts
  <2> QED
    BY <1>2, <2>1, StateFacts
<1>7. TypeOK'
  BY <1>1, <1>5, <1>6, StepFacts DEF IInv, TypeOK
<1>8. rw'.o = rw.o /\ rw'.k = rw.k /\ rw'.pc \in {"front", "skipH"}
  BY <1>2
<1>9. /\ ColsToStore(rw.o)' = ColsToStore(rw.o)
      /\ RowsToStore(rw.o)' = RowsToStore(rw.o)
  BY <1>1, <1>8 DEF ColsToStore, RowsToStore, RowOf, ColOf
<1>10. RWPlace'
  BY <1>1, <1>2, <1>3, <1>4, <1>9, StepFacts, StateFacts DEF RWPlace
<1>11. ReaderPlace' /\ ComputePlace' /\ PartialsPlace'
  <2>1. cbOut'.cnt \in Nat /\ cbOut'.cnt <= cbOut.cnt
    BY <1>1, <1>4, <1>5, StateFacts
  <2>2. /\ cbIn0'.cnt \in Nat /\ cbIn0'.cnt = cbIn0.cnt
        /\ cbIn1'.cnt \in Nat /\ cbIn1'.cnt = cbIn1.cnt
    BY <1>1, StateFacts
  <2> QED
    BY <1>1, <2>1, <2>2, ReaderFrame, ComputeFrame, StateFacts
<1>12. Drained' = Drained + WSkip(rw.o)
  <2> DEFINE t == (rw.sbh + 1) * args.subW
  <2>1. t \in Nat
    <3>1. rw.sbh + 1 \in Nat
      BY StateFacts
    <3> QED
      BY <3>1, StateFacts, RowProduct
  <2>2. CASE rw.sbh + 1 < RowsToStore(rw.o)
    <3>1. rw'.pc = "front" /\ rw'.sbh = rw.sbh + 1 /\ rw'.sbw = 0
      BY <1>2, <1>3, <2>2
    <3>2. Drained' = t + 0
      BY <1>1, <3>1 DEF Drained
    <3> QED
      BY <1>4, <2>1, <3>2
  <2>3. CASE ~(rw.sbh + 1 < RowsToStore(rw.o))
    <3>1. rw'.pc = "skipH"
      BY <1>2, <2>3
    <3>2. RowsToStore(rw.o) = rw.sbh + 1
      BY <1>3, <1>4, <2>3, StateFacts
    <3>3. Drained' = RowsToStore(rw.o)' * args.subW
      BY <1>1, <3>1 DEF Drained
    <3> QED
      BY <1>4, <1>9, <3>2, <3>3
  <2> QED
    BY <2>2, <2>3
<1>13. (InStep \/ WriterBehind \/ WriterAhead)'
  <2>1. Produced' = Produced /\ LastOut' = LastOut /\ Produced \in Nat
    BY <1>1, ProducedFrame, StateFacts DEF Produced
  <2>2. CASE InStep
    BY <1>1, <1>4, <1>5, <1>8, <1>12, <2>1, <2>2, StepFacts, StateFacts
    DEF InStep, Pos
  <2>3. CASE WriterBehind
    BY <1>1, <1>4, <1>5, <1>8, <1>12, <2>1, <2>3, StepFacts, StateFacts
    DEF WriterBehind, Pos
  <2> QED
    BY <1>5, <2>2, <2>3
<1> QED
  BY <1>7, <1>10, <1>11, <1>13 DEF IInv

\* The writer leaves the outer block: either the compute kernel has yet to pop
\* its last operands (WriterAhead), or it is waiting for the next (InStep).
LEMMA SkipRowsIInv ==
  ASSUME IInv, SkipRows
  PROVE  IInv'
<1>1. /\ UNCHANGED <<args, reader, compute, cbIn0, cbIn1, cbPart, in0L1, in1L1,
                     outL1, dst, written>>
      /\ rw.pc = "skipH"
      /\ cbOut.cnt >= HSkip(rw.o)
      /\ cbOut' = PopFront(cbOut, HSkip(rw.o), NumSubblocks)
      /\ rw' = [pc |-> IF rw.o + 1 = NumOuter THEN "done" ELSE "reserve",
                o |-> rw.o + 1, k |-> 0, sbh |-> 0, sbw |-> 0]
  BY DEF SkipRows, NextOuter
<1>2. rw.o < NumOuter /\ rw.k = args.numBlocks
  BY <1>1 DEF IInv, RWPlace
<1>3. /\ Drained \in Nat /\ HSkip(rw.o) \in Nat
      /\ Drained + HSkip(rw.o) = NumSubblocks
  BY <1>1, DrainedFacts, StateFacts
<1>4. Drained + HSkip(rw.o) <= NumSubblocks
  BY <1>3, StateFacts
<1>5. /\ cbOut' \in CB(NumSubblocks) /\ cbOut'.cnt = cbOut.cnt - HSkip(rw.o)
      /\ cbOut'.wr = cbOut.wr /\ cbOut'.rd = Pos(NumSubblocks)
      /\ InStep \/ WriterBehind
  BY <1>1, <1>3, <1>4, DrainPop
<1>6. rw' \in [pc : {"reserve", "read", "front", "store", "skipW", "skipH",
                     "done"},
               o : 0 .. NumOuter, k : 0 .. args.numBlocks,
               sbh : 0 .. args.subH, sbw : 0 .. args.subW - 1]
  BY <1>1, <1>2, StateFacts
<1>7. TypeOK'
  BY <1>1, <1>5, <1>6, StepFacts DEF IInv, TypeOK
<1>8. RWPlace'
  BY <1>1, <1>2, StepFacts, StateFacts DEF RWPlace
<1>9. ReaderPlace' /\ ComputePlace' /\ PartialsPlace'
  <2>1. cbOut'.cnt \in Nat /\ cbOut'.cnt <= cbOut.cnt
    BY <1>1, <1>3, <1>5, StateFacts
  <2>2. /\ cbIn0'.cnt \in Nat /\ cbIn0'.cnt = cbIn0.cnt
        /\ cbIn1'.cnt \in Nat /\ cbIn1'.cnt = cbIn1.cnt
    BY <1>1, StateFacts
  <2> QED
    BY <1>1, <2>1, <2>2, ReaderFrame, ComputeFrame, StateFacts
<1>10. Drained' = 0 /\ cbOut'.rd = 0
  BY <1>1, <1>5, StateFacts DEF Drained, Pos
<1>11. (InStep \/ WriterBehind \/ WriterAhead)'
  <2>1. Produced' = Produced /\ LastOut' = LastOut
    BY <1>1, ProducedFrame
  <2>2. CASE InStep
    <3>1. Produced = NumSubblocks
      BY <1>1, <1>3, <2>2, StateFacts DEF InStep, Produced
    <3>2. LastOut /\ compute.s = NumSubblocks
      BY <3>1, StateFacts DEF Produced
    <3>3. compute.pc = "pop"
      <4>1. compute.pc \in {"wait", "reload", "math", "pack", "push", "pop",
                            "done"}
        BY DEF IInv, TypeOK
      <4>2. /\ compute.pc \in {"wait", "done"} => compute.s = 0
            /\ compute.pc \in {"reload", "math", "pack", "push"} =>
                 compute.s < NumSubblocks
        BY DEF IInv, ComputePlace
      <4> QED
        BY <3>2, <4>1, <4>2, StateFacts
    <3>4. cbOut.wr = 0 /\ cbOut.cnt = HSkip(rw.o)
      BY <1>3, <2>2, <3>1, StateFacts DEF InStep, Pos
    <3>5. cbIn1.cnt = 1 /\ rw.o = compute.o
      BY <1>2, <2>2, <3>2, StateFacts DEF InStep, LastOut
    <3> QED
      BY <1>1, <1>5, <1>10, <2>1, <3>2, <3>3, <3>4, <3>5, StateFacts
      DEF WriterAhead
  <2>3. CASE WriterBehind
    <3>1. compute.o = rw.o + 1 /\ compute.k = 0 /\ compute.s = 0
          /\ cbIn1.cnt = 0 /\ cbOut.wr = 0 /\ cbOut.cnt = HSkip(rw.o)
      BY <1>3, <2>3, StateFacts DEF IInv, WriterBehind, ComputePlace
    <3>2. Produced = 0
      BY <3>1 DEF Produced
    <3> QED
      BY <1>1, <1>5, <1>10, <2>1, <3>1, <3>2, StepFacts, StateFacts
      DEF InStep, Pos
  <2> QED
    BY <1>5, <2>2, <2>3
<1> QED
  BY <1>7, <1>8, <1>9, <1>11 DEF IInv
-------------------------------------------------------------------------------
(* The compute kernel *)

LEMMA ComputeTypes ==
  ASSUME IInv
  PROVE  compute = [pc |-> compute.pc, o |-> compute.o, k |-> compute.k,
                    s |-> compute.s, reload |-> compute.reload,
                    toWait |-> compute.toWait]
  BY DEF IInv, TypeOK

\* While it has operands and has not finished with them, the compute kernel is
\* in step with the writer; it stays so until a step moves a counter.
LEMMA OperandsInStep ==
  ASSUME IInv, cbIn1.cnt >= 1, compute.pc # "pop"
  PROVE  InStep
  BY StateFacts DEF IInv, WriterBehind, WriterAhead

LEMMA InStepFrame ==
  ASSUME IInv, InStep, UNCHANGED <<args, rw, cbIn1, cbOut>>,
         compute'.o = compute.o, compute'.k = compute.k,
         compute'.s = compute.s
  PROVE  InStep'
<1>1. Drained' = Drained
  BY DrainedFrame
<1>2. Produced' = Produced
  BY DEF Produced, LastOut
<1> QED
  BY <1>1, <1>2, StepFacts DEF InStep, Pos

LEMMA InputFrame ==
  ASSUME IInv, UNCHANGED <<args, reader, rw, cbIn0, cbIn1, cbOut>>
  PROVE  ReaderPlace' /\ RWPlace'
<1>1. /\ cbIn0'.cnt \in Nat /\ cbIn0'.cnt <= cbIn0.cnt
      /\ cbIn1'.cnt \in Nat /\ cbIn1'.cnt <= cbIn1.cnt
      /\ cbOut'.cnt \in Nat /\ cbOut'.cnt >= cbOut.cnt
  BY StateFacts
<1>2. ReaderPlace'
  BY <1>1, ReaderFrame
<1>3. RWPlace'
  BY <1>1, RWFrame
<1> QED
  BY <1>2, <1>3

LEMMA WaitOperandsIInv ==
  ASSUME IInv, WaitOperands
  PROVE  IInv'
<1>1. /\ UNCHANGED <<args, reader, rw, cbIn0, cbIn1, cbOut, cbPart, in0L1, in1L1,
                     outL1, written>>
      /\ compute.pc = "wait" /\ cbIn0.cnt >= 1 /\ cbIn1.cnt >= 1
      /\ compute' = [compute EXCEPT !.pc = SubblockStart(compute.reload), !.s = 0]
      /\ dst' = <<>>
  BY DEF WaitOperands
<1>2. compute' = [pc |-> SubblockStart(compute.reload), o |-> compute.o,
                  k |-> compute.k, s |-> 0, reload |-> compute.reload,
                  toWait |-> compute.toWait]
  BY <1>1, ComputeTypes
<1>3. compute.s = 0 /\ compute.o < NumOuter /\ (compute.reload <=> compute.k > 0)
  BY <1>1 DEF IInv, ComputePlace
<1>4. /\ compute'.pc = IF compute.k > 0 THEN "reload" ELSE "math"
      /\ compute'.o = compute.o /\ compute'.k = compute.k
      /\ compute'.s = compute.s
  BY <1>2, <1>3 DEF SubblockStart
<1>5. dst' \in Seq(Block \X Block)
  BY <1>1
<1>6. compute' \in [pc : {"wait", "reload", "math", "pack", "push", "pop", "done"},
                    o : 0 .. NumOuter, k : 0 .. args.numBlocks - 1,
                    s : 0 .. NumSubblocks, reload : BOOLEAN,
                    toWait : 1 .. NumSubblocks + 1]
  <2>1. SubblockStart(compute.reload) \in {"reload", "math"}
    BY DEF SubblockStart
  <2>2. compute.reload \in BOOLEAN
    BY DEF IInv, TypeOK
  <2> QED
    BY <1>2, <2>1, <2>2, StateFacts
<1>7. TypeOK'
  BY <1>1, <1>5, <1>6, StepFacts DEF IInv, TypeOK
<1>8. ReaderPlace' /\ RWPlace'
  BY <1>1, InputFrame
<1>9. ComputePlace'
  <2>1. compute'.reload = compute.reload /\ compute'.toWait = compute.toWait
    BY <1>2
  <2>2. compute.k = 0 /\ ~LastOut => compute.toWait = compute.s + 1
    BY <1>1 DEF IInv, ComputePlace
  <2>3. LastOut' = LastOut
    BY <1>1, <1>4 DEF LastOut
  <2>4. compute'.pc = "reload" \/ compute'.pc = "math"
    BY <1>4
  <2>5. /\ NumOuter' = NumOuter /\ NumSubblocks' = NumSubblocks
        /\ compute'.o < NumOuter /\ compute'.s < NumSubblocks
    BY <1>1, <1>3, <1>4, StepFacts, StateFacts
  <2>6. compute'.reload <=> compute'.k > 0
    BY <1>3, <1>4, <2>1
  <2>7. compute'.pc = "reload" => compute'.k > 0
    BY <1>4
  <2>8. cbIn0'.cnt >= 1 /\ cbIn1'.cnt >= 1
    BY <1>1
  <2>9. compute'.k = 0 /\ ~LastOut' => compute'.toWait = compute'.s + 1
    BY <1>4, <2>1, <2>2, <2>3
  <2> QED
    BY <2>4, <2>5, <2>6, <2>7, <2>8, <2>9 DEF ComputePlace
<1>10. PartialsPlace'
  <2>1. /\ cbPart.cnt = PartialsCount
        /\ cbPart.wr = IF LastOut THEN 0 ELSE Pos(compute.s)
        /\ cbPart.rd = 0
    BY <1>1, <1>3, StateFacts DEF IInv, PartialsPlace, Pos
  <2>2. PartialsCount' = PartialsCount
    <3>1. /\ args' = args /\ NumSubblocks' = NumSubblocks
          /\ compute'.k = compute.k /\ compute'.s = 0 /\ compute.s = 0
      BY <1>1, <1>3, <1>4, StepFacts
    <3>2. CASE compute.k = 0
      BY <3>1, <3>2 DEF PartialsCount
    <3>3. CASE compute.k > 0
      <4>1. compute'.pc = "reload"
        BY <1>4, <3>3
      <4> QED
        BY <1>1, <3>1, <3>3, <4>1 DEF PartialsCount
    <3> QED
      BY <3>2, <3>3, StateFacts
  <2>3. LastOut' = LastOut /\ Pos(compute.s)' = Pos(compute.s)
    BY <1>1, <1>4, StepFacts DEF LastOut, Pos
  <2>4. compute'.k > 0 => compute'.pc = "reload" /\ Pos(compute.s)' = 0
    BY <1>3, <1>4, StepFacts, StateFacts DEF Pos
  <2>5. compute'.k = 0 \/ compute'.k > 0
    BY <1>4, StateFacts
  <2> QED
    BY <1>1, <2>1, <2>2, <2>3, <2>4, <2>5 DEF PartialsPlace
<1>11. InStep'
  BY <1>1, <1>4, OperandsInStep, InStepFrame
<1> QED
  BY <1>7, <1>8, <1>9, <1>10, <1>11 DEF IInv

LEMMA ReloadIInv ==
  ASSUME IInv, Reload
  PROVE  IInv'
<1>1. /\ UNCHANGED <<args, reader, rw, cbIn0, cbIn1, cbOut, in0L1, in1L1, outL1,
                     written>>
      /\ compute.pc = "reload" /\ cbPart.cnt >= 1
      /\ dst' = outL1[cbPart.rd].sum
      /\ cbPart' = PopFront(cbPart, 1, NumSubblocks)
      /\ compute' = [compute EXCEPT !.pc = "math"]
  BY DEF Reload
<1>2. compute' = [pc |-> "math", o |-> compute.o, k |-> compute.k,
                  s |-> compute.s, reload |-> compute.reload,
                  toWait |-> compute.toWait]
  BY <1>1, ComputeTypes
<1>3. /\ compute.s < NumSubblocks /\ compute.o < NumOuter /\ compute.k > 0
      /\ cbIn0.cnt >= 1 /\ cbIn1.cnt >= 1
  BY <1>1 DEF IInv, ComputePlace
<1>4. /\ cbPart' \in CB(NumSubblocks) /\ cbPart'.cnt = cbPart.cnt - 1
      /\ cbPart'.wr = cbPart.wr
      /\ cbPart'.rd = IF cbPart.rd + 1 = NumSubblocks THEN 0 ELSE cbPart.rd + 1
  <2>1. cbPart \in CB(NumSubblocks)
    BY DEF IInv, TypeOK
  <2>2. cbPart.rd + 1 <= NumSubblocks
    BY StateFacts
  <2> QED
    BY <1>1, <2>1, <2>2, PopFacts, StateFacts
<1>5. dst' \in Seq(Block \X Block)
  BY <1>1, StateFacts DEF IInv, TypeOK
<1>6. compute' \in [pc : {"wait", "reload", "math", "pack", "push", "pop", "done"},
                    o : 0 .. NumOuter, k : 0 .. args.numBlocks - 1,
                    s : 0 .. NumSubblocks, reload : BOOLEAN,
                    toWait : 1 .. NumSubblocks + 1]
  <2>1. compute.reload \in BOOLEAN
    BY DEF IInv, TypeOK
  <2> QED
    BY <1>2, <2>1, StateFacts
<1>7. TypeOK'
  BY <1>1, <1>4, <1>5, <1>6, StepFacts DEF IInv, TypeOK
<1>8. ReaderPlace' /\ RWPlace'
  BY <1>1, InputFrame
<1>9. ComputePlace'
  BY <1>1, <1>2, <1>3, StepFacts, StateFacts DEF IInv, ComputePlace, LastOut
<1>10. PartialsPlace'
  <2>1. /\ cbPart.cnt = PartialsCount
        /\ cbPart.wr = IF LastOut THEN 0 ELSE Pos(compute.s)
        /\ cbPart.rd = compute.s
    BY <1>1, <1>3, StateFacts DEF IInv, PartialsPlace, Pos
  <2>2. PartialsCount' = PartialsCount - 1
    BY <1>1, <1>2, <1>3, StepFacts, StateFacts DEF PartialsCount
  <2>3. LastOut' = LastOut /\ Pos(compute.s)' = Pos(compute.s)
    BY <1>1, <1>2, StepFacts DEF LastOut, Pos
  <2>4. cbPart'.rd = Pos(compute.s + 1)'
    <3>1. compute'.s = compute.s /\ NumSubblocks' = NumSubblocks
      BY <1>1, <1>2, StepFacts
    <3> QED
      BY <1>4, <2>1, <3>1 DEF Pos
  <2> QED
    BY <1>2, <1>3, <1>4, <2>1, <2>2, <2>3, <2>4, StateFacts DEF PartialsPlace
<1>11. InStep'
  BY <1>1, <1>2, <1>3, OperandsInStep, InStepFrame
<1> QED
  BY <1>7, <1>8, <1>9, <1>10, <1>11 DEF IInv

LEMMA MatmulTilesIInv ==
  ASSUME IInv, MatmulTiles
  PROVE  IInv'
<1>1. /\ UNCHANGED <<args, reader, rw, cbIn0, cbIn1, cbOut, cbPart, in0L1, in1L1,
                     outL1, written>>
      /\ compute.pc = "math"
      /\ dst' = Append(dst, <<in0L1[cbIn0.rd], in1L1[cbIn1.rd]>>)
      /\ compute' = [compute EXCEPT !.pc = "pack"]
  BY DEF MatmulTiles
<1>2. compute' = [pc |-> "pack", o |-> compute.o, k |-> compute.k,
                  s |-> compute.s, reload |-> compute.reload,
                  toWait |-> compute.toWait]
  BY <1>1, ComputeTypes
<1>3. /\ compute.s < NumSubblocks /\ compute.o < NumOuter
      /\ cbIn0.cnt >= 1 /\ cbIn1.cnt >= 1
  BY <1>1 DEF IInv, ComputePlace
<1>4. dst' \in Seq(Block \X Block)
  <2>1. in0L1[cbIn0.rd] \in Block /\ in1L1[cbIn1.rd] \in Block
    BY DEF IInv, TypeOK, CB
  <2>2. dst \in Seq(Block \X Block)
    BY DEF IInv, TypeOK
  <2> HIDE DEF Block
  <2>3. <<in0L1[cbIn0.rd], in1L1[cbIn1.rd]>> \in Block \X Block
    BY <2>1
  <2> QED
    BY <1>1, <2>2, <2>3
<1>5. compute' \in [pc : {"wait", "reload", "math", "pack", "push", "pop", "done"},
                    o : 0 .. NumOuter, k : 0 .. args.numBlocks - 1,
                    s : 0 .. NumSubblocks, reload : BOOLEAN,
                    toWait : 1 .. NumSubblocks + 1]
  <2>1. compute.reload \in BOOLEAN
    BY DEF IInv, TypeOK
  <2> QED
    BY <1>2, <2>1, StateFacts
<1>6. TypeOK'
  BY <1>1, <1>4, <1>5, StepFacts DEF IInv, TypeOK
<1>7. ReaderPlace' /\ RWPlace'
  BY <1>1, InputFrame
<1>8. ComputePlace'
  BY <1>1, <1>2, <1>3, StepFacts, StateFacts DEF IInv, ComputePlace, LastOut
<1>9. PartialsPlace'
  BY <1>1, <1>2, StepFacts, StateFacts
  DEF IInv, PartialsPlace, PartialsCount, LastOut, Pos
<1>10. InStep'
  BY <1>1, <1>2, <1>3, OperandsInStep, InStepFrame
<1> QED
  BY <1>6, <1>7, <1>8, <1>9, <1>10 DEF IInv

LEMMA PackOutIInv ==
  ASSUME IInv, PackOut
  PROVE  IInv'
<1>1. /\ UNCHANGED <<args, reader, rw, cbIn0, cbIn1, cbOut, cbPart, in0L1, in1L1,
                     dst, written>>
      /\ compute.pc = "pack" /\ LastOut
      /\ cbOut.cnt + 1 <= NumSubblocks
      /\ outL1' = [outL1 EXCEPT ![cbOut.wr] = [s |-> compute.s, sum |-> dst]]
      /\ compute' = [compute EXCEPT !.pc = "push"]
  BY DEF PackOut, HasRoom
<1>2. compute' = [pc |-> "push", o |-> compute.o, k |-> compute.k,
                  s |-> compute.s, reload |-> compute.reload,
                  toWait |-> compute.toWait]
  BY <1>1, ComputeTypes
<1>3. /\ compute.s < NumSubblocks /\ compute.o < NumOuter
      /\ cbIn0.cnt >= 1 /\ cbIn1.cnt >= 1
  BY <1>1 DEF IInv, ComputePlace
<1>4. outL1' \in [0 .. NumSubblocks - 1 ->
                    [s : 0 .. NumSubblocks - 1, sum : Seq(Block \X Block)]]
  <2>1. [s |-> compute.s, sum |-> dst] \in
          [s : 0 .. NumSubblocks - 1, sum : Seq(Block \X Block)]
    <3>1. dst \in Seq(Block \X Block)
      BY DEF IInv, TypeOK
    <3>2. compute.s \in 0 .. NumSubblocks - 1
      BY <1>3, StateFacts
    <3> QED
      BY <3>1, <3>2
  <2>2. outL1 \in [0 .. NumSubblocks - 1 ->
                    [s : 0 .. NumSubblocks - 1, sum : Seq(Block \X Block)]]
    BY DEF IInv, TypeOK
  <2> QED
    BY <1>1, <2>1, <2>2
<1>5. compute' \in [pc : {"wait", "reload", "math", "pack", "push", "pop", "done"},
                    o : 0 .. NumOuter, k : 0 .. args.numBlocks - 1,
                    s : 0 .. NumSubblocks, reload : BOOLEAN,
                    toWait : 1 .. NumSubblocks + 1]
  <2>1. compute.reload \in BOOLEAN
    BY DEF IInv, TypeOK
  <2> QED
    BY <1>2, <2>1, StateFacts
<1>6. TypeOK'
  BY <1>1, <1>4, <1>5, StepFacts DEF IInv, TypeOK
<1>7. ReaderPlace' /\ RWPlace'
  BY <1>1, InputFrame
<1>8. ComputePlace'
  <2>1. LastOut'
    BY <1>1, <1>2 DEF LastOut
  <2>2. cbOut'.cnt < NumSubblocks'
    BY <1>1, StepFacts, StateFacts
  <2> QED
    BY <1>1, <1>2, <1>3, <2>1, <2>2, StepFacts DEF IInv, ComputePlace
<1>9. PartialsPlace'
  BY <1>1, <1>2, StepFacts, StateFacts
  DEF IInv, PartialsPlace, PartialsCount, LastOut, Pos
<1>10. InStep'
  BY <1>1, <1>2, <1>3, OperandsInStep, InStepFrame
<1> QED
  BY <1>6, <1>7, <1>8, <1>9, <1>10 DEF IInv

LEMMA PackPartialIInv ==
  ASSUME IInv, PackPartial
  PROVE  IInv'
<1>1. /\ UNCHANGED <<args, reader, rw, cbIn0, cbIn1, cbOut, cbPart, in0L1, in1L1,
                     dst, written>>
      /\ compute.pc = "pack" /\ ~LastOut
      /\ outL1' = [outL1 EXCEPT ![cbPart.wr] = [s |-> compute.s, sum |-> dst]]
      /\ compute' = [compute EXCEPT !.pc = "push",
                       !.toWait = IF compute.k = 0 THEN compute.toWait + 1
                                  ELSE compute.toWait]
  BY DEF PackPartial
<1>2. compute' = [pc |-> "push", o |-> compute.o, k |-> compute.k,
                  s |-> compute.s, reload |-> compute.reload,
                  toWait |-> IF compute.k = 0 THEN compute.toWait + 1
                             ELSE compute.toWait]
  BY <1>1, ComputeTypes
<1>3. /\ compute.s < NumSubblocks /\ compute.o < NumOuter
      /\ cbIn0.cnt >= 1 /\ cbIn1.cnt >= 1
      /\ compute.k = 0 => compute.toWait = compute.s + 1
      /\ compute.reload <=> compute.k > 0
  BY <1>1 DEF IInv, ComputePlace
<1>4. outL1' \in [0 .. NumSubblocks - 1 ->
                    [s : 0 .. NumSubblocks - 1, sum : Seq(Block \X Block)]]
  <2>1. [s |-> compute.s, sum |-> dst] \in
          [s : 0 .. NumSubblocks - 1, sum : Seq(Block \X Block)]
    <3>1. dst \in Seq(Block \X Block)
      BY DEF IInv, TypeOK
    <3>2. compute.s \in 0 .. NumSubblocks - 1
      BY <1>3, StateFacts
    <3> QED
      BY <3>1, <3>2
  <2>2. outL1 \in [0 .. NumSubblocks - 1 ->
                    [s : 0 .. NumSubblocks - 1, sum : Seq(Block \X Block)]]
    BY DEF IInv, TypeOK
  <2> QED
    BY <1>1, <2>1, <2>2
<1>5. compute' \in [pc : {"wait", "reload", "math", "pack", "push", "pop", "done"},
                    o : 0 .. NumOuter, k : 0 .. args.numBlocks - 1,
                    s : 0 .. NumSubblocks, reload : BOOLEAN,
                    toWait : 1 .. NumSubblocks + 1]
  <2>1. compute.reload \in BOOLEAN
    BY DEF IInv, TypeOK
  <2>2. (IF compute.k = 0 THEN compute.toWait + 1 ELSE compute.toWait)
          \in 1 .. NumSubblocks + 1
    BY <1>3, StateFacts
  <2> QED
    BY <1>2, <2>1, <2>2, StateFacts
<1>6. TypeOK'
  BY <1>1, <1>4, <1>5, StepFacts DEF IInv, TypeOK
<1>7. ReaderPlace' /\ RWPlace'
  BY <1>1, InputFrame
<1>8. ComputePlace'
  <2>1. ~LastOut'
    BY <1>1, <1>2 DEF LastOut
  <2>2. compute'.k = 0 => compute'.toWait = compute'.s + 2
    BY <1>2, <1>3, StateFacts
  <2>3. compute'.reload <=> compute'.k > 0
    BY <1>2, <1>3
  <2>4. /\ compute'.pc = "push" /\ compute'.s = compute.s
        /\ compute'.o = compute.o
    BY <1>2
  <2> QED
    BY <1>1, <1>3, <2>1, <2>2, <2>3, <2>4, StepFacts DEF ComputePlace
<1>9. PartialsPlace'
  <2>1. /\ compute'.pc = "push" /\ compute'.s = compute.s
        /\ compute'.k = compute.k /\ LastOut' = LastOut
    BY <1>1, <1>2 DEF LastOut
  <2> QED
    BY <1>1, <2>1, StepFacts, StateFacts
    DEF IInv, PartialsPlace, PartialsCount, Pos
<1>10. InStep'
  <2>1. /\ compute'.s = compute.s /\ compute'.k = compute.k
        /\ compute'.o = compute.o
    BY <1>2
  <2> QED
    BY <1>1, <1>3, <2>1, OperandsInStep, InStepFrame
<1> QED
  BY <1>6, <1>7, <1>8, <1>9, <1>10 DEF IInv

LEMMA PushSubblockIInv ==
  ASSUME IInv, PushSubblock
  PROVE  IInv'
<1>1. /\ UNCHANGED <<args, reader, rw, cbIn0, cbIn1, in0L1, in1L1, outL1, written>>
      /\ compute.pc = "push"
      /\ IF LastOut
         THEN cbOut' = PushBack(cbOut, 1, NumSubblocks) /\ cbPart' = cbPart
         ELSE cbPart' = PushBack(cbPart, 1, NumSubblocks) /\ cbOut' = cbOut
      /\ compute' = [compute EXCEPT
                       !.pc = IF compute.s + 1 < NumSubblocks
                              THEN SubblockStart(compute.reload) ELSE "pop",
                       !.s = compute.s + 1]
      /\ dst' = <<>>
  BY DEF PushSubblock
<1>2. compute' = [pc |-> IF compute.s + 1 < NumSubblocks
                         THEN SubblockStart(compute.reload) ELSE "pop",
                  o |-> compute.o, k |-> compute.k, s |-> compute.s + 1,
                  reload |-> compute.reload, toWait |-> compute.toWait]
  BY <1>1, ComputeTypes
<1>3. /\ compute.s < NumSubblocks /\ compute.o < NumOuter
      /\ cbIn0.cnt >= 1 /\ cbIn1.cnt >= 1
      /\ compute.k = 0 /\ ~LastOut => compute.toWait = compute.s + 2
      /\ compute.reload <=> compute.k > 0
      /\ LastOut => cbOut.cnt < NumSubblocks
  BY <1>1 DEF IInv, ComputePlace
<1>4. /\ compute'.s = compute.s + 1 /\ compute'.k = compute.k
      /\ compute'.o = compute.o /\ compute'.toWait = compute.toWait
      /\ compute'.reload = compute.reload
      /\ LastOut' = LastOut
      /\ args' = args /\ NumSubblocks' = NumSubblocks /\ NumOuter' = NumOuter
  BY <1>1, <1>2, StepFacts DEF LastOut
<1>5. compute'.pc = IF compute.s + 1 < NumSubblocks
                    THEN IF compute.k > 0 THEN "reload" ELSE "math"
                    ELSE "pop"
  BY <1>2, <1>3 DEF SubblockStart
<1>6. /\ cbPart.cnt = PartialsCount
      /\ cbPart.wr = IF LastOut THEN 0 ELSE compute.s
      /\ cbPart.rd = IF compute.k = 0 THEN 0 ELSE Pos(compute.s + 1)
  BY <1>1, <1>3, StateFacts DEF IInv, PartialsPlace, Pos
<1>7. ~LastOut => cbPart.cnt < NumSubblocks
  BY <1>1, <1>3, <1>6, StateFacts DEF PartialsCount, LastOut
<1>8. cbOut \in CB(NumSubblocks) /\ cbPart \in CB(NumSubblocks)
  BY DEF IInv, TypeOK
<1>9. LastOut => /\ cbOut' \in CB(NumSubblocks) /\ cbOut'.cnt = cbOut.cnt + 1
                 /\ cbOut'.rd = cbOut.rd
                 /\ cbOut'.wr = IF cbOut.wr + 1 = NumSubblocks THEN 0
                                ELSE cbOut.wr + 1
                 /\ cbPart' = cbPart
  <2> SUFFICES ASSUME LastOut
               PROVE  /\ cbOut' \in CB(NumSubblocks) /\ cbOut'.cnt = cbOut.cnt + 1
                      /\ cbOut'.rd = cbOut.rd
                      /\ cbOut'.wr = IF cbOut.wr + 1 = NumSubblocks THEN 0
                                     ELSE cbOut.wr + 1
                      /\ cbPart' = cbPart
    OBVIOUS
  <2>1. cbOut.cnt < NumSubblocks /\ NumSubblocks \in Nat \ {0}
    BY <1>3, StateFacts
  <2>2. cbOut' = PushBack(cbOut, 1, NumSubblocks) /\ cbPart' = cbPart
    BY <1>1
  <2> QED
    BY <1>8, <2>1, <2>2, PushFacts
<1>10. ~LastOut => /\ cbPart' \in CB(NumSubblocks)
                   /\ cbPart'.cnt = cbPart.cnt + 1
                   /\ cbPart'.rd = cbPart.rd
                   /\ cbPart'.wr = IF cbPart.wr + 1 = NumSubblocks THEN 0
                                   ELSE cbPart.wr + 1
                   /\ cbOut' = cbOut
  <2> SUFFICES ASSUME ~LastOut
               PROVE  /\ cbPart' \in CB(NumSubblocks)
                      /\ cbPart'.cnt = cbPart.cnt + 1
                      /\ cbPart'.rd = cbPart.rd
                      /\ cbPart'.wr = IF cbPart.wr + 1 = NumSubblocks THEN 0
                                      ELSE cbPart.wr + 1
                      /\ cbOut' = cbOut
    OBVIOUS
  <2>1. cbPart.cnt < NumSubblocks /\ NumSubblocks \in Nat \ {0}
    BY <1>7, StateFacts
  <2>2. cbPart' = PushBack(cbPart, 1, NumSubblocks) /\ cbOut' = cbOut
    BY <1>1
  <2> QED
    BY <1>8, <2>1, <2>2, PushFacts
<1>11. cbOut' \in CB(NumSubblocks) /\ cbPart' \in CB(NumSubblocks)
  BY <1>8, <1>9, <1>10
<1>12. compute' \in [pc : {"wait", "reload", "math", "pack", "push", "pop", "done"},
                     o : 0 .. NumOuter, k : 0 .. args.numBlocks - 1,
                     s : 0 .. NumSubblocks, reload : BOOLEAN,
                     toWait : 1 .. NumSubblocks + 1]
  <2>1. compute.reload \in BOOLEAN
    BY DEF IInv, TypeOK
  <2>2. compute.s + 1 \in 0 .. NumSubblocks
    BY <1>3, StateFacts
  <2>3. SubblockStart(compute.reload) \in {"reload", "math"}
    BY DEF SubblockStart
  <2> QED
    BY <1>2, <2>1, <2>2, <2>3, StateFacts
<1>13. TypeOK'
  <2>1. dst' \in Seq(Block \X Block)
    BY <1>1
  <2> QED
    BY <1>1, <1>11, <1>12, <2>1, StepFacts DEF IInv, TypeOK
<1>14. ReaderPlace' /\ RWPlace'
  <2>1. /\ cbIn0'.cnt \in Nat /\ cbIn0'.cnt <= cbIn0.cnt
        /\ cbIn1'.cnt \in Nat /\ cbIn1'.cnt <= cbIn1.cnt
    <3>1. cbIn0' = cbIn0 /\ cbIn1' = cbIn1
      BY <1>1
    <3> QED
      BY <3>1, StateFacts
  <2>2. cbOut'.cnt \in Nat /\ cbOut'.cnt >= cbOut.cnt
    BY <1>9, <1>10, StateFacts
  <2>3. ReaderPlace'
    BY <1>1, <2>1, ReaderFrame
  <2>4. RWPlace'
    BY <1>1, <2>1, <2>2, RWFrame
  <2> QED
    BY <2>3, <2>4
<1>15. ComputePlace'
  <2>1. compute'.pc \in {"reload", "math", "pop"}
    BY <1>5
  <2>2. /\ compute'.pc = "pop" => compute'.s = NumSubblocks
        /\ compute'.pc \in {"reload", "math"} => compute'.s < NumSubblocks
    BY <1>3, <1>4, <1>5, StateFacts
  <2>3. compute'.reload <=> compute'.k > 0
    BY <1>3, <1>4
  <2>4. compute'.pc = "reload" => compute'.k > 0
    BY <1>4, <1>5
  <2>5. compute'.k = 0 /\ ~LastOut' => compute'.toWait = compute'.s + 1
    BY <1>3, <1>4, StateFacts
  <2>6. cbIn0'.cnt >= 1 /\ cbIn1'.cnt >= 1 /\ compute'.o < NumOuter'
    BY <1>1, <1>3, <1>4
  <2> QED
    BY <1>4, <2>1, <2>2, <2>3, <2>4, <2>5, <2>6 DEF ComputePlace
<1>16. PartialsPlace'
  <2>1. Pos(compute.s)' = Pos(compute.s + 1) /\ compute.s \in Nat
    BY <1>4, StateFacts DEF Pos
  <2>2. cbPart'.wr = IF LastOut THEN 0 ELSE Pos(compute.s + 1)
    BY <1>6, <1>9, <1>10 DEF Pos
  <2>3. cbPart'.rd = IF compute.k = 0 THEN 0 ELSE Pos(compute.s + 1)
    BY <1>6, <1>9, <1>10
  <2>4. cbPart'.cnt = PartialsCount'
    <3>1. CASE args.numBlocks = 1
      <4>1. LastOut
        BY <3>1, StateFacts DEF LastOut
      <4> QED
        BY <1>4, <1>6, <1>9, <3>1, <4>1 DEF PartialsCount
    <3>2. CASE args.numBlocks # 1 /\ compute.k = 0
      <4>1. ~LastOut
        BY <3>2, StateFacts DEF LastOut
      <4> QED
        BY <1>4, <1>6, <1>10, <3>2, <4>1 DEF PartialsCount
    <3>3. CASE compute.k > 0 /\ ~LastOut
      <4>1. compute.k < args.numBlocks - 1 /\ args.numBlocks # 1
        BY <3>3, StateFacts DEF LastOut
      <4>2. compute'.pc \in {"reload", "pop"}
        BY <1>5, <3>3
      <4> QED
        <5>1. cbPart'.cnt = NumSubblocks
          <6>1. compute.k # 0
            BY <3>3, StateFacts
          <6>2. PartialsCount = NumSubblocks - 1
            BY <1>1, <4>1, <6>1 DEF PartialsCount
          <6>3. cbPart'.cnt = cbPart.cnt + 1 /\ cbPart.cnt = NumSubblocks - 1
            BY <1>6, <1>10, <3>3, <6>2
          <6> QED
            BY <6>3, StateFacts
        <5> QED
          BY <1>4, <3>3, <4>1, <4>2, <5>1, StateFacts DEF PartialsCount
    <3>4. CASE compute.k > 0 /\ LastOut
      <4>1. compute.k = args.numBlocks - 1 /\ args.numBlocks # 1
        BY <3>4, StateFacts DEF LastOut
      <4>2. compute'.pc \in {"reload", "pop"}
        BY <1>5, <3>4
      <4> QED
        <5>1. cbPart'.cnt = NumSubblocks - compute.s - 1
          BY <1>1, <1>6, <1>9, <3>4, <4>1, StateFacts DEF PartialsCount
        <5>2. PartialsCount' = NumSubblocks - (compute.s + 1)
          BY <1>4, <3>4, <4>1, <4>2, StateFacts DEF PartialsCount
        <5> QED
          BY <5>1, <5>2, StateFacts
    <3> QED
      BY <3>1, <3>2, <3>3, <3>4, StateFacts
  <2>5. compute'.k > 0 => compute'.pc \in {"reload", "pop"}
    BY <1>4, <1>5
  <2>6. compute'.k = 0 \/ compute'.k > 0
    BY <1>4, StateFacts
  <2> QED
    BY <1>4, <2>1, <2>2, <2>3, <2>4, <2>5, <2>6 DEF PartialsPlace
<1>17. InStep'
  <2>1. InStep
    BY <1>1, <1>3, OperandsInStep
  <2>2. Drained' = Drained
    BY <1>1, DrainedFrame
  <2>3. Drained \in Nat
    BY DrainedFacts
  <2>4. CASE LastOut
    <3>1. Produced = compute.s /\ Produced' = compute.s + 1
      BY <1>4, <2>4 DEF Produced
    <3>2. cbOut'.wr = Pos(compute.s + 1)
      BY <1>3, <1>9, <2>1, <2>4, <3>1, StateFacts DEF InStep, Pos
    <3>3. cbOut'.wr = Pos(Produced)'
      BY <1>4, <3>1, <3>2 DEF Pos
    <3>4. cbOut'.rd = Pos(Drained)'
      BY <1>4, <1>9, <2>1, <2>2, <2>4 DEF InStep, Pos
    <3>5. cbOut'.cnt = Produced' - Drained'
      BY <1>9, <2>1, <2>2, <2>3, <2>4, <3>1, StateFacts DEF InStep
    <3> QED
      BY <1>1, <1>4, <2>1, <3>3, <3>4, <3>5 DEF InStep
  <2>5. CASE ~LastOut
    <3>1. Produced = 0 /\ Produced' = 0
      BY <1>4, <2>5 DEF Produced
    <3> QED
      BY <1>1, <1>4, <1>10, <2>1, <2>2, <2>5, <3>1 DEF InStep, Pos
  <2> QED
    BY <2>4, <2>5
<1> QED
  BY <1>13, <1>14, <1>15, <1>16, <1>17 DEF IInv

\* The compute kernel leaves a K block, or the outer block: then the writer is
\* still storing it (WriterBehind) or has already left it (InStep).
LEMMA PopOperandsIInv ==
  ASSUME IInv, PopOperands
  PROVE  IInv'
<1>1. /\ UNCHANGED <<args, reader, rw, cbOut, cbPart, in0L1, in1L1, outL1, dst,
                     written>>
      /\ compute.pc = "pop"
      /\ cbIn0' = PopFront(cbIn0, 1, 2) /\ cbIn1' = PopFront(cbIn1, 1, 2)
  BY DEF PopOperands, NumBuffer
<1> DEFINE next == compute.k + 1 < args.numBlocks
<1>2. next => compute' = [pc |-> "wait", o |-> compute.o, k |-> compute.k + 1,
                          s |-> 0, reload |-> TRUE, toWait |-> compute.toWait]
  <2> SUFFICES ASSUME next
               PROVE  compute' = [pc |-> "wait", o |-> compute.o,
                                  k |-> compute.k + 1, s |-> 0, reload |-> TRUE,
                                  toWait |-> compute.toWait]
    OBVIOUS
  <2>1. ReloadAfter(compute.k)
    BY StateFacts DEF ReloadAfter
  <2>2. compute' = [compute EXCEPT !.pc = "wait", !.k = compute.k + 1, !.s = 0,
                                   !.reload = ReloadAfter(compute.k)]
    BY DEF PopOperands
  <2>3. compute' = [pc |-> "wait", o |-> compute.o, k |-> compute.k + 1, s |-> 0,
                    reload |-> ReloadAfter(compute.k), toWait |-> compute.toWait]
    BY <2>2, ComputeTypes
  <2>4. ReloadAfter(compute.k) = TRUE
    BY <2>1 DEF ReloadAfter
  <2> QED
    BY <2>3, <2>4
<1>3. ~next => compute' =
        [pc |-> IF compute.o + 1 = NumOuter THEN "done" ELSE "wait",
         o |-> compute.o + 1, k |-> 0, s |-> 0, reload |-> FALSE, toWait |-> 1]
  <2>1. ~next => ReloadAfter(compute.k) = FALSE
    BY DEF ReloadAfter
  <2> QED
    BY <2>1 DEF PopOperands, NextOuter
<1> HIDE DEF next
<1>4. /\ next => compute.k + 1 < args.numBlocks
      /\ ~next => LastOut
      /\ next => ~LastOut
  BY StateFacts DEF next, LastOut
<1>5. /\ compute.s = NumSubblocks /\ compute.o < NumOuter
      /\ cbIn0.cnt >= 1 /\ cbIn1.cnt >= 1
  BY <1>1 DEF IInv, ComputePlace
<1>6. cbIn0' \in CB(2) /\ cbIn0'.cnt = cbIn0.cnt - 1
      /\ cbIn1' \in CB(2) /\ cbIn1'.cnt = cbIn1.cnt - 1
  <2>1. cbIn0 \in CB(2) /\ cbIn1 \in CB(2)
    BY DEF IInv, TypeOK, NumBuffer
  <2>2. cbIn0.rd + 1 <= 2 /\ cbIn1.rd + 1 <= 2
    BY <2>1 DEF CB
  <2>3. cbIn0.cnt >= 1 /\ cbIn1.cnt >= 1
    BY <1>5
  <2> QED
    BY <1>1, <2>1, <2>2, <2>3, PopFacts
<1>7. compute' \in [pc : {"wait", "reload", "math", "pack", "push", "pop", "done"},
                    o : 0 .. NumOuter, k : 0 .. args.numBlocks - 1,
                    s : 0 .. NumSubblocks, reload : BOOLEAN,
                    toWait : 1 .. NumSubblocks + 1]
  <2>1. CASE next
    <3>1. compute.k + 1 \in 0 .. args.numBlocks - 1 /\ 0 \in 0 .. NumSubblocks
      BY <1>4, <2>1, StateFacts
    <3>2. compute' = [pc |-> "wait", o |-> compute.o, k |-> compute.k + 1,
                      s |-> 0, reload |-> TRUE, toWait |-> compute.toWait]
      BY <1>2, <2>1
    <3>3. /\ compute.o \in 0 .. NumOuter
          /\ compute.toWait \in 1 .. NumSubblocks + 1
      BY StateFacts
    <3> QED
      BY <3>1, <3>2, <3>3
  <2>2. CASE ~next
    <3>1. /\ compute.o + 1 \in 0 .. NumOuter /\ 0 \in 0 .. args.numBlocks - 1
          /\ 0 \in 0 .. NumSubblocks /\ 1 \in 1 .. NumSubblocks + 1
      BY <1>5, StateFacts
    <3>2. compute' = [pc |-> IF compute.o + 1 = NumOuter THEN "done" ELSE "wait",
                      o |-> compute.o + 1, k |-> 0, s |-> 0, reload |-> FALSE,
                      toWait |-> 1]
      BY <1>3, <2>2
    <3> QED
      BY <3>1, <3>2
  <2> QED
    BY <2>1, <2>2
<1>8. TypeOK'
  BY <1>1, <1>6, <1>7, StepFacts DEF IInv, TypeOK, NumBuffer
<1>9. ReaderPlace' /\ RWPlace'
  <2>1. /\ cbIn0'.cnt \in Nat /\ cbIn0'.cnt <= cbIn0.cnt
        /\ cbIn1'.cnt \in Nat /\ cbIn1'.cnt <= cbIn1.cnt
        /\ cbOut'.cnt \in Nat /\ cbOut'.cnt >= cbOut.cnt
    BY <1>1, <1>5, <1>6, StateFacts
  <2>2. ReaderPlace'
    BY <1>1, <2>1, ReaderFrame
  <2>3. RWPlace'
    BY <1>1, <2>1, RWFrame
  <2> QED
    BY <2>2, <2>3
<1>10. args' = args /\ NumSubblocks' = NumSubblocks /\ NumOuter' = NumOuter
  BY <1>1, StepFacts
<1>11. ComputePlace'
  <2>1. CASE next
    <3>1. /\ compute'.pc = "wait" /\ compute'.s = 0 /\ compute'.o = compute.o
          /\ compute'.k = compute.k + 1 /\ compute'.reload = TRUE
      BY <1>2, <2>1
    <3>2. compute'.k > 0
      BY <3>1, StateFacts
    <3> QED
      BY <1>5, <1>10, <3>1, <3>2 DEF ComputePlace
  <2>2. CASE ~next
    <3>1. /\ compute'.pc = IF compute.o + 1 = NumOuter THEN "done" ELSE "wait"
          /\ compute'.s = 0 /\ compute'.o = compute.o + 1
          /\ compute'.k = 0 /\ compute'.reload = FALSE /\ compute'.toWait = 1
      BY <1>3, <2>2
    <3>2. /\ compute'.pc = "done" => compute'.o = NumOuter
          /\ compute'.pc # "done" => compute'.o < NumOuter
      BY <1>5, <3>1, StateFacts
    <3> QED
      BY <1>10, <3>1, <3>2 DEF ComputePlace
  <2> QED
    BY <2>1, <2>2
<1>12. cbPart.wr = 0 /\ cbPart.rd = 0
  BY <1>1, <1>5, StateFacts DEF IInv, PartialsPlace, Pos
<1>13. PartialsPlace'
  <2>1. cbPart.cnt = PartialsCount
    BY DEF IInv, PartialsPlace
  <2>2. compute'.s = 0 /\ compute'.pc \in {"wait", "done"}
    BY <1>2, <1>3
  <2>3. Pos(compute.s)' = 0 /\ NumSubblocks \in Nat \ {0}
    BY <1>10, <2>2, StateFacts DEF Pos
  <2>4. PartialsCount' = PartialsCount
    <3>1. CASE next
      <4>1. compute'.k = compute.k + 1
        BY <1>2, <3>1
      <4>2. compute.k + 1 < args.numBlocks /\ args.numBlocks # 1
        BY <1>4, <3>1, StateFacts
      <4> QED
        BY <1>1, <1>5, <1>10, <2>2, <4>1, <4>2, StateFacts DEF PartialsCount
    <3>2. CASE ~next
      <4>1. compute'.k = 0
        BY <1>3, <3>2
      <4>2. compute.k = args.numBlocks - 1
        BY <1>4, <3>2 DEF LastOut
      <4> QED
        BY <1>1, <1>5, <1>10, <2>2, <4>1, <4>2, StateFacts DEF PartialsCount
    <3> QED
      BY <3>1, <3>2
  <2> QED
    BY <1>1, <1>12, <2>1, <2>2, <2>3, <2>4 DEF PartialsPlace
<1>14. (InStep \/ WriterBehind \/ WriterAhead)'
  <2>1. Drained' = Drained
    BY <1>1, DrainedFrame
  <2>2. CASE InStep /\ next
    <3>1. compute'.k = compute.k + 1 /\ compute'.s = 0 /\ compute'.o = compute.o
      BY <1>2, <2>2
    <3>2. Produced = 0 /\ Produced' = 0
      BY <1>4, <2>2, <3>1 DEF Produced
    <3>3. cbIn1'.cnt = rw.k - (compute.k + 1)
      BY <1>6, <2>2, StateFacts DEF InStep
    <3> QED
      BY <1>1, <1>10, <2>1, <2>2, <3>1, <3>2, <3>3 DEF InStep, Pos
  <2>3. CASE InStep /\ ~next
    <3>1. /\ compute'.k = 0 /\ compute'.o = compute.o + 1
          /\ compute'.pc \in {"wait", "done"}
      BY <1>3, <2>3
    <3>2. compute.k = args.numBlocks - 1 /\ Produced = NumSubblocks
      BY <1>4, <1>5, <2>3 DEF LastOut, Produced
    <3>3. rw.k = args.numBlocks /\ cbIn1.cnt = 1
      BY <1>5, <2>3, <3>2, StateFacts DEF InStep
    <3>4. rw.pc \in {"front", "store", "skipW", "skipH"}
      <4>1. rw.pc \in {"reserve", "read", "front", "store", "skipW", "skipH",
                       "done"}
        BY DEF IInv, TypeOK
      <4>2. ~(rw.pc \in {"reserve", "read"})
        BY <3>3, StateFacts DEF IInv, RWPlace
      <4>3. rw.pc # "done"
        BY <3>3, StateFacts DEF IInv, RWPlace
      <4> QED
        BY <4>1, <4>2, <4>3
    <3>5. /\ cbOut.cnt = NumSubblocks - Drained /\ cbOut.rd = Pos(Drained)
          /\ cbOut.wr = 0 /\ rw.o = compute.o
      BY <2>3, <3>2 DEF InStep, Pos
    <3>6. cbIn1'.cnt = 0
      BY <1>6, <3>3
    <3>7. Pos(Drained)' = Pos(Drained)
      BY <1>10, <2>1 DEF Pos
    <3> QED
      BY <1>1, <1>10, <2>1, <3>1, <3>4, <3>5, <3>6, <3>7 DEF WriterBehind
  <2>4. CASE WriterAhead
    <3>1. ~next
      BY <1>4, <2>4 DEF WriterAhead
    <3>2. compute'.k = 0 /\ compute'.s = 0 /\ compute'.o = compute.o + 1
      BY <1>3, <3>1
    <3>3. Produced' = 0
      BY <3>2 DEF Produced
    <3>4. Drained = 0
      BY <2>4, StateFacts, RowProduct DEF WriterAhead, Drained
    <3>5. cbIn1'.cnt = rw.k - 0
      BY <1>6, <2>4, StateFacts DEF WriterAhead
    <3>6. cbOut'.cnt = 0 - 0 /\ cbOut'.rd = 0 /\ cbOut'.wr = 0
      BY <1>1, <2>4 DEF WriterAhead
    <3>7. Pos(Drained)' = 0 /\ Pos(Produced)' = 0
      BY <1>10, <2>1, <3>3, <3>4, StateFacts DEF Pos
    <3>8. rw'.o = compute'.o /\ rw'.k = rw.k
      BY <1>1, <2>4, <3>2 DEF WriterAhead
    <3> QED
      BY <2>1, <3>2, <3>3, <3>4, <3>5, <3>6, <3>7, <3>8 DEF InStep
  <2> QED
    BY <1>1, <2>2, <2>3, <2>4 DEF IInv, WriterBehind
<1> QED
  BY <1>8, <1>9, <1>11, <1>13, <1>14 DEF IInv
-------------------------------------------------------------------------------
(* The theorems *)

LEMMA StutterIInv ==
  ASSUME IInv, UNCHANGED vars
  PROVE  IInv'
<1>1. UNCHANGED <<args, reader, rw, compute, cbIn0, cbIn1, cbOut, cbPart, in0L1,
                  in1L1, outL1, dst, written>>
  BY DEF vars
<1>2. TypeOK'
  BY <1>1, StepFacts DEF IInv, TypeOK
<1>3. ReaderPlace' /\ RWPlace'
  BY <1>1, InputFrame
<1>4. ComputePlace' /\ PartialsPlace'
  BY <1>1, ComputeFrame, StateFacts
<1>5. (InStep \/ WriterBehind \/ WriterAhead)'
  BY <1>1, RelationFrame
<1> QED
  BY <1>2, <1>3, <1>4, <1>5 DEF IInv

LEMMA NextIInv ==
  ASSUME IInv, [Next]_vars
  PROVE  IInv'
<1>1. CASE ReaderStep
  BY <1>1, In0ReserveIInv, In0PushIInv DEF ReaderStep
<1>2. CASE RWStep
  BY <1>2, In1ReserveIInv, In1PushIInv, StoreIssueIInv, StoreBarrierIInv,
     SkipRowTailIInv, SkipRowsIInv DEF RWStep
<1>3. CASE ComputeStep
  BY <1>3, WaitOperandsIInv, ReloadIInv, MatmulTilesIInv, PackOutIInv,
     PackPartialIInv, PushSubblockIInv, PopOperandsIInv DEF ComputeStep
<1>4. CASE Finished \/ UNCHANGED vars
  BY <1>4, StutterIInv DEF Finished
<1> QED
  BY <1>1, <1>2, <1>3, <1>4 DEF Next

\* The invariant, for every set of programs.
THEOREM CoreInvariant == Spec => []IInv
<1>1. Init => IInv
  BY InitIInv
<1>2. IInv /\ [Next]_vars => IInv'
  BY NextIInv
<1> QED
  BY <1>1, <1>2, PTL DEF Spec

\* cb_reserve_back and cb_wait_front keep every CB within its capacity and every
\* FIFO position inside its buffer, whatever the program's dimensions.
THEOREM TypeCorrect == Spec => []TypeOK
<1>1. IInv => TypeOK
  BY DEF IInv
<1> QED
  BY <1>1, CoreInvariant, PTL

LEMMA DrainedWhenPacking ==
  ASSUME IInv, compute.pc = "pack", ~LastOut
  PROVE  cbOut.cnt = 0
<1>1. cbIn1.cnt >= 1
  BY DEF IInv, ComputePlace
<1>2. InStep /\ Produced = 0
  BY <1>1, OperandsInStep DEF Produced
<1>3. cbOut.cnt = 0 - Drained
  BY <1>2 DEF InStep
<1> QED
  BY <1>3, DrainedFacts, StateFacts

\* The growing wait on CB16 never has to block: the first partial sum of an
\* outer block is packed when the writer has stored all of the one before.
THEOREM OutputIsDrained == Spec => []PartialsFindOutputDrained
<1>1. IInv => PartialsFindOutputDrained
  BY DrainedWhenPacking DEF PartialsFindOutputDrained
<1> QED
  BY <1>1, CoreInvariant, PTL

\* The entries of a CB with none, and of one whose entries do not wrap.
LEMMA LiveFacts ==
  ASSUME NEW size \in Nat \ {0}, NEW cb, cb.rd \in 0 .. size - 1,
         cb.cnt \in 0 .. size
  PROVE  /\ cb.cnt = 0 => Live(cb, size) = {}
         /\ cb.rd + cb.cnt <= size =>
              \A i \in Live(cb, size) : cb.rd <= i /\ i < cb.rd + cb.cnt
  BY DEF Live

\* While the compute kernel writes final sums, CB16 and CB24 hold the subblocks
\* below and above the one it is working on.
LEMMA LastBlockLive ==
  ASSUME IInv, InStep, LastOut
  PROVE  /\ \A i \in Live(cbOut, NumSubblocks) : i < compute.s
         /\ \A i \in Live(cbPart, NumSubblocks) :
              IF compute.pc \in {"math", "pack", "push"}
              THEN i > compute.s ELSE i >= compute.s
<1>1. Produced = compute.s /\ Drained \in 0 .. NumSubblocks
  BY DrainedFacts DEF Produced
<1>2. /\ cbOut.cnt = compute.s - Drained /\ cbOut.rd = Pos(Drained)
      /\ cbOut.cnt \in 0 .. NumSubblocks /\ cbOut.rd \in 0 .. NumSubblocks - 1
      /\ compute.s \in 0 .. NumSubblocks /\ NumSubblocks \in Nat \ {0}
  BY <1>1, StateFacts DEF InStep
<1>3. \A i \in Live(cbOut, NumSubblocks) : i < compute.s
  <2>1. CASE Drained = NumSubblocks
    <3>1. cbOut.cnt = 0
      BY <1>1, <1>2, <2>1
    <3> QED
      BY <1>2, <3>1, LiveFacts
  <2>2. CASE Drained < NumSubblocks
    <3>1. cbOut.rd = Drained /\ cbOut.rd + cbOut.cnt = compute.s
      BY <1>1, <1>2, <2>2 DEF Pos
    <3>2. cbOut.rd + cbOut.cnt <= NumSubblocks
      BY <1>2, <3>1
    <3> QED
      BY <1>2, <3>1, <3>2, LiveFacts
  <2> QED
    BY <1>1, <1>2, <2>1, <2>2
<1>4. /\ cbPart.cnt \in 0 .. NumSubblocks /\ cbPart.rd \in 0 .. NumSubblocks - 1
      /\ args.numBlocks \in Nat \ {0}
      /\ compute.k = args.numBlocks - 1
      /\ cbPart.cnt = PartialsCount
  BY StateFacts DEF IInv, PartialsPlace, LastOut
<1>5. CASE cbPart.cnt = 0
  <2>1. Live(cbPart, NumSubblocks) = {}
    BY <1>2, <1>4, <1>5, LiveFacts
  <2> QED
    BY <1>3, <2>1
<1>6. CASE cbPart.cnt # 0
  <2> DEFINE first == IF compute.pc \in {"math", "pack", "push"}
                      THEN compute.s + 1 ELSE compute.s
  <2>1. args.numBlocks # 1 /\ compute.k # 0
    BY <1>4, <1>6 DEF PartialsCount
  <2>2. cbPart.cnt = NumSubblocks - first
    BY <1>2, <1>4, <2>1 DEF PartialsCount
  <2>3. cbPart.rd = Pos(first)
    BY <2>1 DEF IInv, PartialsPlace
  <2>4. first \in Nat /\ first < NumSubblocks
    BY <1>2, <1>4, <1>6, <2>2
  <2> HIDE DEF first
  <2>5. cbPart.rd = first
    BY <2>3, <2>4, <1>2 DEF Pos
  <2>6. \A i \in Live(cbPart, NumSubblocks) : first <= i
    <3>1. cbPart.rd + cbPart.cnt <= NumSubblocks
      BY <1>2, <2>2, <2>4, <2>5
    <3> QED
      BY <1>2, <1>4, <2>5, <3>1, LiveFacts
  <2>7. \A i \in Live(cbPart, NumSubblocks) : i \in Nat
    BY <1>2 DEF Live
  <2> QED
    BY <1>2, <1>3, <2>6, <2>7 DEF first
<1> QED
  BY <1>5, <1>6

\* Before the last K block the slot being packed is the one CB24 has free.
LEMMA EarlierBlockLive ==
  ASSUME IInv, InStep, ~LastOut
  PROVE  /\ Live(cbOut, NumSubblocks) = {}
         /\ compute.pc = "push" => cbPart.wr \notin Live(cbPart, NumSubblocks)
<1> DEFINE n == NumSubblocks
           s == compute.s
<1>1. /\ n \in Nat \ {0} /\ s \in 0 .. n
      /\ compute.k \in 0 .. args.numBlocks - 1 /\ args.numBlocks \in Nat \ {0}
  BY StateFacts
<1>2. Live(cbOut, NumSubblocks) = {}
  <2>1. cbOut.cnt = 0 - Drained
    BY DEF InStep, Produced
  <2>2. cbOut.cnt = 0
    BY <2>1, DrainedFacts, StateFacts
  <2> QED
    BY <2>2, LiveFacts, StateFacts
<1>3. ASSUME compute.pc = "push"
      PROVE  cbPart.wr \notin Live(cbPart, NumSubblocks)
  <2>1. s < n
    BY <1>3 DEF IInv, ComputePlace
  <2>2. cbPart.wr = s
    BY <1>1, <2>1 DEF IInv, PartialsPlace, Pos
  <2>3. args.numBlocks # 1 /\ compute.k # args.numBlocks - 1
    BY <1>1 DEF LastOut
  <2>4. CASE compute.k = 0
    <3>1. cbPart.cnt = s /\ cbPart.rd = 0
      BY <2>3, <2>4 DEF IInv, PartialsPlace, PartialsCount
    <3> QED
      BY <1>1, <2>1, <2>2, <3>1 DEF Live
  <2>5. CASE compute.k # 0
    <3>1. compute.k < args.numBlocks - 1
      BY <1>1, <2>3
    <3>2. cbPart.cnt = n - 1 /\ cbPart.rd = Pos(s + 1)
      BY <1>3, <2>3, <2>5, <3>1 DEF IInv, PartialsPlace, PartialsCount
    <3>3. CASE s + 1 = n
      <4>1. cbPart.rd = 0
        BY <3>2, <3>3 DEF Pos
      <4> QED
        BY <1>1, <2>2, <3>2, <3>3, <4>1 DEF Live
    <3>4. CASE s + 1 # n
      <4>1. cbPart.rd = s + 1
        BY <3>2, <3>4 DEF Pos
      <4> HIDE DEF n, s
      <4> QED
        BY <1>1, <2>1, <2>2, <3>2, <3>4, <4>1 DEF Live, n, s
    <3> QED
      BY <3>3, <3>4
  <2> QED
    BY <2>4, <2>5
<1> QED
  BY <1>2, <1>3

\* CB16 and CB24, with FIFO counters of their own in one memory, never hold an
\* entry in the same slot, nor does the compute kernel pack into a slot in use.
THEOREM SharedMemory == Spec => []SharedMemoryExclusive
<1>1. IInv => SharedMemoryExclusive
  <2> SUFFICES ASSUME IInv PROVE SharedMemoryExclusive
    OBVIOUS
  <2>1. Live(cbOut, NumSubblocks) \cap Live(cbPart, NumSubblocks) = {}
    <3>1. CASE InStep /\ LastOut
      <4>1. \A i \in Live(cbOut, NumSubblocks) :
              i \notin Live(cbPart, NumSubblocks)
        <5> SUFFICES ASSUME NEW i \in Live(cbOut, NumSubblocks),
                            i \in Live(cbPart, NumSubblocks)
                     PROVE  FALSE
          OBVIOUS
        <5>1. i \in Nat
          BY StateFacts DEF Live
        <5>2. i < compute.s /\ (i > compute.s \/ i >= compute.s)
          BY <3>1, LastBlockLive
        <5> QED
          BY <5>1, <5>2, StateFacts
      <4> QED
        BY <4>1
    <3>2. CASE InStep /\ ~LastOut
      BY <3>2, EarlierBlockLive
    <3>3. CASE WriterBehind
      <4>1. cbPart.cnt = 0
        BY <3>3 DEF IInv, WriterBehind, ComputePlace, PartialsPlace, PartialsCount
      <4> QED
        BY <4>1, LiveFacts, StateFacts
    <3>4. CASE WriterAhead
      BY <3>4, LiveFacts, StateFacts DEF WriterAhead
    <3> QED
      BY <3>1, <3>2, <3>3, <3>4 DEF IInv
  <2>2. ASSUME compute.pc = "push"
        PROVE  PackTarget \notin Live(cbOut, NumSubblocks)
                                   \cup Live(cbPart, NumSubblocks)
    <3>1. InStep /\ compute.s < NumSubblocks
      BY <2>2, OperandsInStep DEF IInv, ComputePlace
    <3>2. CASE LastOut
      <4>1. cbOut.wr = compute.s
        BY <3>1, <3>2, StateFacts DEF InStep, Produced, Pos
      <4>2. /\ \A i \in Live(cbOut, NumSubblocks) : i < compute.s
            /\ \A i \in Live(cbPart, NumSubblocks) : i > compute.s
        BY <2>2, <3>1, <3>2, LastBlockLive
      <4>3. ~(compute.s < compute.s) /\ ~(compute.s > compute.s)
        BY StateFacts
      <4>4. PackTarget = compute.s
        BY <3>2, <4>1 DEF PackTarget
      <4> QED
        BY <4>2, <4>3, <4>4
    <3>3. CASE ~LastOut
      BY <2>2, <3>1, <3>3, EarlierBlockLive DEF PackTarget
    <3> QED
      BY <3>2, <3>3
  <2> QED
    BY <2>1, <2>2 DEF SharedMemoryExclusive
<1> QED
  BY <1>1, CoreInvariant, PTL
-------------------------------------------------------------------------------
(* Every launch is finite *)

\* How far each kernel is along its loops: two steps to fetch a block, two to
\* store a subblock and one for each padding pop, and up to four for each
\* subblock to be computed.
ReaderSteps ==
  2 * (reader.o * args.numBlocks + reader.k)
    + (IF reader.pc = "read" THEN 1 ELSE 0)

RowLength == 2 * args.subW + 1

RWLength == 2 * args.numBlocks + args.subH * RowLength + 1

\* Steps of the in1 reader/writer within an outer block.
RWInBlock ==
  IF rw.pc \in {"reserve", "done"} THEN 2 * rw.k
  ELSE IF rw.pc = "read" THEN 2 * rw.k + 1
  ELSE 2 * args.numBlocks + rw.sbh * RowLength
         + (IF rw.pc = "front" THEN 2 * rw.sbw
            ELSE IF rw.pc = "store" THEN 2 * rw.sbw + 1
            ELSE IF rw.pc = "skipW" THEN 2 * args.subW ELSE 0)

RWSteps == rw.o * RWLength + RWInBlock

ComputeLength == 5 * NumSubblocks + 2

\* Steps of the compute kernel within a K block.
ComputeInBlock ==
  IF compute.pc \in {"wait", "done"} THEN 0
  ELSE 5 * compute.s + (IF compute.pc \in {"reload", "pop"} THEN 1
                        ELSE IF compute.pc = "math" THEN 2
                        ELSE IF compute.pc = "pack" THEN 3 ELSE 4)

ComputeSteps ==
  (compute.o * args.numBlocks + compute.k) * ComputeLength + ComputeInBlock

Steps == ReaderSteps + RWSteps + ComputeSteps

MaxSteps ==
  2 * ((NumOuter + 1) * args.numBlocks) + (NumOuter + 1) * RWLength
    + ((NumOuter + 1) * args.numBlocks) * ComputeLength

LEMMA Lengths ==
  ASSUME IInv
  PROVE  RowLength \in Nat /\ RWLength \in Nat /\ ComputeLength \in Nat
<1>1. RowLength \in Nat /\ ComputeLength \in Nat
  BY StateFacts DEF RowLength, ComputeLength
<1>2. args.subH * RowLength \in Nat
  BY <1>1, StateFacts
<1> QED
  BY <1>1, <1>2, StateFacts DEF RWLength

\* What is within the piece that follows n of m is within m + 1 pieces.
LEMMA PieceBound ==
  ASSUME NEW n \in Nat, NEW m \in Nat, NEW len \in Nat, n <= m,
         NEW x \in Nat, x <= len
  PROVE  n * len + x \in Nat /\ n * len + x <= (m + 1) * len
<1>1. n * len \in Nat /\ (m + 1) * len = m * len + len /\ n * len <= m * len
      /\ m * len \in Nat
  BY RowProduct, MonotoneProduct
<1> DEFINE a == n * len
           c == m * len
<1> HIDE DEF a, c
<1>2. a \in Nat /\ c \in Nat /\ a <= c /\ (m + 1) * len = c + len
  BY <1>1 DEF a, c
<1>3. a + x \in Nat /\ a + x <= c + len
  BY <1>2
<1> QED
  BY <1>2, <1>3 DEF a

LEMMA ReaderBound ==
  ASSUME IInv
  PROVE  ReaderSteps \in 0 .. 2 * ((NumOuter + 1) * args.numBlocks)
<1>1. /\ reader.o \in Nat /\ NumOuter \in Nat /\ reader.o <= NumOuter
      /\ args.numBlocks \in Nat /\ reader.k \in Nat
      /\ reader.k + 1 <= args.numBlocks
  BY StateFacts
<1> DEFINE a == reader.o * args.numBlocks
           c == (NumOuter + 1) * args.numBlocks
<1>2. /\ a + (reader.k + 1) \in Nat /\ a + (reader.k + 1) <= c
      /\ a \in Nat /\ c \in Nat
  <2>1. reader.k + 1 \in Nat /\ NumOuter + 1 \in Nat
    BY <1>1
  <2>2. a \in Nat /\ c \in Nat
    BY <1>1, <2>1, RowProduct
  <2> QED
    BY <1>1, <2>1, <2>2, PieceBound
<1>3. /\ ReaderSteps = 2 * (a + reader.k)
                         + (IF reader.pc = "read" THEN 1 ELSE 0)
  BY DEF ReaderSteps
<1> HIDE DEF a, c
<1>4. ReaderSteps \in 0 .. 2 * c
  BY <1>1, <1>2, <1>3
<1> QED
  BY <1>4 DEF c

LEMMA RWBound ==
  ASSUME IInv
  PROVE  RWSteps \in 0 .. (NumOuter + 1) * RWLength
<1>1. /\ rw.o \in Nat /\ NumOuter \in Nat /\ rw.o <= NumOuter
      /\ args.numBlocks \in Nat /\ rw.k \in Nat /\ rw.k <= args.numBlocks
      /\ args.subH \in Nat /\ args.subW \in Nat
      /\ rw.sbh \in Nat /\ rw.sbh <= args.subH /\ rw.sbw \in Nat
      /\ rw.sbw < args.subW /\ RowLength \in Nat /\ RWLength \in Nat
  BY StateFacts, Lengths
<1>2. /\ rw.pc \in {"reserve", "read", "front", "store", "skipW", "skipH",
                    "done"}
      /\ rw.pc = "read" => rw.k < args.numBlocks
      /\ rw.pc \in {"front", "store", "skipW"} => rw.sbh + 1 <= args.subH
  <2>1. rw.pc \in {"front", "store", "skipW"} => rw.sbh < RowsToStore(rw.o)
    BY DEF IInv, RWPlace
  <2>2. RowsToStore(rw.o) \in 1 .. args.subH
    BY DrainedFacts
  <2> QED
    <3>1. rw.pc \in {"reserve", "read", "front", "store", "skipW", "skipH",
                     "done"}
      BY DEF IInv, TypeOK
    <3>2. rw.pc = "read" => rw.k < args.numBlocks
      BY DEF IInv, RWPlace
    <3>3. rw.sbh < RowsToStore(rw.o) => rw.sbh + 1 <= args.subH
      BY <1>1, <2>2
    <3> QED
      BY <2>1, <3>1, <3>2, <3>3
<1> DEFINE a == rw.sbh * RowLength
           c == args.subH * RowLength
<1>3. /\ a \in Nat /\ c \in Nat /\ a <= c
      /\ rw.sbh + 1 <= args.subH => a + RowLength <= c
  <2>1. a \in Nat /\ c \in Nat /\ a <= c
    BY <1>1, RowProduct, MonotoneProduct
  <2>2. rw.sbh + 1 <= args.subH => (rw.sbh + 1) * RowLength <= c
    <3>1. rw.sbh + 1 \in Nat
      BY <1>1
    <3> QED
      BY <1>1, <3>1, MonotoneProduct
  <2>3. (rw.sbh + 1) * RowLength = a + RowLength
    BY <1>1, RowProduct
  <2> QED
    BY <2>1, <2>2, <2>3
<1>4. /\ RWLength = 2 * args.numBlocks + c + 1
      /\ RowLength = 2 * args.subW + 1
      /\ RWInBlock =
           IF rw.pc \in {"reserve", "done"} THEN 2 * rw.k
           ELSE IF rw.pc = "read" THEN 2 * rw.k + 1
           ELSE 2 * args.numBlocks + a
                  + (IF rw.pc = "front" THEN 2 * rw.sbw
                     ELSE IF rw.pc = "store" THEN 2 * rw.sbw + 1
                     ELSE IF rw.pc = "skipW" THEN 2 * args.subW ELSE 0)
  BY DEF RWLength, RowLength, RWInBlock
<1> HIDE DEF a, c
<1>5. RWInBlock \in Nat /\ RWInBlock <= RWLength
  BY <1>1, <1>2, <1>3, <1>4
<1> QED
  BY <1>1, <1>5, PieceBound DEF RWSteps

LEMMA ComputeBound ==
  ASSUME IInv
  PROVE  /\ ComputeSteps \in 0 ..
              ((NumOuter + 1) * args.numBlocks) * ComputeLength
         /\ ComputeInBlock \in Nat /\ ComputeInBlock < ComputeLength
<1>1. /\ compute.o \in Nat /\ NumOuter \in Nat /\ compute.o <= NumOuter
      /\ args.numBlocks \in Nat \ {0} /\ compute.k \in Nat
      /\ compute.k + 1 <= args.numBlocks /\ ComputeLength \in Nat
      /\ compute.s \in Nat /\ NumSubblocks \in Nat
      /\ compute.s <= NumSubblocks
  BY StateFacts, Lengths
<1>2. /\ compute.pc \in {"wait", "reload", "math", "pack", "push", "pop",
                         "done"}
      /\ compute.pc \in {"reload", "math", "pack", "push"} =>
           compute.s + 1 <= NumSubblocks
  BY <1>1 DEF IInv, TypeOK, ComputePlace
<1>3. ComputeInBlock \in Nat /\ ComputeInBlock < ComputeLength
  BY <1>1, <1>2 DEF ComputeInBlock, ComputeLength
<1> DEFINE a == compute.o * args.numBlocks
           c == (NumOuter + 1) * args.numBlocks
<1>4. a \in Nat /\ c \in Nat /\ a + (compute.k + 1) <= c
  <2>1. compute.k + 1 \in Nat /\ NumOuter + 1 \in Nat
    BY <1>1
  <2>2. a \in Nat /\ c \in Nat
    BY <1>1, <2>1, RowProduct
  <2> QED
    BY <1>1, <2>1, <2>2, PieceBound
<1>5. ComputeSteps = (a + compute.k) * ComputeLength + ComputeInBlock
  BY DEF ComputeSteps
<1> HIDE DEF a, c
<1>6. /\ c - 1 \in Nat /\ a + compute.k \in Nat /\ a + compute.k <= c - 1
      /\ (c - 1) + 1 = c
  BY <1>1, <1>4
<1>7. /\ (a + compute.k) * ComputeLength + ComputeInBlock \in Nat
      /\ (a + compute.k) * ComputeLength + ComputeInBlock
           <= ((c - 1) + 1) * ComputeLength
  <2>1. ComputeInBlock <= ComputeLength
    BY <1>1, <1>3
  <2> QED
    BY <1>1, <1>3, <1>6, <2>1, PieceBound
<1>8. ComputeSteps \in Nat /\ ComputeSteps <= c * ComputeLength
  BY <1>5, <1>6, <1>7
<1>9. c * ComputeLength \in Nat
  BY <1>1, <1>4, RowProduct
<1> QED
  BY <1>3, <1>8, <1>9 DEF c

\* A step moves its own kernel along and leaves the other two where they are.
LEMMA ReaderAdvances ==
  ASSUME IInv, ReaderStep
  PROVE  /\ ReaderSteps' \in Nat /\ ReaderSteps' > ReaderSteps
         /\ UNCHANGED <<RWSteps, ComputeSteps>>
<1>1. UNCHANGED <<args, rw, compute>>
  BY DEF ReaderStep, In0Reserve, In0Push
<1>2. UNCHANGED <<RWSteps, ComputeSteps>>
  BY <1>1 DEF RWSteps, RWLength, RowLength, RWInBlock, ComputeSteps,
              ComputeLength, ComputeInBlock, NumSubblocks
<1>3. /\ reader.o \in Nat /\ args.numBlocks \in Nat /\ reader.k \in Nat
      /\ reader.k < args.numBlocks
  BY StateFacts
<1> DEFINE a == reader.o * args.numBlocks
<1>4. a \in Nat /\ (reader.o + 1) * args.numBlocks = a + args.numBlocks
  BY <1>3, RowProduct
<1>5. ReaderSteps = 2 * (a + reader.k) + (IF reader.pc = "read" THEN 1 ELSE 0)
  BY DEF ReaderSteps
<1>6. CASE In0Reserve
  <2>1. ReaderSteps' = 2 * (a + reader.k) + 1
    BY <1>1, <1>6, StepFacts DEF In0Reserve, ReaderSteps
  <2>2. reader.pc = "reserve"
    BY <1>6 DEF In0Reserve
  <2> HIDE DEF a
  <2> QED
    BY <1>2, <1>3, <1>4, <1>5, <2>1, <2>2
<1>7. CASE In0Push
  <2>1. reader.pc = "read"
    BY <1>7 DEF In0Push
  <2>2. CASE reader.k + 1 < args.numBlocks
    <3>1. ReaderSteps' = 2 * (a + (reader.k + 1))
      BY <1>1, <1>3, <1>4, <1>7, <2>2, StepFacts DEF In0Push, ReaderSteps
    <3> HIDE DEF a
    <3> QED
      BY <1>2, <1>3, <1>4, <1>5, <2>1, <3>1
  <2>3. CASE ~(reader.k + 1 < args.numBlocks)
    <3>1. /\ reader'.o = reader.o + 1 /\ reader'.k = 0
          /\ reader'.pc # "read"
      BY <1>7, <2>3 DEF In0Push, NextOuter
    <3>2. ReaderSteps' = 2 * ((reader.o + 1) * args.numBlocks + 0) + 0
      BY <1>1, <3>1 DEF ReaderSteps
    <3> HIDE DEF a
    <3> QED
      BY <1>2, <1>3, <1>4, <1>5, <2>1, <2>3, <3>2
  <2> QED
    BY <2>2, <2>3
<1> QED
  BY <1>6, <1>7 DEF ReaderStep

LEMMA RWAdvances ==
  ASSUME IInv, RWStep
  PROVE  /\ RWSteps' \in Nat /\ RWSteps' > RWSteps
         /\ UNCHANGED <<ReaderSteps, ComputeSteps>>
<1>1. UNCHANGED <<args, reader, compute>>
  BY DEF RWStep, In1Reserve, In1Push, StoreIssue, StoreBarrier, SkipRowTail,
         SkipRows
<1>2. UNCHANGED <<ReaderSteps, ComputeSteps, RowLength, RWLength>>
  BY <1>1 DEF ReaderSteps, RWLength, RowLength, ComputeSteps, ComputeLength,
              ComputeInBlock, NumSubblocks
<1>3. /\ rw.o \in Nat /\ args.numBlocks \in Nat /\ rw.k \in Nat
      /\ args.subH \in Nat /\ args.subW \in Nat \ {0}
      /\ rw.sbh \in Nat /\ rw.sbw \in Nat /\ rw.sbw < args.subW
      /\ RowLength \in Nat /\ RWLength \in Nat
      /\ RowLength = 2 * args.subW + 1
  BY StateFacts, Lengths DEF RowLength
<1>4. /\ rw.pc \in {"reserve", "read"} => rw.k < args.numBlocks
      /\ rw.pc \in {"front", "store", "skipW", "skipH"} =>
           rw.k = args.numBlocks
  BY DEF IInv, RWPlace
<1> DEFINE a == rw.sbh * RowLength
           b == rw.o * RWLength
<1>5. /\ a \in Nat /\ b \in Nat
      /\ (rw.sbh + 1) * RowLength = a + RowLength
      /\ (rw.o + 1) * RWLength = b + RWLength
  BY <1>3, RowProduct
<1>6. /\ RWSteps = b + RWInBlock
      /\ RWInBlock =
           IF rw.pc \in {"reserve", "done"} THEN 2 * rw.k
           ELSE IF rw.pc = "read" THEN 2 * rw.k + 1
           ELSE 2 * args.numBlocks + a
                  + (IF rw.pc = "front" THEN 2 * rw.sbw
                     ELSE IF rw.pc = "store" THEN 2 * rw.sbw + 1
                     ELSE IF rw.pc = "skipW" THEN 2 * args.subW ELSE 0)
  BY DEF RWSteps, RWInBlock
<1>7. /\ RWSteps' = rw'.o * RWLength + RWInBlock'
      /\ RWInBlock' =
           IF rw'.pc \in {"reserve", "done"} THEN 2 * rw'.k
           ELSE IF rw'.pc = "read" THEN 2 * rw'.k + 1
           ELSE 2 * args.numBlocks + rw'.sbh * RowLength
                  + (IF rw'.pc = "front" THEN 2 * rw'.sbw
                     ELSE IF rw'.pc = "store" THEN 2 * rw'.sbw + 1
                     ELSE IF rw'.pc = "skipW" THEN 2 * args.subW ELSE 0)
  BY <1>1, <1>2 DEF RWSteps, RWInBlock
<1>8. CASE In1Reserve
  <2>1. /\ rw.pc = "reserve" /\ rw'.pc = "read" /\ rw'.o = rw.o
        /\ rw'.k = rw.k
    BY <1>8, StepFacts DEF In1Reserve
  <2>2. RWSteps = b + 2 * rw.k /\ RWSteps' = b + (2 * rw.k + 1)
    BY <1>6, <1>7, <2>1
  <2> HIDE DEF a, b
  <2> QED
    BY <1>2, <1>3, <1>5, <2>2
<1>9. CASE In1Push
  <2>1. /\ rw.pc = "read" /\ rw'.o = rw.o /\ rw'.k = rw.k + 1
        /\ rw'.pc \in {"reserve", "front"}
        /\ rw'.pc = "front" =>
             rw'.sbh = 0 /\ rw'.sbw = 0 /\ ~(rw.k + 1 < args.numBlocks)
    BY <1>9, StepFacts DEF In1Push
  <2>2. RWSteps = b + (2 * rw.k + 1)
    BY <1>6, <2>1
  <2>3. RWSteps' = b + 2 * (rw.k + 1)
    <3>1. CASE rw'.pc = "reserve"
      BY <1>7, <2>1, <3>1
    <3>2. CASE rw'.pc = "front"
      <4>1. 0 * RowLength = 0
        BY <1>3, RowProduct
      <4>2. RWInBlock' = 2 * args.numBlocks + 0 * RowLength + 2 * 0
        BY <1>7, <2>1, <3>2
      <4>3. args.numBlocks = rw.k + 1
        BY <1>3, <1>4, <2>1, <3>2
      <4>4. RWInBlock' = 2 * (rw.k + 1)
        BY <1>3, <4>1, <4>2, <4>3
      <4> QED
        BY <1>7, <2>1, <4>4
    <3> QED
      BY <2>1, <3>1, <3>2
  <2> HIDE DEF a, b
  <2> QED
    BY <1>2, <1>3, <1>5, <2>2, <2>3
<1>10. CASE StoreIssue
  <2>1. /\ rw.pc = "front" /\ rw'.pc = "store" /\ rw'.o = rw.o
        /\ rw'.sbh = rw.sbh /\ rw'.sbw = rw.sbw
    BY <1>10, StepFacts DEF StoreIssue
  <2>2. /\ RWSteps = b + (2 * args.numBlocks + a + 2 * rw.sbw)
        /\ RWSteps' = b + (2 * args.numBlocks + a + (2 * rw.sbw + 1))
    BY <1>6, <1>7, <2>1
  <2> HIDE DEF a, b
  <2> QED
    BY <1>2, <1>3, <1>5, <2>2
<1>11. CASE StoreBarrier
  <2>1. /\ rw.pc = "store" /\ rw'.pc \in {"front", "skipW"}
        /\ rw'.o = rw.o /\ rw'.sbh = rw.sbh
        /\ rw'.pc = "front" => rw'.sbw = rw.sbw + 1
    BY <1>11, StepFacts DEF StoreBarrier
  <2>2. /\ RWSteps = b + (2 * args.numBlocks + a + (2 * rw.sbw + 1))
        /\ rw'.pc = "front" =>
             RWSteps' = b + (2 * args.numBlocks + a + 2 * (rw.sbw + 1))
        /\ rw'.pc = "skipW" =>
             RWSteps' = b + (2 * args.numBlocks + a + 2 * args.subW)
    BY <1>6, <1>7, <2>1
  <2> HIDE DEF a, b
  <2> QED
    BY <1>2, <1>3, <1>5, <2>1, <2>2
<1>12. CASE SkipRowTail
  <2>1. /\ rw.pc = "skipW" /\ rw'.pc \in {"front", "skipH"}
        /\ rw'.o = rw.o /\ rw'.sbh = rw.sbh + 1 /\ rw'.sbw = rw.sbw
    BY <1>12, StepFacts DEF SkipRowTail
  <2>2. /\ RWSteps = b + (2 * args.numBlocks + a + 2 * args.subW)
        /\ rw'.pc = "front" =>
             RWSteps' = b + (2 * args.numBlocks + (rw.sbh + 1) * RowLength
                               + 2 * rw.sbw)
        /\ rw'.pc = "skipH" =>
             RWSteps' = b + (2 * args.numBlocks + (rw.sbh + 1) * RowLength + 0)
    BY <1>6, <1>7, <2>1
  <2> DEFINE c == (rw.sbh + 1) * RowLength
  <2> HIDE DEF a, b, c
  <2>3. c = a + RowLength
    BY <1>5 DEF c
  <2>4. /\ rw'.pc = "front" =>
             RWSteps' = b + (2 * args.numBlocks + c + 2 * rw.sbw)
        /\ rw'.pc = "skipH" =>
             RWSteps' = b + (2 * args.numBlocks + c + 0)
    BY <2>2 DEF c
  <2> QED
    BY <1>2, <1>3, <1>5, <2>1, <2>2, <2>3, <2>4
<1>13. CASE SkipRows
  <2>1. /\ rw.pc = "skipH" /\ rw'.pc \in {"reserve", "done"}
        /\ rw'.o = rw.o + 1 /\ rw'.k = 0
    BY <1>13 DEF SkipRows, NextOuter
  <2>2. /\ RWSteps = b + (2 * args.numBlocks + a + 0)
        /\ RWSteps' = (rw.o + 1) * RWLength + 2 * 0
    BY <1>6, <1>7, <2>1
  <2>3. RWLength = 2 * args.numBlocks + args.subH * RowLength + 1
    BY DEF RWLength
  <2>4. a <= args.subH * RowLength /\ args.subH * RowLength \in Nat
    <3>1. rw.sbh <= args.subH
      BY StateFacts
    <3> QED
      BY <1>3, <3>1, RowProduct, MonotoneProduct
  <2> DEFINE c == args.subH * RowLength
             d == (rw.o + 1) * RWLength
  <2>5. /\ RWSteps' = d + 2 * 0 /\ d = b + RWLength
        /\ RWLength = 2 * args.numBlocks + c + 1 /\ a <= c /\ c \in Nat
    BY <1>5, <2>2, <2>3, <2>4
  <2> HIDE DEF a, b, c, d
  <2> QED
    BY <1>2, <1>3, <1>5, <2>2, <2>5
<1> QED
  BY <1>8, <1>9, <1>10, <1>11, <1>12, <1>13 DEF RWStep

LEMMA ComputeAdvances ==
  ASSUME IInv, ComputeStep
  PROVE  /\ ComputeSteps' \in Nat /\ ComputeSteps' > ComputeSteps
         /\ UNCHANGED <<ReaderSteps, RWSteps>>
<1>1. UNCHANGED <<args, reader, rw>>
  BY DEF ComputeStep, WaitOperands, Reload, MatmulTiles, PackOut, PackPartial,
         PushSubblock, PopOperands
<1>2. UNCHANGED <<ReaderSteps, RWSteps, ComputeLength>>
  BY <1>1 DEF ReaderSteps, RWSteps, RWLength, RowLength, RWInBlock,
              ComputeLength, NumSubblocks
<1>3. /\ compute.o \in Nat /\ args.numBlocks \in Nat /\ compute.k \in Nat
      /\ compute.k < args.numBlocks /\ compute.s \in Nat
      /\ ComputeLength \in Nat /\ ComputeInBlock \in Nat
      /\ ComputeInBlock < ComputeLength
  BY StateFacts, Lengths, ComputeBound
<1> DEFINE a == compute.o * args.numBlocks
<1>4. a \in Nat /\ (compute.o + 1) * args.numBlocks = a + args.numBlocks
  BY <1>3, RowProduct
<1> DEFINE b == (a + compute.k) * ComputeLength
<1>5. b \in Nat /\ (a + compute.k + 1) * ComputeLength = b + ComputeLength
  <2>1. a + compute.k \in Nat
    BY <1>3, <1>4
  <2> QED
    BY <1>3, <2>1, RowProduct
<1>6. ComputeSteps = b + ComputeInBlock
  BY DEF ComputeSteps
<1>7. CASE PopOperands
  <2>1. /\ compute'.pc \in {"wait", "done"}
        /\ \/ compute'.o = compute.o /\ compute'.k = compute.k + 1
           \/ /\ compute'.o = compute.o + 1 /\ compute'.k = 0
              /\ ~(compute.k + 1 < args.numBlocks)
    BY <1>7, StepFacts DEF PopOperands, NextOuter
  <2>2. compute'.o * args.numBlocks + compute'.k = a + compute.k + 1
    <3>1. CASE compute'.o = compute.o /\ compute'.k = compute.k + 1
      <4> HIDE DEF a
      <4>1. compute'.o * args.numBlocks = a
        BY <3>1 DEF a
      <4> QED
        BY <1>3, <1>4, <3>1, <4>1
    <3>2. CASE /\ compute'.o = compute.o + 1 /\ compute'.k = 0
               /\ ~(compute.k + 1 < args.numBlocks)
      <4>1. compute'.o * args.numBlocks = a + args.numBlocks
        BY <1>4, <3>2
      <4> HIDE DEF a
      <4> QED
        BY <1>3, <1>4, <3>2, <4>1
    <3> QED
      BY <2>1, <3>1, <3>2
  <2>3. ComputeInBlock' = 0
    BY <2>1 DEF ComputeInBlock
  <2>4. ComputeSteps' = (a + compute.k + 1) * ComputeLength + 0
    BY <1>1, <1>2, <2>2, <2>3 DEF ComputeSteps
  <2>5. ComputeSteps' = b + ComputeLength
    <3> HIDE DEF a, b
    <3> QED
      BY <1>3, <1>5, <2>4
  <2> HIDE DEF a, b
  <2> QED
    BY <1>2, <1>3, <1>5, <1>6, <2>5
<1>8. CASE ~PopOperands
  <2>1. compute'.o = compute.o /\ compute'.k = compute.k
    <3>1. CASE WaitOperands
      BY <3>1, ComputeTypes DEF WaitOperands
    <3>2. CASE Reload
      BY <3>2, ComputeTypes DEF Reload
    <3>3. CASE MatmulTiles
      BY <3>3, ComputeTypes DEF MatmulTiles
    <3>4. CASE PackOut
      BY <3>4, ComputeTypes DEF PackOut
    <3>5. CASE PackPartial
      BY <3>5, ComputeTypes DEF PackPartial
    <3>6. CASE PushSubblock
      BY <3>6, ComputeTypes DEF PushSubblock
    <3> QED
      BY <1>8, <3>1, <3>2, <3>3, <3>4, <3>5, <3>6 DEF ComputeStep
  <2>2. ComputeSteps' = b + ComputeInBlock'
    BY <1>1, <1>2, <2>1 DEF ComputeSteps
  <2>3. ComputeInBlock' \in Nat /\ ComputeInBlock' > ComputeInBlock
    <3>1. CASE WaitOperands
      <4>1. compute.pc = "wait" /\ compute'.pc \in {"reload", "math"}
            /\ compute'.s = 0
        BY <3>1, StepFacts DEF WaitOperands, SubblockStart
      <4> QED
        BY <4>1 DEF ComputeInBlock
    <3>2. CASE ~WaitOperands
      <4>1. \/ /\ compute'.s = compute.s
               /\ \/ compute.pc = "reload" /\ compute'.pc = "math"
                  \/ compute.pc = "math" /\ compute'.pc = "pack"
                  \/ compute.pc = "pack" /\ compute'.pc = "push"
            \/ /\ compute'.s = compute.s + 1 /\ compute.pc = "push"
               /\ compute'.pc \in {"reload", "math", "pop"}
        <5>1. CASE Reload
          BY <5>1, ComputeTypes DEF Reload
        <5>2. CASE MatmulTiles
          BY <5>2, ComputeTypes DEF MatmulTiles
        <5>3. CASE PackOut
          BY <5>3, ComputeTypes DEF PackOut
        <5>4. CASE PackPartial
          BY <5>4, ComputeTypes DEF PackPartial
        <5>5. CASE PushSubblock
          BY <5>5, ComputeTypes DEF PushSubblock, SubblockStart
        <5> QED
          BY <1>8, <3>2, <5>1, <5>2, <5>3, <5>4, <5>5 DEF ComputeStep
      <4> QED
        BY <1>3, <4>1 DEF ComputeInBlock
    <3> QED
      BY <3>1, <3>2
  <2>4. ComputeInBlock \in Nat /\ b \in Nat
    BY <1>3, <1>5
  <2> HIDE DEF a, b
  <2>5. ComputeSteps' \in Nat /\ ComputeSteps' > ComputeSteps
    <3>1. \A x, y \in Nat : y > x => b + y \in Nat /\ b + y > b + x
      BY <2>4
    <3>2. /\ b + ComputeInBlock' \in Nat
          /\ b + ComputeInBlock' > b + ComputeInBlock
      BY <2>3, <2>4, <3>1
    <3> QED
      BY <1>6, <2>2, <3>2
  <2> QED
    BY <1>2, <2>5
<1> QED
  BY <1>7, <1>8

\* Every step of a kernel brings the launch nearer to its end, which is a
\* number of steps away that is known when it starts: no kernel can repeat
\* itself, and with NoCircularWait the launch can only end by all returning.
THEOREM LaunchIsFinite ==
  Spec => [](Steps \in 0 .. MaxSteps) /\ [][Steps' > Steps]_vars
<1>1. ASSUME IInv
      PROVE  Steps \in 0 .. MaxSteps
  <2> DEFINE x == 2 * ((NumOuter + 1) * args.numBlocks)
             y == (NumOuter + 1) * RWLength
             z == ((NumOuter + 1) * args.numBlocks) * ComputeLength
  <2>1. /\ ReaderSteps \in 0 .. x /\ RWSteps \in 0 .. y
        /\ ComputeSteps \in 0 .. z
    BY <1>1, ReaderBound, RWBound, ComputeBound
  <2>2. x \in Nat /\ y \in Nat /\ z \in Nat
    <3>1. NumOuter + 1 \in Nat /\ args.numBlocks \in Nat
      BY <1>1, StateFacts
    <3>2. (NumOuter + 1) * args.numBlocks \in Nat
      BY <3>1, RowProduct
    <3> QED
      BY <1>1, <3>1, <3>2, Lengths, RowProduct
  <2>3. MaxSteps = x + y + z
    BY DEF MaxSteps
  <2> HIDE DEF x, y, z
  <2> QED
    BY <2>1, <2>2, <2>3 DEF Steps
<1>2. ASSUME IInv, [Next]_vars
      PROVE  [Steps' > Steps]_vars
  <2>1. /\ ReaderSteps \in Nat /\ RWSteps \in Nat /\ ComputeSteps \in Nat
    BY <1>2, ReaderBound, RWBound, ComputeBound
  <2>2. CASE ReaderStep
    BY <1>2, <2>1, <2>2, ReaderAdvances DEF Steps
  <2>3. CASE RWStep
    BY <1>2, <2>1, <2>3, RWAdvances DEF Steps
  <2>4. CASE ComputeStep
    BY <1>2, <2>1, <2>4, ComputeAdvances DEF Steps
  <2>5. CASE UNCHANGED vars
    BY <2>5
  <2> QED
    BY <1>2, <2>2, <2>3, <2>4, <2>5 DEF Next, Finished
<1> QED
  BY <1>1, <1>2, CoreInvariant, PTL DEF Spec
===============================================================================
