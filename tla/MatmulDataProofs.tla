--------------------------- MODULE MatmulDataProofs ---------------------------
(***************************************************************************)
(* Theorems about what the kernels of MatmulCore compute, for every set of *)
(* programs: operands are paired, a launch leaves the CBs empty, the       *)
(* kernels never wait in a circle, and they implement OutputBlocks.        *)
(*                                                                         *)
(* IInv, the inductive invariant of MatmulCoreProofs, counts what the CBs  *)
(* hold; three more say what they hold, each resting on those before it:   *)
(*   Streams     an input CB holds the blocks between the step its         *)
(*               producer stands at and the one its consumer stands at;    *)
(*   SumsInv     every slot of the shared partial/output L1 holds the sum  *)
(*               the loop of the compute kernel has reached there;         *)
(*   WrittenInv  the output holds the complete sums of the valid           *)
(*               subblocks the writer has passed, and nothing else.        *)
(***************************************************************************)
EXTENDS MatmulCoreProofs

\* The step along K that follows step k of outer block o.
NextO(o, k) == IF k + 1 < args.numBlocks THEN o ELSE o + 1

NextK(k) == IF k + 1 < args.numBlocks THEN k + 1 ELSE 0

Fetched(mat, o, k) == IF mat = "A" THEN In0Block(o, k) ELSE In1Block(o, k)

\* A CB whose producer stands at step k of outer block o and whose consumer
\* stands at step ck of co holds the blocks in between, in order.
Stream(cb, slots, mat, o, k, co, ck) ==
  /\ cb.wr = IF cb.cnt = 1 THEN 1 - cb.rd ELSE cb.rd
  /\ cb.cnt = 0 => o = co /\ k = ck
  /\ cb.cnt = 1 => o = NextO(co, ck) /\ k = NextK(ck)
  /\ cb.cnt = 2 => /\ o = NextO(NextO(co, ck), NextK(ck))
                   /\ k = NextK(NextK(ck))
                   /\ slots[1 - cb.rd] = Fetched(mat, NextO(co, ck), NextK(ck))
  /\ cb.cnt >= 1 => slots[cb.rd] = Fetched(mat, co, ck)

\* Where the in1 reader/writer stands in its loop over the blocks of B.
RWO == IF rw.k = args.numBlocks THEN rw.o + 1 ELSE rw.o

RWK == IF rw.k = args.numBlocks THEN 0 ELSE rw.k

In0Stream ==
  /\ Stream(cbIn0, in0L1, "A", reader.o, reader.k, compute.o, compute.k)
  /\ reader.pc = "done" => reader.k = 0

In1Stream == Stream(cbIn1, in1L1, "B", RWO, RWK, compute.o, compute.k)
-------------------------------------------------------------------------------
(* Operands *)

LEMMA DivModParts ==
  ASSUME NEW s \in Nat, NEW w \in Nat \ {0}
  PROVE  /\ s \div w \in Nat /\ s % w \in 0 .. w - 1
         /\ s = (s \div w) * w + (s % w)
<1> DEFINE q == s \div w
           r == s % w
<1>1. q \in Nat /\ r \in 0 .. w - 1 /\ s = q * w + r
  OBVIOUS
<1> QED BY <1>1

LEMMA DivMod ==
  ASSUME NEW a \in Nat, NEW b \in Nat \ {0}, NEW c \in 0 .. b - 1
  PROVE  (a * b + c) \div b = a /\ (a * b + c) % b = c
<1> DEFINE s == a * b + c
           q == s \div b
           r == s % b
<1>1. s \in Nat
  <2>1. a * b \in Nat
    BY RowProduct
  <2> QED BY <2>1
<1> HIDE DEF s
<1>2. q \in Nat /\ r \in 0 .. b - 1 /\ s = q * b + r
  BY <1>1
<1> HIDE DEF q, r
<1>3. ~(a < q)
  <2> SUFFICES ASSUME a < q PROVE FALSE
    OBVIOUS
  <2>1. (a + 1) * b <= q * b /\ (a + 1) * b = a * b + b /\ a * b \in Nat
    <3>1. a + 1 \in Nat /\ a + 1 <= q
      BY <1>2
    <3> QED BY <1>2, <3>1, MonotoneProduct, RowProduct
  <2>2. q * b \in Nat
    BY <1>2, RowProduct
  <2> QED BY <1>2, <2>1, <2>2 DEF s
<1>4. ~(q < a)
  <2> SUFFICES ASSUME q < a PROVE FALSE
    OBVIOUS
  <2>1. (q + 1) * b <= a * b /\ (q + 1) * b = q * b + b /\ q * b \in Nat
    <3>1. q + 1 \in Nat /\ q + 1 <= a
      BY <1>2
    <3> QED BY <1>2, <3>1, MonotoneProduct, RowProduct
  <2>2. a * b \in Nat
    BY RowProduct
  <2> QED BY <1>2, <2>1, <2>2 DEF s
<1>5. q = a
  BY <1>2, <1>3, <1>4
<1>6. r = c
  <2>1. a * b \in Nat
    BY RowProduct
  <2> QED BY <1>2, <1>5, <2>1 DEF s
<1> QED BY <1>5, <1>6 DEF q, r, s

\* The producer's next block goes into the slot behind those it has pushed.
LEMMA PushStream ==
  ASSUME NEW cb \in CB(2), cb.cnt < 2,
         NEW slots \in [0 .. 1 -> Block], NEW mat, NEW o \in Nat, NEW k \in Nat,
         NEW co \in Nat, NEW ck \in Nat, Stream(cb, slots, mat, o, k, co, ck)
  PROVE  Stream(PushBack(cb, 1, 2), [slots EXCEPT ![cb.wr] = Fetched(mat, o, k)],
                mat, NextO(o, k), NextK(k), co, ck)
<1>1. cb.cnt \in {0, 1} /\ cb.wr \in {0, 1} /\ cb.rd \in {0, 1}
  BY DEF CB
<1>2. /\ PushBack(cb, 1, 2).cnt = cb.cnt + 1
      /\ PushBack(cb, 1, 2).rd = cb.rd
      /\ PushBack(cb, 1, 2).wr = 1 - cb.wr
  BY <1>1, PushFacts
<1>3. CASE cb.cnt = 0
  BY <1>1, <1>2, <1>3 DEF Stream
<1>4. CASE cb.cnt = 1
  BY <1>1, <1>2, <1>4 DEF Stream
<1> QED BY <1>1, <1>3, <1>4

LEMMA PopStream ==
  ASSUME NEW cb \in CB(2), cb.cnt >= 1,
         NEW slots, NEW mat, NEW o, NEW k, NEW co, NEW ck,
         Stream(cb, slots, mat, o, k, co, ck)
  PROVE  Stream(PopFront(cb, 1, 2), slots, mat, o, k, NextO(co, ck), NextK(ck))
<1>1. cb.cnt \in {1, 2} /\ cb.wr \in {0, 1} /\ cb.rd \in {0, 1}
  BY DEF CB
<1>2. /\ PopFront(cb, 1, 2).cnt = cb.cnt - 1
      /\ PopFront(cb, 1, 2).wr = cb.wr
      /\ PopFront(cb, 1, 2).rd = 1 - cb.rd
  BY <1>1, PopFacts
<1>3. CASE cb.cnt = 1
  BY <1>1, <1>2, <1>3 DEF Stream
<1>4. CASE cb.cnt = 2
  BY <1>1, <1>2, <1>4 DEF Stream
<1> QED BY <1>1, <1>3, <1>4

\* Nothing of what is in the CB lies in the slot being filled.
LEMMA ReserveStream ==
  ASSUME NEW cb \in CB(2), cb.cnt < 2,
         NEW slots \in [0 .. 1 -> Block], NEW mat, NEW o, NEW k, NEW co, NEW ck,
         Stream(cb, slots, mat, o, k, co, ck), NEW b
  PROVE  Stream(cb, [slots EXCEPT ![cb.wr] = b], mat, o, k, co, ck)
<1>1. cb.cnt \in {0, 1} /\ cb.wr \in {0, 1} /\ cb.rd \in {0, 1}
  BY DEF CB
<1> QED BY <1>1 DEF Stream

LEMMA StreamFrame ==
  ASSUME UNCHANGED args, NEW cb, NEW slots, NEW mat, NEW o, NEW k, NEW co,
         NEW ck, Stream(cb, slots, mat, o, k, co, ck)
  PROVE  Stream(cb, slots, mat, o, k, co, ck)'
  BY DEF Stream, NextO, NextK, Fetched, In0Block, In1Block, ABlock, BBlock,
         RowOf, ColOf

LEMMA StreamTypes ==
  ASSUME IInv
  PROVE  /\ cbIn0 \in CB(2) /\ cbIn1 \in CB(2)
         /\ in0L1 \in [0 .. 1 -> Block] /\ in1L1 \in [0 .. 1 -> Block]
         /\ compute.o \in Nat /\ compute.k \in Nat
         /\ reader.o \in Nat /\ reader.k \in Nat
         /\ RWO \in Nat /\ RWK \in Nat
  BY StateFacts DEF IInv, TypeOK, NumBuffer, RWO, RWK

\* A step that moves neither end of CB0, and one that moves neither of CB1.
LEMMA In0Frame ==
  ASSUME In0Stream, UNCHANGED <<args, reader, cbIn0, in0L1>>,
         compute'.o = compute.o, compute'.k = compute.k
  PROVE  In0Stream'
  BY DEF In0Stream, Stream, NextO, NextK, Fetched, In0Block, In1Block, ABlock,
         BBlock, RowOf, ColOf

LEMMA In1Frame ==
  ASSUME In1Stream, UNCHANGED <<args, cbIn1, in1L1>>, RWO' = RWO, RWK' = RWK,
         compute'.o = compute.o, compute'.k = compute.k
  PROVE  In1Stream'
  BY DEF In1Stream, Stream, NextO, NextK, Fetched, In0Block, In1Block, ABlock,
         BBlock, RowOf, ColOf

LEMMA ReaderStreams ==
  ASSUME IInv, In0Stream, In1Stream, ReaderStep
  PROVE  In0Stream' /\ In1Stream'
<1>1. UNCHANGED <<args, rw, compute, cbIn1, in1L1>>
  BY DEF ReaderStep, In0Reserve, In0Push
<1>2. In1Stream'
  BY <1>1, In1Frame DEF RWO, RWK
<1>3. CASE In0Reserve
  <2>1. /\ cbIn0.cnt < 2 /\ reader'.o = reader.o /\ reader'.k = reader.k
        /\ reader'.pc = "read" /\ UNCHANGED <<args, cbIn0>>
        /\ in0L1' = [in0L1 EXCEPT ![cbIn0.wr] = InFlight]
    <3>1. cbIn0.cnt < 2
      BY <1>3, StateFacts DEF In0Reserve, HasRoom, NumBuffer
    <3>2. reader'.o = reader.o /\ reader'.k = reader.k /\ reader'.pc = "read"
      BY <1>3 DEF In0Reserve, IInv, TypeOK
    <3> QED BY <1>3, <3>1, <3>2 DEF In0Reserve
  <2>2. Stream(cbIn0, in0L1', "A", reader.o, reader.k, compute.o, compute.k)
    <3>1. Stream(cbIn0, [in0L1 EXCEPT ![cbIn0.wr] = InFlight], "A", reader.o,
                 reader.k, compute.o, compute.k)
      BY <2>1, StreamTypes, ReserveStream DEF In0Stream
    <3> QED BY <2>1, <3>1
  <2>3. In0Stream'
    BY <1>1, <2>1, <2>2
       DEF In0Stream, Stream, NextO, NextK, Fetched, In0Block, In1Block, ABlock,
           BBlock, RowOf, ColOf
  <2> QED BY <1>2, <2>3
<1>4. CASE In0Push
  <2>1. cbIn0.cnt < 2
    BY <1>4 DEF In0Push, IInv, ReaderPlace, NumBuffer
  <2>2. /\ reader'.o = NextO(reader.o, reader.k)
        /\ reader'.k = NextK(reader.k)
        /\ reader'.pc = "done" => reader'.k = 0
    BY <1>4 DEF In0Push, NextO, NextK, NextOuter, IInv, TypeOK
  <2>3. /\ cbIn0' = PushBack(cbIn0, 1, 2)
        /\ in0L1' = [in0L1 EXCEPT
                       ![cbIn0.wr] = Fetched("A", reader.o, reader.k)]
    BY <1>4 DEF In0Push, NumBuffer, Fetched
  <2>4. Stream(PushBack(cbIn0, 1, 2),
               [in0L1 EXCEPT ![cbIn0.wr] = Fetched("A", reader.o, reader.k)],
               "A", NextO(reader.o, reader.k), NextK(reader.k),
               compute.o, compute.k)
    BY <2>1, StreamTypes, PushStream DEF In0Stream
  <2>5. Stream(cbIn0', in0L1', "A", reader'.o, reader'.k, compute.o, compute.k)
    BY <2>2, <2>3, <2>4
  <2>6. In0Stream'
    BY <1>1, <2>2, <2>5
       DEF In0Stream, Stream, NextO, NextK, Fetched, In0Block, In1Block, ABlock,
           BBlock, RowOf, ColOf
  <2> QED BY <1>2, <2>6
<1> QED BY <1>3, <1>4 DEF ReaderStep

LEMMA RWStreams ==
  ASSUME IInv, In0Stream, In1Stream, RWStep
  PROVE  In0Stream' /\ In1Stream'
<1>1. UNCHANGED <<args, reader, compute, cbIn0, in0L1>>
  BY DEF RWStep, In1Reserve, In1Push, StoreIssue, StoreBarrier, SkipRowTail,
         SkipRows
<1>2. In0Stream'
  BY <1>1, In0Frame
<1>3. CASE In1Reserve
  <2>1. /\ cbIn1.cnt < 2 /\ RWO' = RWO /\ RWK' = RWK /\ UNCHANGED <<args, cbIn1>>
        /\ in1L1' = [in1L1 EXCEPT ![cbIn1.wr] = InFlight]
    <3>1. cbIn1.cnt < 2
      BY <1>3, StateFacts DEF In1Reserve, HasRoom, NumBuffer
    <3>2. rw'.o = rw.o /\ rw'.k = rw.k
      BY <1>3 DEF In1Reserve, IInv, TypeOK
    <3> QED BY <1>3, <3>1, <3>2 DEF In1Reserve, RWO, RWK
  <2>2. Stream(cbIn1, in1L1', "B", RWO, RWK, compute.o, compute.k)
    <3>1. Stream(cbIn1, [in1L1 EXCEPT ![cbIn1.wr] = InFlight], "B", RWO, RWK,
                 compute.o, compute.k)
      BY <2>1, StreamTypes, ReserveStream DEF In1Stream
    <3> QED BY <2>1, <3>1
  <2>3. In1Stream'
    BY <1>1, <2>1, <2>2
       DEF In1Stream, Stream, NextO, NextK, Fetched, In0Block, In1Block, ABlock,
           BBlock, RowOf, ColOf
  <2> QED BY <1>2, <2>3
<1>4. CASE In1Push
  <2>1. cbIn1.cnt < 2 /\ rw.k < args.numBlocks
    BY <1>4 DEF In1Push, IInv, RWPlace, NumBuffer
  <2>2. RWO = rw.o /\ RWK = rw.k
    BY <2>1, StateFacts DEF RWO, RWK
  <2>3. rw'.o = rw.o /\ rw'.k = rw.k + 1
    BY <1>4 DEF In1Push, IInv, TypeOK
  <2>4. RWO' = NextO(RWO, RWK) /\ RWK' = NextK(RWK)
    BY <1>1, <2>1, <2>2, <2>3, StateFacts DEF RWO, RWK, NextO, NextK
  <2>5. /\ cbIn1' = PushBack(cbIn1, 1, 2)
        /\ in1L1' = [in1L1 EXCEPT ![cbIn1.wr] = Fetched("B", RWO, RWK)]
    BY <1>4, <2>2 DEF In1Push, NumBuffer, Fetched
  <2>6. Stream(PushBack(cbIn1, 1, 2),
               [in1L1 EXCEPT ![cbIn1.wr] = Fetched("B", RWO, RWK)],
               "B", NextO(RWO, RWK), NextK(RWK), compute.o, compute.k)
    BY <2>1, StreamTypes, PushStream DEF In1Stream
  <2>7. Stream(cbIn1', in1L1', "B", RWO', RWK', compute.o, compute.k)
    BY <2>4, <2>5, <2>6
  <2>8. In1Stream'
    BY <1>1, <2>7
       DEF In1Stream, Stream, NextO, NextK, Fetched, In0Block, In1Block, ABlock,
           BBlock, RowOf, ColOf
  <2> QED BY <1>2, <2>8
<1>5. CASE StoreIssue \/ StoreBarrier \/ SkipRowTail
  <2>1. /\ rw'.o = rw.o /\ rw'.k = rw.k /\ UNCHANGED <<args, cbIn1, in1L1>>
    BY <1>5 DEF StoreIssue, StoreBarrier, SkipRowTail, IInv, TypeOK
  <2> QED BY <1>1, <1>2, <2>1, In1Frame DEF RWO, RWK
<1>6. CASE SkipRows
  <2>1. /\ rw.k = args.numBlocks /\ rw'.o = rw.o + 1 /\ rw'.k = 0
        /\ UNCHANGED <<args, cbIn1, in1L1>>
    BY <1>6 DEF SkipRows, NextOuter, IInv, RWPlace
  <2>2. RWO' = RWO /\ RWK' = RWK
    BY <2>1, StateFacts DEF RWO, RWK
  <2> QED BY <1>1, <1>2, <2>1, <2>2, In1Frame
<1> QED BY <1>3, <1>4, <1>5, <1>6 DEF RWStep

LEMMA ComputeStreams ==
  ASSUME IInv, In0Stream, In1Stream, ComputeStep
  PROVE  In0Stream' /\ In1Stream'
<1>1. UNCHANGED <<args, reader, rw, in0L1, in1L1>>
  BY DEF ComputeStep, WaitOperands, Reload, MatmulTiles, PackOut, PackPartial,
         PushSubblock, PopOperands
<1>2. RWO' = RWO /\ RWK' = RWK
  BY <1>1 DEF RWO, RWK
<1>3. CASE ~PopOperands
  <2>1. UNCHANGED <<cbIn0, cbIn1>>
    BY <1>3 DEF ComputeStep, WaitOperands, Reload, MatmulTiles, PackOut,
                PackPartial, PushSubblock
  <2>2. compute'.o = compute.o /\ compute'.k = compute.k
    BY <1>3 DEF ComputeStep, WaitOperands, Reload, MatmulTiles, PackOut,
                PackPartial, PushSubblock, IInv, TypeOK
  <2> QED BY <1>1, <1>2, <2>1, <2>2, In0Frame, In1Frame
<1>4. CASE PopOperands
  <2>1. cbIn0.cnt >= 1 /\ cbIn1.cnt >= 1
    BY <1>4 DEF PopOperands, IInv, ComputePlace
  <2>2. /\ compute'.o = NextO(compute.o, compute.k)
        /\ compute'.k = NextK(compute.k)
    BY <1>4 DEF PopOperands, NextO, NextK, NextOuter, IInv, TypeOK
  <2>3. cbIn0' = PopFront(cbIn0, 1, 2) /\ cbIn1' = PopFront(cbIn1, 1, 2)
    BY <1>4 DEF PopOperands, NumBuffer
  <2>4. Stream(PopFront(cbIn0, 1, 2), in0L1, "A", reader.o, reader.k,
               NextO(compute.o, compute.k), NextK(compute.k))
    BY <2>1, StreamTypes, PopStream DEF In0Stream
  <2>5. Stream(PopFront(cbIn1, 1, 2), in1L1, "B", RWO, RWK,
               NextO(compute.o, compute.k), NextK(compute.k))
    BY <2>1, StreamTypes, PopStream DEF In1Stream
  <2>6. /\ Stream(cbIn0', in0L1, "A", reader.o, reader.k, compute'.o, compute'.k)
        /\ Stream(cbIn1', in1L1, "B", RWO, RWK, compute'.o, compute'.k)
    BY <2>2, <2>3, <2>4, <2>5
  <2>7. In0Stream'
    BY <1>1, <2>6
       DEF In0Stream, Stream, NextO, NextK, Fetched, In0Block, In1Block, ABlock,
           BBlock, RowOf, ColOf
  <2>8. In1Stream'
    BY <1>1, <1>2, <2>6
       DEF In1Stream, Stream, NextO, NextK, Fetched, In0Block, In1Block, ABlock,
           BBlock, RowOf, ColOf
  <2> QED BY <2>7, <2>8
<1> QED BY <1>3, <1>4

Streams == In0Stream /\ In1Stream

LEMMA InitStreams == Init => Streams
<1> SUFFICES ASSUME Init PROVE Streams
  OBVIOUS
<1>1. args.numBlocks \in Nat \ {0}
  BY ArgsFacts DEF Init, Program
<1>2. RWO = 0 /\ RWK = 0
  BY <1>1 DEF Init, RWO, RWK
<1> QED BY <1>2 DEF Init, Streams, In0Stream, In1Stream, Stream, EmptyCB

LEMMA StreamsStep == IInv /\ Streams /\ [Next]_vars => Streams'
<1> SUFFICES ASSUME IInv, Streams, [Next]_vars PROVE Streams'
  OBVIOUS
<1>1. CASE ReaderStep \/ RWStep \/ ComputeStep
  BY <1>1, ReaderStreams, RWStreams, ComputeStreams DEF Streams
<1>2. CASE UNCHANGED vars
  <2>1. UNCHANGED <<args, reader, rw, compute, cbIn0, cbIn1, in0L1, in1L1>>
    BY <1>2 DEF vars
  <2>2. RWO' = RWO /\ RWK' = RWK
    BY <2>1 DEF RWO, RWK
  <2> QED BY <2>1, <2>2, In0Frame, In1Frame DEF Streams
<1> QED BY <1>1, <1>2 DEF Next, Finished

(* The input CBs hold, in order, the blocks fetched and not yet multiplied, *)
(* however the readers and the compute kernel interleave.                   *)
THEOREM StreamsInvariant == Spec => []Streams
<1>1. Init => IInv /\ Streams
  BY InitIInv, InitStreams
<1>2. IInv /\ Streams /\ [Next]_vars => (IInv /\ Streams)'
  BY NextIInv, StreamsStep
<1> QED BY <1>1, <1>2, PTL DEF Spec

LEMMA PairedFact == IInv /\ Streams => OperandsPaired
<1> SUFFICES ASSUME IInv, Streams, compute.pc = "math"
             PROVE  <<in0L1[cbIn0.rd], in1L1[cbIn1.rd]>>
                      = Product(compute.o, compute.k)
  BY DEF OperandsPaired
<1>1. cbIn0.cnt >= 1 /\ cbIn1.cnt >= 1
  BY DEF IInv, ComputePlace
<1> QED BY <1>1
    DEF Streams, In0Stream, In1Stream, Stream, Fetched, In0Block, In1Block,
        Product

(* Whatever the blocking, and however the two readers run relative to each *)
(* other, the compute kernel multiplies the blocks of A and of B of its    *)
(* own outer block and K block, completely read.                           *)
THEOREM OperandsArePaired == Spec => []OperandsPaired
BY PairedFact, CoreInvariant, StreamsInvariant, PTL

(* A launch of any program leaves the four CBs empty, and those of the     *)
(* output where a launch finds them.                                       *)
THEOREM BuffersLeftEmpty == Spec => []LeavesBuffersEmpty
<1>1. IInv /\ Streams => LeavesBuffersEmpty
  <2> SUFFICES ASSUME IInv, Streams, Done
               PROVE  /\ cbIn0.cnt = 0 /\ cbIn1.cnt = 0
                      /\ cbOut = EmptyCB /\ cbPart = EmptyCB
    BY DEF LeavesBuffersEmpty
  <2>1. /\ reader.o = NumOuter /\ reader.k = 0
        /\ compute.o = NumOuter /\ compute.k = 0 /\ compute.s = 0
        /\ compute.pc = "done" /\ rw.pc = "done"
    BY DEF Done, IInv, ReaderPlace, ComputePlace, Streams, In0Stream
  <2>2. InStep
    BY <2>1 DEF IInv, WriterBehind, WriterAhead
  <2>3. cbIn0.cnt = 0
    <3>1. cbIn0.cnt \in {0, 1, 2} /\ args.numBlocks \in Nat \ {0}
          /\ NumOuter \in Nat
      BY StateFacts
    <3> QED BY <2>1, <3>1 DEF Streams, In0Stream, Stream, NextO, NextK
  <2>4. cbIn1.cnt = 0
    BY <2>1, <2>2, StateFacts DEF InStep, IInv, RWPlace
  <2>5. Drained = 0 /\ Produced = 0
    BY <2>1 DEF Drained, Produced
  <2>6. cbOut = EmptyCB
    <3>1. cbOut.cnt = 0 /\ cbOut.rd = 0 /\ cbOut.wr = 0
      BY <2>2, <2>5, StateFacts DEF InStep, Pos
    <3>2. cbOut \in CB(NumSubblocks)
      BY DEF IInv, TypeOK
    <3> QED BY <3>1, <3>2 DEF CB, EmptyCB
  <2>7. cbPart = EmptyCB
    <3>1. cbPart.cnt = 0 /\ cbPart.rd = 0 /\ cbPart.wr = 0
      BY <2>1, StateFacts DEF IInv, PartialsPlace, PartialsCount, Pos
    <3>2. cbPart \in CB(NumSubblocks)
      BY DEF IInv, TypeOK
    <3> QED BY <3>1, <3>2 DEF CB, EmptyCB
  <2> QED BY <2>3, <2>4, <2>6, <2>7
<1> QED BY <1>1, CoreInvariant, StreamsInvariant, PTL

\* The compute kernel waits for operands only: CB24 holds the sums it reloads,
\* and there is room in CB16 and in CB24 for what it packs.
LEMMA WaitsForOperands == IInv => (ComputeWaits => compute.pc = "wait")
<1> SUFFICES ASSUME IInv PROVE ComputeWaits => compute.pc = "wait"
  OBVIOUS
<1>1. /\ cbPart.cnt = PartialsCount /\ args.numBlocks \in Nat \ {0}
      /\ compute.k \in 0 .. args.numBlocks - 1 /\ NumSubblocks \in Nat \ {0}
      /\ compute.s \in 0 .. NumSubblocks
  BY StateFacts DEF IInv, PartialsPlace
<1>2. compute.pc \in {"reload", "pack"} =>
        /\ compute.s < NumSubblocks /\ cbIn1.cnt >= 1
        /\ compute.pc = "reload" => compute.k > 0
  BY DEF IInv, ComputePlace
<1>3. ASSUME compute.pc = "reload" PROVE ~(cbPart.cnt < 1)
  BY <1>1, <1>2, <1>3 DEF PartialsCount
<1>4. ASSUME compute.pc = "pack", LastOut
      PROVE  HasRoom(cbOut, 1, NumSubblocks)
  <2>1. cbOut.cnt = compute.s - Drained
    BY <1>2, <1>4, OperandsInStep DEF InStep, Produced
  <2>2. Drained \in Nat /\ compute.s \in Nat /\ compute.s < NumSubblocks
    BY <1>1, <1>2, <1>4, DrainedFacts
  <2> QED BY <1>1, <2>1, <2>2 DEF HasRoom
<1>5. ASSUME compute.pc = "pack", ~LastOut
      PROVE  OutputDrained /\ HasRoom(cbPart, 1, NumSubblocks)
  <2>1. HasRoom(cbPart, 1, NumSubblocks)
    BY <1>1, <1>2, <1>5 DEF HasRoom, PartialsCount, LastOut
  <2>2. cbOut.cnt = 0
    BY <1>5, DrainedWhenPacking
  <2>3. compute.k = 0 => compute.toWait = compute.s + 1
    BY <1>5 DEF IInv, ComputePlace
  <2>4. OutputDrained
    BY <1>1, <1>2, <1>5, <2>2, <2>3 DEF OutputDrained, HasRoom
  <2> QED BY <2>1, <2>4
<1>6. compute.pc = "reload" => ~ComputeWaits
  BY <1>3 DEF ComputeWaits
<1>7. compute.pc = "pack" => ~ComputeWaits
  BY <1>4, <1>5, Zenon DEF ComputeWaits
<1> QED BY <1>6, <1>7 DEF ComputeWaits

\* Once the operands of an outer block are gone, its output is in CB16.
LEMMA WriterCanStore == IInv /\ WriterBehind => ~RWWaits
<1> SUFFICES ASSUME IInv, WriterBehind PROVE ~RWWaits
  OBVIOUS
<1>1. /\ rw.pc \in {"front", "store", "skipW", "skipH"}
      /\ cbOut.cnt = NumSubblocks - Drained
  BY DEF WriterBehind
<1>2. /\ Drained \in Nat /\ NumSubblocks \in Nat
      /\ rw.pc = "front" => Drained < NumSubblocks
      /\ WSkip(rw.o) \in Nat /\ HSkip(rw.o) \in Nat
      /\ rw.pc = "skipW" => Drained + WSkip(rw.o) <= NumSubblocks
      /\ rw.pc = "skipH" => Drained + HSkip(rw.o) = NumSubblocks
  BY DrainedFacts, StateFacts
<1> QED BY <1>1, <1>2 DEF RWWaits, RowTailReady

(* No order in which the three kernels run leaves all those that have not  *)
(* returned waiting: the kernel that fetches the operand the compute       *)
(* kernel lacks, or stores the output that is in its way, can go on.       *)
THEOREM NeverCircularWait == Spec => []NoCircularWait
<1>1. IInv /\ Streams => NoCircularWait
  <2> SUFFICES ASSUME IInv, Streams, ~(compute.pc # "done" /\ ~ComputeWaits)
               PROVE  \/ Done
                      \/ reader.pc # "done" /\ ~ReaderWaits
                      \/ rw.pc # "done" /\ ~RWWaits
    BY WaitsForOperands DEF NoCircularWait
  <2>1. /\ compute.pc \in {"wait", "done"}
        /\ compute.pc = "wait" => cbIn0.cnt = 0 \/ cbIn1.cnt = 0
    BY WaitsForOperands, StateFacts DEF ComputeWaits
  <2>2. /\ args.numBlocks \in Nat \ {0} /\ NumOuter \in Nat
        /\ cbIn0.cnt \in {0, 1, 2} /\ cbIn1.cnt \in {0, 1, 2}
        /\ reader.o \in 0 .. NumOuter /\ rw.o \in 0 .. NumOuter
        /\ compute.o \in 0 .. NumOuter /\ compute.k \in Nat
        /\ rw.k \in 0 .. args.numBlocks
    BY StateFacts
  <2>3. /\ compute.pc = "wait" => compute.o < NumOuter
        /\ compute.pc = "done" => compute.o = NumOuter /\ compute.k = 0
        /\ reader.pc = "done" => reader.o = NumOuter
        /\ reader.pc # "done" => reader.o < NumOuter
        /\ rw.pc = "done" => rw.o = NumOuter /\ rw.k = 0
        /\ rw.pc # "done" => rw.o < NumOuter
    BY DEF IInv, ComputePlace, ReaderPlace, RWPlace
  <2>4. ~WriterAhead
    BY <2>1 DEF WriterAhead
  <2>5. WriterBehind => rw.pc # "done" /\ ~RWWaits
    BY WriterCanStore DEF WriterBehind
  <2>6. CASE compute.pc = "wait" /\ cbIn0.cnt = 0
    <3>1. reader.o = compute.o
      BY <2>6 DEF Streams, In0Stream, Stream
    <3>2. reader.pc # "done" /\ ~ReaderWaits
      BY <2>3, <2>6, <3>1, <2>2 DEF ReaderWaits, HasRoom, NumBuffer
    <3> QED BY <3>2
  <2>7. CASE compute.pc = "wait" /\ cbIn1.cnt = 0
    <3>1. RWO = compute.o /\ RWK = compute.k
      BY <2>7 DEF Streams, In1Stream, Stream
    <3>2. CASE rw.k = args.numBlocks
      <4>1. ~InStep
        BY <2>2, <3>1, <3>2 DEF InStep, RWO
      <4> QED BY <2>4, <2>5, <4>1 DEF IInv
    <3>3. CASE rw.k # args.numBlocks
      <4>1. rw.o = compute.o /\ rw.pc # "done"
        BY <2>2, <2>3, <2>7, <3>1, <3>3 DEF RWO
      <4>2. rw.pc \in {"reserve", "read"}
        BY <3>3, <4>1 DEF IInv, RWPlace, TypeOK
      <4>3. ~RWWaits
        BY <2>7, <4>2 DEF RWWaits, HasRoom, NumBuffer
      <4> QED BY <4>1, <4>3
    <3> QED BY <3>2, <3>3
  <2>8. CASE compute.pc = "done"
    <3>1. reader.o >= NumOuter
      <4>1. compute.o = NumOuter /\ compute.k = 0
        BY <2>3, <2>8
      <4> QED BY <2>2, <4>1 DEF Streams, In0Stream, Stream, NextO, NextK
    <3>2. reader.pc = "done"
      BY <2>2, <2>3, <3>1
    <3>3. InStep => rw.pc = "done"
      BY <2>2, <2>3, <2>8 DEF InStep
    <3> QED BY <2>4, <2>5, <2>8, <3>2, <3>3 DEF IInv, Done
  <2> QED BY <2>1, <2>6, <2>7, <2>8
<1> QED BY <1>1, CoreInvariant, StreamsInvariant, PTL
-------------------------------------------------------------------------------
(* Sums: DST and the memory CB16 and CB24 share *)

\* The sum of the first n products of outer block o.
Partial(o, n) == [j \in 1 .. n |-> Product(o, j - 1)]

\* Slot i holds subblock i of outer block o, summed over n steps.
Holds(i, o, n) == outL1[i] = [s |-> i, sum |-> Partial(o, n)]

Slots == 0 .. NumSubblocks - 1

DstInv ==
  /\ compute.pc = "math" => dst = Partial(compute.o, compute.k)
  /\ compute.pc \in {"pack", "push"} => dst = Partial(compute.o, compute.k + 1)

\* Of the outer block being computed, the slots the compute kernel has been
\* through in this step, and those it has not; and, when it has gone on to
\* the next outer block, those of the one still being stored.
PackedInv ==
  \A i \in Slots :
    i < compute.s \/ (i = compute.s /\ compute.pc = "push") =>
      Holds(i, compute.o, compute.k + 1)

UnpackedInv ==
  \A i \in Slots :
    /\ compute.k > 0
    /\ i > compute.s \/ (i = compute.s /\ compute.pc \in {"wait", "reload"})
    => Holds(i, compute.o, compute.k)

LeftInv ==
  compute.o = rw.o + 1 => \A i \in Slots : Holds(i, rw.o, args.numBlocks)

SumsInv == DstInv /\ PackedInv /\ UnpackedInv /\ LeftInv

LEMMA PartialFacts ==
  ASSUME args \in Programs, NEW o \in Nat, NEW n \in Nat
  PROVE  /\ Partial(o, 0) = <<>>
         /\ Partial(o, n) \in Seq(Block \X Block)
         /\ Append(Partial(o, n), Product(o, n)) = Partial(o, n + 1)
         /\ Partial(o, args.numBlocks) = FullSum(o)
<1>1. \A j \in Nat : Product(o, j) \in Block \X Block
  <2> SUFFICES ASSUME NEW j \in Nat PROVE Product(o, j) \in Block \X Block
    OBVIOUS
  <2>1. Product(o, j) = <<In0Block(o, j), In1Block(o, j)>>
    BY DEF Product, In0Block, In1Block
  <2> QED BY <2>1, BlockFacts
<1>2. \A m \in Nat : Partial(o, m) \in Seq(Block \X Block) /\ Len(Partial(o, m)) = m
  <2> SUFFICES ASSUME NEW m \in Nat
               PROVE  /\ Partial(o, m) \in Seq(Block \X Block)
                      /\ Len(Partial(o, m)) = m
    OBVIOUS
  <2>1. Partial(o, m) \in [1 .. m -> Block \X Block]
    BY <1>1 DEF Partial
  <2> QED BY <2>1
<1>3. Partial(o, 0) = <<>>
  BY <1>2
<1>4. Append(Partial(o, n), Product(o, n)) = Partial(o, n + 1)
  <2> DEFINE a == Append(Partial(o, n), Product(o, n))
             b == Partial(o, n + 1)
  <2>1. a \in Seq(Block \X Block) /\ Len(a) = n + 1
    BY <1>1, <1>2
  <2>2. b \in Seq(Block \X Block) /\ Len(b) = n + 1
    BY <1>2
  <2>3. \A j \in 1 .. n + 1 : a[j] = b[j]
    <3> SUFFICES ASSUME NEW j \in 1 .. n + 1 PROVE a[j] = b[j]
      OBVIOUS
    <3>1. b[j] = Product(o, j - 1)
      BY DEF Partial
    <3>2. CASE j = n + 1
      BY <1>2, <3>1, <3>2
    <3>3. CASE j \in 1 .. n
      <4>1. a[j] = Partial(o, n)[j]
        BY <1>1, <1>2, <3>3
      <4>2. Partial(o, n)[j] = Product(o, j - 1)
        BY <3>3 DEF Partial
      <4> QED BY <3>1, <4>1, <4>2
    <3>4. j = n + 1 \/ j \in 1 .. n
      OBVIOUS
    <3> QED BY <3>2, <3>3, <3>4
  <2> HIDE DEF a, b
  <2>4. /\ a \in [1 .. n + 1 -> Block \X Block]
        /\ b \in [1 .. n + 1 -> Block \X Block]
    BY <2>1, <2>2
  <2>5. a = b
    BY <2>3, <2>4
  <2> QED BY <2>5 DEF a, b
<1>5. Partial(o, args.numBlocks) = FullSum(o)
  BY DEF Partial, FullSum
<1> QED BY <1>2, <1>3, <1>4, <1>5

LEMMA PartialFrame ==
  ASSUME UNCHANGED args, NEW o, NEW n
  PROVE  Partial(o, n)' = Partial(o, n)
  BY DEF Partial, Product, ABlock, BBlock, RowOf, ColOf

LEMMA HoldsFrame ==
  ASSUME UNCHANGED args, NEW i, NEW o, NEW n, outL1'[i] = outL1[i], Holds(i, o, n)
  PROVE  Holds(i, o, n)'
  BY PartialFrame DEF Holds

LEMMA InitSums == Init => SumsInv
<1> SUFFICES ASSUME Init PROVE SumsInv
  OBVIOUS
<1>1. compute.pc = "wait" /\ compute.o = 0 /\ compute.k = 0 /\ compute.s = 0
      /\ rw.o = 0
  BY DEF Init
<1> QED BY <1>1 DEF SumsInv, DstInv, PackedInv, UnpackedInv, LeftInv, Slots

\* The other two kernels do not touch the sums; and the writer only goes on
\* from an outer block the compute kernel has not left.
LEMMA SumsOfOthers ==
  ASSUME IInv, SumsInv, UNCHANGED <<args, compute, dst, outL1>>,
         rw'.o = rw.o \/ (rw'.o = rw.o + 1 /\ ~WriterAhead)
  PROVE  SumsInv'
<1>1. Slots' = Slots
  BY DEF Slots, NumSubblocks
<1>2. DstInv'
  <2>1. \A o, n : Partial(o, n)' = Partial(o, n)
    BY PartialFrame
  <2> QED BY <2>1 DEF SumsInv, DstInv
<1>3. \A i, o, n : Holds(i, o, n) => Holds(i, o, n)'
  BY HoldsFrame
<1>4. PackedInv' /\ UnpackedInv'
  BY <1>1, <1>3 DEF SumsInv, PackedInv, UnpackedInv
<1>5. LeftInv'
  <2>1. CASE rw'.o = rw.o
    BY <1>1, <1>3, <2>1 DEF SumsInv, LeftInv
  <2>2. CASE rw'.o = rw.o + 1 /\ ~WriterAhead
    <3>1. rw.o = compute.o \/ compute.o = rw.o + 1
      BY <2>2 DEF IInv, InStep, WriterBehind
    <3>2. ~(compute.o = rw.o + 2)
      BY <3>1, StateFacts
    <3> QED BY <2>2, <3>2, StateFacts DEF LeftInv
  <2> QED BY <2>1, <2>2
<1> QED BY <1>2, <1>4, <1>5 DEF SumsInv

LEMMA ReaderSums == IInv /\ SumsInv /\ ReaderStep => SumsInv'
<1> SUFFICES ASSUME IInv, SumsInv, ReaderStep PROVE SumsInv'
  OBVIOUS
<1>1. UNCHANGED <<args, compute, dst, outL1, rw>>
  BY DEF ReaderStep, In0Reserve, In0Push
<1> QED BY <1>1, SumsOfOthers

LEMMA RWSums == IInv /\ SumsInv /\ RWStep => SumsInv'
<1> SUFFICES ASSUME IInv, SumsInv, RWStep PROVE SumsInv'
  OBVIOUS
<1>1. UNCHANGED <<args, compute, dst, outL1>>
  BY DEF RWStep, In1Reserve, In1Push, StoreIssue, StoreBarrier, SkipRowTail,
         SkipRows
<1>2. CASE ~SkipRows
  <2>1. rw'.o = rw.o
    BY <1>2, RWTypes DEF RWStep, In1Reserve, In1Push, StoreIssue, StoreBarrier,
                         SkipRowTail
  <2> QED BY <1>1, <2>1, SumsOfOthers
<1>3. CASE SkipRows
  <2>1. rw'.o = rw.o + 1 /\ ~WriterAhead
    BY <1>3 DEF SkipRows, NextOuter, WriterAhead
  <2> QED BY <1>1, <2>1, SumsOfOthers
<1> QED BY <1>2, <1>3

\* While the compute kernel has operands the writer is not behind.
LEMMA OperandsHeld ==
  ASSUME IInv, compute.pc \notin {"wait", "done"}
  PROVE  /\ compute.o # rw.o + 1
         /\ compute.o \in Nat /\ compute.k \in Nat /\ compute.s \in 0 .. NumSubblocks
         /\ NumSubblocks \in Nat \ {0} /\ args \in Programs
         /\ compute.k \in 0 .. args.numBlocks - 1 /\ args.numBlocks \in Nat \ {0}
<1>1. ~WriterBehind
  BY DEF WriterBehind
<1>2. compute.o = rw.o \/ rw.o = compute.o + 1
  BY <1>1 DEF IInv, InStep, WriterAhead
<1>3. compute.o # rw.o + 1
  BY <1>2, StateFacts
<1>4. args \in Programs
  BY DEF IInv, TypeOK
<1> QED BY <1>3, <1>4, StateFacts

LEMMA WaitOperandsSums == IInv /\ SumsInv /\ WaitOperands => SumsInv'
<1> SUFFICES ASSUME IInv, SumsInv, WaitOperands PROVE SumsInv'
  OBVIOUS
<1>1. /\ compute.pc = "wait" /\ UNCHANGED <<args, rw, outL1>> /\ dst' = <<>>
      /\ compute'.o = compute.o /\ compute'.k = compute.k /\ compute'.s = 0
      /\ compute'.pc = SubblockStart(compute.reload)
  BY ComputeTypes DEF WaitOperands
<1>2. compute.s = 0 /\ (compute.reload <=> compute.k > 0)
  BY <1>1 DEF IInv, ComputePlace
<1>3. compute'.pc = (IF compute.k > 0 THEN "reload" ELSE "math")
  BY <1>1, <1>2 DEF SubblockStart
<1>4. Slots' = Slots /\ args' = args
  BY <1>1 DEF Slots, NumSubblocks
<1>5. \A i, o, n : Holds(i, o, n) => Holds(i, o, n)'
  BY <1>1, HoldsFrame
<1>6. DstInv'
  <2>1. compute'.pc = "math" => compute.k = 0
    BY <1>3, StateFacts
  <2>2. Partial(compute.o, 0) = <<>>
    <3>1. args \in Programs
      BY DEF IInv, TypeOK
    <3>2. compute.o \in Nat /\ 0 \in Nat
      BY StateFacts
    <3> QED BY <3>1, <3>2, PartialFacts
  <2>3. \A o, n : Partial(o, n)' = Partial(o, n)
    BY <1>4, PartialFrame
  <2> QED BY <1>1, <1>3, <2>1, <2>2, <2>3 DEF DstInv
<1>7. PackedInv'
  BY <1>1, <1>3, <1>4 DEF PackedInv, Slots
<1>8. UnpackedInv'
  BY <1>1, <1>2, <1>3, <1>4, <1>5 DEF SumsInv, UnpackedInv
<1>9. LeftInv'
  BY <1>1, <1>4, <1>5 DEF SumsInv, LeftInv
<1> QED BY <1>6, <1>7, <1>8, <1>9 DEF SumsInv

LEMMA ReloadSums == IInv /\ SumsInv /\ Reload => SumsInv'
<1> SUFFICES ASSUME IInv, SumsInv, Reload PROVE SumsInv'
  OBVIOUS
<1>1. /\ compute.pc = "reload" /\ UNCHANGED <<args, rw, outL1>>
      /\ dst' = outL1[cbPart.rd].sum
      /\ compute'.o = compute.o /\ compute'.k = compute.k
      /\ compute'.s = compute.s /\ compute'.pc = "math"
  BY ComputeTypes DEF Reload
<1>2. compute.k > 0 /\ compute.s < NumSubblocks
  BY <1>1 DEF IInv, ComputePlace
<1>3. Slots' = Slots /\ args' = args /\ compute.s \in Slots
  BY <1>1, <1>2, OperandsHeld DEF Slots, NumSubblocks
<1>4. \A i, o, n : Holds(i, o, n) => Holds(i, o, n)'
  BY <1>1, HoldsFrame
<1>5. DstInv'
  <2>1. cbPart.rd = compute.s
    BY <1>1, <1>2, StateFacts DEF IInv, PartialsPlace, Pos
  <2>2. Holds(compute.s, compute.o, compute.k)
    BY <1>1, <1>2, <1>3 DEF SumsInv, UnpackedInv
  <2>3. dst' = Partial(compute.o, compute.k)
    BY <1>1, <2>1, <2>2 DEF Holds
  <2>4. \A o, n : Partial(o, n)' = Partial(o, n)
    BY <1>3, PartialFrame
  <2> QED BY <1>1, <2>3, <2>4 DEF DstInv
<1>6. PackedInv' /\ UnpackedInv'
  BY <1>1, <1>3, <1>4 DEF SumsInv, PackedInv, UnpackedInv
<1>7. LeftInv'
  BY <1>1, <1>3, <1>4 DEF SumsInv, LeftInv
<1> QED BY <1>5, <1>6, <1>7 DEF SumsInv

LEMMA MatmulTilesSums == IInv /\ Streams /\ SumsInv /\ MatmulTiles => SumsInv'
<1> SUFFICES ASSUME IInv, Streams, SumsInv, MatmulTiles PROVE SumsInv'
  OBVIOUS
<1>1. /\ compute.pc = "math" /\ UNCHANGED <<args, rw, outL1>>
      /\ dst' = Append(dst, <<in0L1[cbIn0.rd], in1L1[cbIn1.rd]>>)
      /\ compute'.o = compute.o /\ compute'.k = compute.k
      /\ compute'.s = compute.s /\ compute'.pc = "pack"
  BY ComputeTypes DEF MatmulTiles
<1>2. Slots' = Slots /\ args' = args
  BY <1>1 DEF Slots, NumSubblocks
<1>3. \A i, o, n : Holds(i, o, n) => Holds(i, o, n)'
  BY <1>1, HoldsFrame
<1>4. DstInv'
  <2>1. dst = Partial(compute.o, compute.k)
    BY <1>1 DEF SumsInv, DstInv
  <2>2. <<in0L1[cbIn0.rd], in1L1[cbIn1.rd]>> = Product(compute.o, compute.k)
    BY <1>1, PairedFact DEF OperandsPaired
  <2>3. dst' = Partial(compute.o, compute.k + 1)
    BY <1>1, <2>1, <2>2, OperandsHeld, PartialFacts
  <2>4. \A o, n : Partial(o, n)' = Partial(o, n)
    BY <1>2, PartialFrame
  <2> QED BY <1>1, <2>3, <2>4 DEF DstInv
<1>5. PackedInv' /\ UnpackedInv'
  BY <1>1, <1>2, <1>3 DEF SumsInv, PackedInv, UnpackedInv
<1>6. LeftInv'
  BY <1>1, <1>2, <1>3 DEF SumsInv, LeftInv
<1> QED BY <1>4, <1>5, <1>6 DEF SumsInv

\* A sum is packed into the slot of its subblock.
LEMMA PackSums ==
  ASSUME IInv, SumsInv, compute.pc = "pack", UNCHANGED <<args, rw, dst>>,
         outL1' = [outL1 EXCEPT ![compute.s] = [s |-> compute.s, sum |-> dst]],
         compute'.o = compute.o, compute'.k = compute.k,
         compute'.s = compute.s, compute'.pc = "push"
  PROVE  SumsInv'
<1>1. /\ compute.s \in Slots /\ Slots' = Slots /\ args' = args
      /\ DOMAIN outL1 = Slots
  <2>1. compute.s < NumSubblocks
    BY DEF IInv, ComputePlace
  <2> QED BY <2>1, OperandsHeld DEF Slots, NumSubblocks, IInv, TypeOK
<1>2. dst = Partial(compute.o, compute.k + 1)
  BY DEF SumsInv, DstInv
<1>3. \A o, n : Partial(o, n)' = Partial(o, n)
  BY <1>1, PartialFrame
<1>4. \A i \in Slots : i # compute.s => outL1'[i] = outL1[i]
  BY <1>1
<1>5. \A i \in Slots : \A o, n : i # compute.s /\ Holds(i, o, n) => Holds(i, o, n)'
  BY <1>1, <1>4, HoldsFrame
<1>6. DstInv'
  BY <1>2, <1>3 DEF DstInv
<1>7. PICK s, o, n : s = compute.s /\ o = compute.o /\ n = compute.k + 1
  OBVIOUS
<1>8. Holds(s, o, n)'
  BY <1>1, <1>2, <1>3, <1>7 DEF Holds
<1>9. PackedInv'
  <2> SUFFICES ASSUME NEW i \in Slots, i < compute.s \/ i = compute.s
               PROVE  Holds(i, o, n)'
    BY <1>1, <1>7 DEF PackedInv
  <2>1. CASE i = compute.s
    BY <1>7, <1>8, <2>1
  <2>2. CASE i < compute.s
    <3>1. Holds(i, o, n) /\ i # compute.s
      BY <1>1, <1>7, <2>2 DEF SumsInv, PackedInv, Slots
    <3> QED BY <1>5, <3>1
  <2> QED BY <2>1, <2>2
<1>10. UnpackedInv'
  <2>1. \A i \in Slots : i > compute.s => i # compute.s
    BY <1>1 DEF Slots
  <2> QED BY <1>1, <1>5, <2>1 DEF SumsInv, UnpackedInv
<1>11. LeftInv'
  BY OperandsHeld DEF LeftInv
<1> QED BY <1>6, <1>9, <1>10, <1>11 DEF SumsInv

LEMMA PackOutSums == IInv /\ SumsInv /\ PackOut => SumsInv'
<1> SUFFICES ASSUME IInv, SumsInv, PackOut PROVE SumsInv'
  OBVIOUS
<1>1. /\ compute.pc = "pack" /\ LastOut /\ UNCHANGED <<args, rw, dst>>
      /\ outL1' = [outL1 EXCEPT ![cbOut.wr] = [s |-> compute.s, sum |-> dst]]
      /\ compute'.o = compute.o /\ compute'.k = compute.k
      /\ compute'.s = compute.s /\ compute'.pc = "push"
  BY ComputeTypes DEF PackOut
<1>2. cbOut.wr = compute.s
  <2>1. compute.s < NumSubblocks /\ cbIn1.cnt >= 1
    BY <1>1 DEF IInv, ComputePlace
  <2>2. InStep
    BY <1>1, <2>1, OperandsInStep
  <2> QED BY <1>1, <2>1, <2>2, StateFacts DEF InStep, Produced, Pos
<1> QED BY <1>1, <1>2, PackSums

LEMMA PackPartialSums == IInv /\ SumsInv /\ PackPartial => SumsInv'
<1> SUFFICES ASSUME IInv, SumsInv, PackPartial PROVE SumsInv'
  OBVIOUS
<1>1. /\ compute.pc = "pack" /\ ~LastOut /\ UNCHANGED <<args, rw, dst>>
      /\ outL1' = [outL1 EXCEPT ![cbPart.wr] = [s |-> compute.s, sum |-> dst]]
      /\ compute'.o = compute.o /\ compute'.k = compute.k
      /\ compute'.s = compute.s /\ compute'.pc = "push"
  BY ComputeTypes DEF PackPartial
<1>2. cbPart.wr = compute.s
  <2>1. compute.s < NumSubblocks
    BY <1>1 DEF IInv, ComputePlace
  <2> QED BY <1>1, <2>1, StateFacts DEF IInv, PartialsPlace, Pos
<1> QED BY <1>1, <1>2, PackSums

LEMMA PushSubblockSums == IInv /\ SumsInv /\ PushSubblock => SumsInv'
<1> SUFFICES ASSUME IInv, SumsInv, PushSubblock PROVE SumsInv'
  OBVIOUS
<1>1. /\ compute.pc = "push" /\ UNCHANGED <<args, rw, outL1>> /\ dst' = <<>>
      /\ compute'.o = compute.o /\ compute'.k = compute.k
      /\ compute'.s = compute.s + 1
      /\ compute'.pc = (IF compute.s + 1 < NumSubblocks
                        THEN SubblockStart(compute.reload) ELSE "pop")
  BY ComputeTypes DEF PushSubblock
<1>2. compute.reload <=> compute.k > 0
  BY DEF IInv, ComputePlace
<1>3. /\ compute'.pc \in {"reload", "math", "pop"}
      /\ compute'.pc = "math" => compute.k = 0
  <2>1. ~(compute.k > 0) => compute.k = 0
    BY StateFacts
  <2>2. compute'.pc \in {SubblockStart(compute.reload), "pop"}
    BY <1>1
  <2>3. SubblockStart(compute.reload) = (IF compute.k > 0 THEN "reload" ELSE "math")
    BY <1>2 DEF SubblockStart
  <2> QED BY <2>1, <2>2, <2>3
<1>4. /\ Slots' = Slots /\ args' = args /\ compute.s \in Nat
      /\ compute.o # rw.o + 1 /\ compute.o \in Nat /\ args \in Programs
  BY <1>1, OperandsHeld DEF Slots, NumSubblocks
<1>5. \A i, o, n : Holds(i, o, n) => Holds(i, o, n)'
  BY <1>1, HoldsFrame
<1>6. DstInv'
  <2>1. Partial(compute.o, 0) = <<>>
    BY <1>4, PartialFacts
  <2>2. \A o, n : Partial(o, n)' = Partial(o, n)
    BY <1>4, PartialFrame
  <2> QED BY <1>1, <1>3, <2>1, <2>2 DEF DstInv
<1>7. PackedInv'
  <2>1. \A i \in Slots : i < compute.s + 1 => i < compute.s \/ i = compute.s
    BY <1>4 DEF Slots
  <2> QED BY <1>1, <1>3, <1>4, <1>5, <2>1 DEF SumsInv, PackedInv
<1>8. UnpackedInv'
  <2>1. \A i \in Slots : i > compute.s + 1 \/ i = compute.s + 1 => i > compute.s
    BY <1>4 DEF Slots
  <2> QED BY <1>1, <1>4, <1>5, <2>1 DEF SumsInv, UnpackedInv
<1>9. LeftInv'
  BY <1>1, <1>4 DEF LeftInv
<1> QED BY <1>6, <1>7, <1>8, <1>9 DEF SumsInv

LEMMA PopOperandsSums == IInv /\ SumsInv /\ PopOperands => SumsInv'
<1> SUFFICES ASSUME IInv, SumsInv, PopOperands PROVE SumsInv'
  OBVIOUS
<1>1. /\ compute.pc = "pop" /\ UNCHANGED <<args, rw, outL1>>
      /\ compute'.pc \in {"wait", "done"} /\ compute'.s = 0
      /\ \/ /\ compute.k + 1 < args.numBlocks
            /\ compute'.o = compute.o /\ compute'.k = compute.k + 1
         \/ /\ ~(compute.k + 1 < args.numBlocks)
            /\ compute'.o = compute.o + 1 /\ compute'.k = 0
  BY ComputeTypes DEF PopOperands, NextOuter
<1>2. /\ compute.s = NumSubblocks /\ compute.o # rw.o + 1
      /\ compute.k \in 0 .. args.numBlocks - 1 /\ args.numBlocks \in Nat \ {0}
      /\ compute.o \in Nat /\ rw.o \in Nat /\ NumSubblocks \in Nat \ {0}
  BY <1>1, OperandsHeld, StateFacts DEF IInv, ComputePlace
<1>3. Slots' = Slots /\ args' = args
  BY <1>1 DEF Slots, NumSubblocks
<1>4. \A i \in Slots : Holds(i, compute.o, compute.k + 1)
  <2>1. \A i \in Slots : i < compute.s
    BY <1>2 DEF Slots
  <2> QED BY <2>1 DEF SumsInv, PackedInv
<1>5. PICK o, n : o = compute.o /\ n = compute.k + 1
  OBVIOUS
<1>6. \A i \in Slots : Holds(i, o, n)'
  <2>1. \A i \in Slots : Holds(i, o, n)
    BY <1>4, <1>5
  <2> QED BY <1>1, <2>1, HoldsFrame
<1>7. DstInv'
  BY <1>1 DEF DstInv
<1>8. PackedInv'
  BY <1>1, <1>3 DEF PackedInv, Slots
<1>9. UnpackedInv'
  BY <1>1, <1>3, <1>5, <1>6 DEF UnpackedInv
<1>10. LeftInv'
  <2>1. CASE compute.k + 1 < args.numBlocks
    BY <1>1, <1>2, <2>1 DEF LeftInv
  <2>2. CASE ~(compute.k + 1 < args.numBlocks)
    <3>1. args.numBlocks = n
      BY <1>2, <1>5, <2>2
    <3>2. compute'.o = rw'.o + 1 => rw'.o = o
      BY <1>1, <1>2, <1>5, <2>2
    <3> QED BY <1>3, <1>6, <3>1, <3>2 DEF LeftInv
  <2> QED BY <2>1, <2>2
<1> QED BY <1>7, <1>8, <1>9, <1>10 DEF SumsInv

LEMMA SumsStep == IInv /\ Streams /\ SumsInv /\ [Next]_vars => SumsInv'
<1> SUFFICES ASSUME IInv, Streams, SumsInv, [Next]_vars PROVE SumsInv'
  OBVIOUS
<1>1. CASE ReaderStep \/ RWStep
  BY <1>1, ReaderSums, RWSums
<1>2. CASE ComputeStep
  BY <1>2, WaitOperandsSums, ReloadSums, MatmulTilesSums, PackOutSums,
     PackPartialSums, PushSubblockSums, PopOperandsSums DEF ComputeStep
<1>3. CASE UNCHANGED vars
  BY <1>3, SumsOfOthers DEF vars
<1> QED BY <1>1, <1>2, <1>3 DEF Next, Finished
-------------------------------------------------------------------------------
(* What the writer has stored *)

\* The writer is through with subblock s of outer block o.
Passed(o, s) == o < rw.o \/ (o = rw.o /\ s < Drained)

WrittenInv ==
  written = [o \in 0 .. NumOuter - 1 |->
               [s \in Slots |-> IF Passed(o, s) THEN Wanted[o][s] ELSE NotWritten]]

LEMMA WantedFacts ==
  ASSUME args \in Programs, NEW o \in 0 .. NumOuter - 1, NEW s \in Slots
  PROVE  /\ HoldsValidTiles(o, s) =>
              Wanted[o][s] = [s |-> s, sum |-> FullSum(o)]
         /\ Wanted[o][s] = NotWritten <=> ~HoldsValidTiles(o, s)
<1>1. /\ o \in Nat /\ s \in Nat /\ args.numBlocks \in Nat
  BY ArgsFacts DEF Slots, Program
<1>2. Wanted[o][s] = IF HoldsValidTiles(o, s) THEN [s |-> s, sum |-> FullSum(o)]
                                             ELSE NotWritten
  BY DEF Wanted, Slots
<1>3. FullSum(o) \in Seq(Block \X Block)
  BY <1>1, PartialFacts
<1>4. [s |-> s, sum |-> FullSum(o)] \in Subblock
  BY <1>1, <1>3 DEF Subblock
<1>5. [s |-> s, sum |-> FullSum(o)] # NotWritten
  BY <1>4, NotWrittenAssumption
<1> QED BY <1>2, <1>5

LEMMA WantedFrame == UNCHANGED args => Wanted' = Wanted
BY DEF Wanted, NumOuter, NumSubblocks, HoldsValidTiles, FullSum, Product, ABlock,
       BBlock, RowOf, ColOf

\* The subblock the writer stores is one with valid tiles; those it skips at
\* the end of a row, and the rows it skips, have none.
LEMMA StoredIsValid ==
  ASSUME IInv, rw.pc = "store"
  PROVE  HoldsValidTiles(rw.o, Drained)
<1>1. /\ rw.sbh < RowsToStore(rw.o) /\ rw.sbw < ColsToStore(rw.o)
      /\ Drained = rw.sbh * args.subW + rw.sbw
  BY DEF IInv, RWPlace, Drained
<1>2. Drained \div args.subW = rw.sbh /\ Drained % args.subW = rw.sbw
  <2>1. rw.sbh \in Nat /\ args.subW \in Nat \ {0} /\ rw.sbw \in 0 .. args.subW - 1
    BY <1>1, StateFacts, DrainedFacts
  <2>2. PICK a \in Nat, b \in Nat \ {0}, c \in 0 .. args.subW - 1 :
          a = rw.sbh /\ b = args.subW /\ c = rw.sbw /\ c \in 0 .. b - 1
    BY <2>1
  <2>3. c \in 0 .. b - 1
    BY <2>2
  <2>4. (a * b + c) \div b = a /\ (a * b + c) % b = c
    BY <2>3, DivMod
  <2>5. Drained = a * b + c
    BY <1>1, <2>2
  <2> QED BY <2>2, <2>4, <2>5
<1> QED BY <1>1, <1>2 DEF HoldsValidTiles, RowsToStore, ColsToStore

LEMMA RowTailIsPadding ==
  ASSUME IInv, rw.pc = "skipW", NEW s \in Slots, s >= Drained,
         s < Drained + WSkip(rw.o)
  PROVE  ~HoldsValidTiles(rw.o, s)
<1> DEFINE t == rw.sbh * args.subW
           c == s - t
<1>1. /\ rw.sbh \in Nat /\ args.subW \in Nat \ {0} /\ s \in Nat
      /\ ColsToStore(rw.o) \in 1 .. args.subW /\ t \in Nat
  BY StateFacts, DrainedFacts, RowProduct DEF Slots
<1>2. Drained = t + ColsToStore(rw.o)
      /\ WSkip(rw.o) = args.subW - ColsToStore(rw.o)
  BY DEF Drained, WSkip
<1>3. c \in 0 .. args.subW - 1 /\ c >= ColsToStore(rw.o) /\ s = t + c
  <2> HIDE DEF t
  <2> QED BY <1>1, <1>2
<1>4. s % args.subW = c
  <2> HIDE DEF c
  <2> QED BY <1>1, <1>3, DivMod
<1>5. ColsToStore(rw.o) # args.subW
  BY <1>1, <1>3
<1>6. ColOf(rw.o) = args.numBlocksW - 1 /\ ColsToStore(rw.o) = args.nzW
  BY <1>5 DEF ColsToStore
<1>7. ~(c < args.nzW)
  <2> HIDE DEF c
  <2> QED BY <1>1, <1>3, <1>6
<1> QED BY <1>4, <1>6, <1>7 DEF HoldsValidTiles

LEMMA RowsArePadding ==
  ASSUME IInv, rw.pc = "skipH", NEW s \in Slots, s >= Drained
  PROVE  ~HoldsValidTiles(rw.o, s)
<1> DEFINE r == RowsToStore(rw.o)
           h == args.subH
           w == args.subW
           q == s \div w
<1>1. r \in 1 .. h /\ w \in Nat \ {0} /\ h \in Nat \ {0}
      /\ Drained = r * w /\ s \in Nat /\ s < h * w
  BY StateFacts, DrainedFacts DEF Slots, Drained, NumSubblocks
<1> HIDE DEF r, h, w
<1>2. q \in Nat /\ s % w \in 0 .. w - 1 /\ s = q * w + (s % w)
  BY <1>1, DivModParts
<1> HIDE DEF q
<1>3. ~(q < r)
  <2> SUFFICES ASSUME q < r PROVE FALSE
    OBVIOUS
  <2>1. q + 1 \in Nat /\ q + 1 <= r /\ r \in Nat
    BY <1>1, <1>2
  <2>2. (q + 1) * w <= r * w /\ (q + 1) * w = q * w + w
        /\ q * w \in Nat /\ r * w \in Nat
    BY <1>1, <1>2, <2>1, MonotoneProduct, RowProduct
  <2> QED BY <1>1, <1>2, <2>2
<1>4. r # h
  <2> SUFFICES ASSUME r = h PROVE FALSE
    OBVIOUS
  <2>1. h * w \in Nat
    BY <1>1, RowProduct
  <2> QED BY <1>1, <2>1
<1>5. RowOf(rw.o) = args.numBlocksH - 1 /\ r = args.nzH
  BY <1>4 DEF RowsToStore, r, h
<1>6. ~(s \div args.subW < args.nzH)
  <2>1. q = s \div args.subW
    BY DEF q, w
  <2> QED BY <1>3, <1>5, <2>1
<1> QED BY <1>5, <1>6 DEF HoldsValidTiles

\* Nothing is stored while the writer only passes subblocks of padding.
LEMMA WrittenFrame ==
  ASSUME IInv, WrittenInv, UNCHANGED <<args, written>>,
         \A o \in 0 .. NumOuter - 1 : \A s \in Slots :
           HoldsValidTiles(o, s) => (Passed(o, s)' <=> Passed(o, s))
  PROVE  WrittenInv'
<1>1. args \in Programs /\ Slots' = Slots /\ NumOuter' = NumOuter
      /\ Wanted' = Wanted
  BY WantedFrame DEF IInv, TypeOK, Slots, NumSubblocks, NumOuter
<1>2. ASSUME NEW o \in 0 .. NumOuter - 1, NEW s \in Slots
      PROVE  (IF Passed(o, s)' THEN Wanted[o][s] ELSE NotWritten)
               = (IF Passed(o, s) THEN Wanted[o][s] ELSE NotWritten)
  BY <1>1, <1>2, WantedFacts
<1>3. written = [o \in 0 .. NumOuter - 1 |->
                   [s \in Slots |-> IF Passed(o, s)' THEN Wanted[o][s]
                                                    ELSE NotWritten]]
  BY <1>2 DEF WrittenInv
<1> QED BY <1>1, <1>3 DEF WrittenInv

LEMMA InitWritten == Init => WrittenInv
<1> SUFFICES ASSUME Init PROVE WrittenInv
  OBVIOUS
<1>1. /\ NumOuter \in Nat \ {0} /\ NumSubblocks \in Nat \ {0}
      /\ rw.o = 0 /\ Drained = 0
  BY ArgsFacts DEF Init, Drained
<1>2. \A o \in 0 .. NumOuter - 1 : \A s \in Slots : ~Passed(o, s)
  BY <1>1 DEF Passed, Slots
<1> QED BY <1>2 DEF Init, WrittenInv, Slots

\* A step that leaves the writer's position as it is.
LEMMA WriterStays ==
  ASSUME IInv, WrittenInv, UNCHANGED <<args, written>>, rw'.o = rw.o,
         Drained' = Drained
  PROVE  WrittenInv'
<1>1. \A o, s : Passed(o, s)' <=> Passed(o, s)
  BY DEF Passed
<1> QED BY <1>1, WrittenFrame

LEMMA In1Written ==
  ASSUME IInv, WrittenInv, In1Reserve \/ In1Push \/ StoreIssue
  PROVE  WrittenInv'
<1>1. UNCHANGED <<args, written>> /\ rw'.o = rw.o
  BY RWTypes DEF In1Reserve, In1Push, StoreIssue
<1>2. CASE In1Reserve
  <2>1. rw.pc = "reserve" /\ rw'.pc = "read"
    BY <1>2, RWTypes DEF In1Reserve
  <2> QED BY <1>1, <2>1, WriterStays DEF Drained
<1>3. CASE In1Push
  <2>1. /\ rw.pc = "read" /\ rw'.pc \in {"reserve", "front"}
        /\ rw'.pc = "front" => rw'.sbh = 0 /\ rw'.sbw = 0
    BY <1>3, RWTypes DEF In1Push
  <2>2. 0 * args.subW + 0 = 0
    BY StateFacts
  <2>3. Drained = 0 /\ Drained' = 0
    BY <1>1, <2>1, <2>2 DEF Drained
  <2> QED BY <1>1, <2>3, WriterStays
<1>4. CASE StoreIssue
  <2>1. /\ rw.pc = "front" /\ rw'.pc = "store"
        /\ rw'.sbh = rw.sbh /\ rw'.sbw = rw.sbw
    BY <1>4, RWTypes DEF StoreIssue
  <2> QED BY <1>1, <2>1, WriterStays DEF Drained
<1> QED BY <1>2, <1>3, <1>4

LEMMA SkipRowTailWritten ==
  ASSUME IInv, WrittenInv, SkipRowTail
  PROVE  WrittenInv'
<1>1. /\ UNCHANGED <<args, written>> /\ rw.pc = "skipW" /\ rw'.o = rw.o
      /\ rw'.sbh = rw.sbh + 1 /\ rw'.sbw = 0
      /\ rw'.pc = (IF rw.sbh + 1 < RowsToStore(rw.o) THEN "front" ELSE "skipH")
  BY RWTypes DEF SkipRowTail, IInv, RWPlace
<1>2. Drained' = Drained + WSkip(rw.o)
  <2>1. /\ Drained + WSkip(rw.o) = (rw.sbh + 1) * args.subW
        /\ rw.sbh < RowsToStore(rw.o) /\ rw.sbh \in Nat
        /\ RowsToStore(rw.o) \in Nat
        /\ RowsToStore(rw.o)' = RowsToStore(rw.o) /\ args.subW \in Nat
    BY <1>1, DrainedFacts, StateFacts DEF IInv, RWPlace, RowsToStore, RowOf
  <2>2. (rw.sbh + 1) * args.subW \in Nat
    BY <2>1, RowProduct
  <2>3. CASE rw.sbh + 1 < RowsToStore(rw.o)
    <3>1. Drained' = (rw.sbh + 1) * args.subW + 0
      BY <1>1, <2>3 DEF Drained
    <3> QED BY <2>1, <2>2, <3>1
  <2>4. CASE ~(rw.sbh + 1 < RowsToStore(rw.o))
    <3>1. rw.sbh + 1 = RowsToStore(rw.o)
      BY <2>1, <2>4
    <3>2. Drained' = RowsToStore(rw.o) * args.subW
      BY <1>1, <2>1, <2>4 DEF Drained
    <3> QED BY <2>1, <3>1, <3>2
  <2> QED BY <2>3, <2>4
<1>3. ASSUME NEW o \in 0 .. NumOuter - 1, NEW s \in Slots, HoldsValidTiles(o, s)
      PROVE  Passed(o, s)' <=> Passed(o, s)
  <2>1. CASE o = rw.o
    <3>1. ~(s >= Drained /\ s < Drained + WSkip(rw.o))
      BY <1>1, <1>3, <2>1, RowTailIsPadding
    <3>2. s \in Nat /\ Drained \in Nat /\ WSkip(rw.o) \in Nat
      BY DrainedFacts, StateFacts DEF Slots
    <3>3. s < Drained' <=> s < Drained
      BY <1>2, <3>1, <3>2
    <3> QED BY <1>1, <3>3 DEF Passed
  <2>2. CASE o # rw.o
    BY <1>1, <2>2 DEF Passed
  <2> QED BY <2>1, <2>2
<1> QED BY <1>1, <1>3, WrittenFrame

LEMMA SkipRowsWritten ==
  ASSUME IInv, WrittenInv, SkipRows
  PROVE  WrittenInv'
<1>1. /\ UNCHANGED <<args, written>> /\ rw.pc = "skipH" /\ rw'.o = rw.o + 1
      /\ rw'.pc \in {"reserve", "done"}
  BY DEF SkipRows, NextOuter
<1>2. Drained' = 0
  BY <1>1 DEF Drained
<1>3. ASSUME NEW o \in 0 .. NumOuter - 1, NEW s \in Slots, HoldsValidTiles(o, s)
      PROVE  Passed(o, s)' <=> Passed(o, s)
  <2>1. o \in Nat /\ rw.o \in Nat /\ s \in Nat /\ Drained \in Nat
    BY DrainedFacts, StateFacts DEF Slots
  <2>2. o = rw.o => s < Drained
    BY <1>1, <1>3, <2>1, RowsArePadding
  <2> QED BY <1>1, <1>2, <2>1, <2>2 DEF Passed
<1> QED BY <1>1, <1>3, WrittenFrame

\* A subblock that is stored is complete, in its place, and stored once.
LEMMA StoreFacts ==
  ASSUME IInv, SumsInv, WrittenInv, StoreBarrier
  PROVE  /\ rw.o \in 0 .. NumOuter - 1 /\ Drained \in Slots
         /\ written[rw.o][Drained] = NotWritten
         /\ Wanted[rw.o][Drained] # NotWritten
         /\ written' = [written EXCEPT ![rw.o][Drained] = Wanted[rw.o][Drained]]
<1>1. /\ rw.pc = "store" /\ cbOut.cnt >= 1 /\ rw.o < NumOuter
      /\ Drained = rw.sbh * args.subW + rw.sbw
      /\ written' = [written EXCEPT ![rw.o][Drained] = outL1[cbOut.rd]]
  BY DEF StoreBarrier, IInv, RWPlace, Drained
<1>2. /\ rw.o \in 0 .. NumOuter - 1 /\ Drained \in Slots /\ Drained \in Nat
      /\ args \in Programs /\ Drained < NumSubblocks /\ NumSubblocks \in Nat
  <2>1. args \in Programs
    BY DEF IInv, TypeOK
  <2>2. Drained \in 0 .. NumSubblocks /\ Drained < NumSubblocks
    BY <1>1, DrainedFacts
  <2>3. NumSubblocks \in Nat /\ NumOuter \in Nat /\ rw.o \in 0 .. NumOuter
    BY StateFacts
  <2>4. Drained \in Nat /\ Drained \in 0 .. NumSubblocks - 1
    BY <2>2, <2>3
  <2>5. rw.o \in 0 .. NumOuter - 1
    BY <1>1, <2>3
  <2> QED BY <2>1, <2>2, <2>3, <2>4, <2>5 DEF Slots
<1>3. HoldsValidTiles(rw.o, Drained)
  BY <1>1, StoredIsValid
<1>4. written[rw.o][Drained] = NotWritten
  <2>1. ~Passed(rw.o, Drained)
    BY <1>2 DEF Passed
  <2> QED BY <1>2, <2>1 DEF WrittenInv
<1>5. Wanted[rw.o][Drained] = [s |-> Drained, sum |-> FullSum(rw.o)]
  BY <1>2, <1>3, WantedFacts
<1>6. InStep \/ WriterBehind
  BY <1>1 DEF IInv, WriterAhead
<1>7. cbOut.rd = Drained
  BY <1>2, <1>6 DEF InStep, WriterBehind, Pos
<1>8. Holds(Drained, rw.o, args.numBlocks)
  <2>1. CASE InStep
    <3>1. cbOut.cnt = Produced - Drained /\ compute.o = rw.o
      BY <2>1 DEF InStep
    <3>2. LastOut /\ compute.s > Drained
      BY <1>1, <1>2, <3>1, StateFacts DEF Produced
    <3>3. Holds(Drained, compute.o, compute.k + 1)
      BY <1>2, <3>2, StateFacts DEF SumsInv, PackedInv
    <3>4. compute.k + 1 = args.numBlocks
      BY <3>2, StateFacts DEF LastOut
    <3> QED BY <3>1, <3>3, <3>4
  <2>2. CASE WriterBehind
    BY <1>2, <2>2 DEF WriterBehind, SumsInv, LeftInv
  <2> QED BY <1>6, <2>1, <2>2
<1>9. outL1[cbOut.rd] = Wanted[rw.o][Drained]
  <2>1. Partial(rw.o, args.numBlocks) = FullSum(rw.o)
    BY DEF Partial, FullSum
  <2> QED BY <1>5, <1>7, <1>8, <2>1 DEF Holds
<1>10. Wanted[rw.o][Drained] # NotWritten
  BY <1>2, <1>3, WantedFacts
<1> QED BY <1>1, <1>2, <1>4, <1>9, <1>10

LEMMA StoreBarrierWritten ==
  ASSUME IInv, SumsInv, WrittenInv, StoreBarrier
  PROVE  WrittenInv'
<1>1. /\ UNCHANGED args /\ rw.pc = "store" /\ rw'.o = rw.o /\ rw'.sbh = rw.sbh
      /\ \/ /\ rw.sbw + 1 < ColsToStore(rw.o)
            /\ rw'.pc = "front" /\ rw'.sbw = rw.sbw + 1
         \/ /\ ~(rw.sbw + 1 < ColsToStore(rw.o)) /\ rw'.pc = "skipW"
  BY RWTypes DEF StoreBarrier
<1>2. Drained' = Drained + 1
  <2> DEFINE t == rw.sbh * args.subW
  <2>1. /\ Drained = t + rw.sbw /\ t \in Nat /\ rw.sbw \in Nat
        /\ rw.sbw < ColsToStore(rw.o) /\ ColsToStore(rw.o) \in Nat
        /\ ColsToStore(rw.o)' = ColsToStore(rw.o)
    BY <1>1, StateFacts, DrainedFacts, RowProduct
       DEF Drained, IInv, RWPlace, ColsToStore, ColOf
  <2>2. CASE rw'.pc = "front"
    <3>1. Drained' = t + (rw.sbw + 1)
      BY <1>1, <2>2 DEF Drained
    <3> HIDE DEF t
    <3> QED BY <2>1, <3>1
  <2>3. CASE rw'.pc = "skipW"
    <3>1. Drained' = t + ColsToStore(rw.o)
      BY <1>1, <2>1, <2>3 DEF Drained
    <3> HIDE DEF t
    <3> QED BY <1>1, <2>1, <2>3, <3>1
  <2> QED BY <1>1, <2>2, <2>3
<1>3. /\ rw.o \in 0 .. NumOuter - 1 /\ Drained \in Slots
      /\ written' = [written EXCEPT ![rw.o][Drained] = Wanted[rw.o][Drained]]
  BY StoreFacts
<1>4. \A o \in 0 .. NumOuter - 1 : \A s \in Slots :
        Passed(o, s)' <=> Passed(o, s) \/ (o = rw.o /\ s = Drained)
  BY <1>1, <1>2, <1>3 DEF Passed, Slots
<1>5. Slots' = Slots /\ NumOuter' = NumOuter /\ Wanted' = Wanted
  BY <1>1, WantedFrame DEF Slots, NumSubblocks, NumOuter
<1>6. written' = [o \in 0 .. NumOuter - 1 |->
                    [s \in Slots |->
                       IF Passed(o, s) \/ (o = rw.o /\ s = Drained)
                       THEN Wanted[o][s] ELSE NotWritten]]
  BY <1>3 DEF WrittenInv
<1>7. written' = [o \in 0 .. NumOuter - 1 |->
                    [s \in Slots |->
                       IF Passed(o, s)' THEN Wanted[o][s] ELSE NotWritten]]
  BY <1>4, <1>6
<1> QED BY <1>5, <1>7 DEF WrittenInv

LEMMA WrittenStep == IInv /\ SumsInv /\ WrittenInv /\ [Next]_vars => WrittenInv'
<1> SUFFICES ASSUME IInv, SumsInv, WrittenInv, [Next]_vars PROVE WrittenInv'
  OBVIOUS
<1>1. CASE ReaderStep \/ ComputeStep \/ UNCHANGED vars
  <2>1. UNCHANGED <<args, rw, written>>
    BY <1>1 DEF ReaderStep, In0Reserve, In0Push, ComputeStep, WaitOperands,
                Reload, MatmulTiles, PackOut, PackPartial, PushSubblock,
                PopOperands, vars
  <2> QED BY <2>1, DrainedFrame, WriterStays
<1>2. CASE RWStep
  BY <1>2, In1Written, StoreBarrierWritten, SkipRowTailWritten, SkipRowsWritten
     DEF RWStep
<1> QED BY <1>1, <1>2 DEF Next, Finished

CoreInv == IInv /\ Streams /\ SumsInv /\ WrittenInv

(* The input CBs, the partial sums and the stored output are what the loop *)
(* positions of the three kernels say they are, in every reachable state.  *)
THEOREM CoreDataInvariant == Spec => []CoreInv
<1>1. Init => CoreInv
  BY InitIInv, InitStreams, InitSums, InitWritten DEF CoreInv
<1>2. CoreInv /\ [Next]_vars => CoreInv'
  BY NextIInv, StreamsStep, SumsStep, WrittenStep DEF CoreInv
<1> QED BY <1>1, <1>2, PTL DEF Spec

(* For every blocking and every padding, the three kernels implement what  *)
(* OutputBlocks promises, but for its fairness: a step either stores one   *)
(* valid subblock, for the first time, at its own place and with its       *)
(* complete sum in K order, or leaves what is stored alone.                *)
THEOREM CoreImplementsOutputBlocks ==
  Spec => Promised!Init /\ [][Promised!Next]_(Promised!vars)
<1>1. Init => Promised!Init
  <2> SUFFICES ASSUME Init PROVE Promised!Init
    OBVIOUS
  <2>1. written = [o \in DOMAIN Wanted |-> [s \in DOMAIN Wanted[o] |-> NotWritten]]
    BY DEF Init, Wanted
  <2> QED BY <2>1 DEF Promised!Init
<1>2. CoreInv /\ [Next]_vars => [Promised!Next]_(Promised!vars)
  <2> SUFFICES ASSUME CoreInv, [Next]_vars
               PROVE  [Promised!Next]_(Promised!vars)
    OBVIOUS
  <2>1. UNCHANGED Wanted
    <3>1. UNCHANGED args
      BY DEF Next, ReaderStep, In0Reserve, In0Push, RWStep, In1Reserve, In1Push,
             StoreIssue, StoreBarrier, SkipRowTail, SkipRows, ComputeStep,
             WaitOperands, Reload, MatmulTiles, PackOut, PackPartial,
             PushSubblock, PopOperands, Finished, vars
    <3> QED BY <3>1, WantedFrame
  <2>2. CASE ~StoreBarrier
    <3>1. UNCHANGED written
      BY <2>2 DEF Next, ReaderStep, In0Reserve, In0Push, RWStep, In1Reserve,
             In1Push, StoreIssue, SkipRowTail, SkipRows, ComputeStep,
             WaitOperands, Reload, MatmulTiles, PackOut, PackPartial,
             PushSubblock, PopOperands, Finished, vars
    <3> QED BY <2>1, <3>1 DEF Promised!vars
  <2>3. CASE StoreBarrier
    <3>1. /\ rw.o \in 0 .. NumOuter - 1 /\ Drained \in Slots
          /\ written[rw.o][Drained] = NotWritten
          /\ Wanted[rw.o][Drained] # NotWritten
          /\ written' = [written EXCEPT
                           ![rw.o][Drained] = Wanted[rw.o][Drained]]
      BY <2>3, StoreFacts DEF CoreInv
    <3>2. DOMAIN written = 0 .. NumOuter - 1 /\ DOMAIN written[rw.o] = Slots
      BY <3>1 DEF CoreInv, WrittenInv
    <3>3. PICK o, S : o = rw.o /\ S = {Drained}
      OBVIOUS
    <3>4. written' = [written EXCEPT
                       ![o] = [s \in DOMAIN @ |->
                                 IF s \in S THEN Wanted[o][s] ELSE @[s]]]
      BY <3>1, <3>2, <3>3 DEF CoreInv, WrittenInv
    <3>5. Promised!WriteBack(o, S)
      BY <2>1, <3>1, <3>3, <3>4 DEF Promised!WriteBack
    <3>6. o \in DOMAIN written /\ S \in SUBSET DOMAIN written[o]
      BY <3>1, <3>2, <3>3
    <3> QED BY <3>5, <3>6 DEF Promised!Next
  <2> QED BY <2>2, <2>3
<1> QED BY <1>1, <1>2, CoreDataInvariant, PTL DEF Spec
===============================================================================
