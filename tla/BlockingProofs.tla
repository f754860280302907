---------------------------- MODULE BlockingProofs ----------------------------
(***************************************************************************)
(* Theorems about Blocking, for all launches: what the host chooses fits.  *)
(*                                                                         *)
(* The argument: the scan of the blockings ends with one that the formula  *)
(* of its heuristic admits, if there is any (FirstScannedChosen), and both *)
(* formulas count at least the CBs of the program (ChosenBlockFits).  The  *)
(* invariant PlanInv carries that to where the addresses are laid out.     *)
(***************************************************************************)
EXTENDS Blocking, WellFoundedInduction, TLAPS

\* What is known of a chosen blocking.
BlockFits ==
  /\ plan.blockH \in 1 .. PerCoreMt /\ plan.blockW \in 1 .. PerCoreNt
  /\ plan.in0W \in BlockWidths
  /\ PerCoreMt % plan.blockH = 0 /\ PerCoreNt % plan.blockW = 0
  /\ CBTiles(plan.blockH, plan.blockW, plan.in0W) <= launch.l1
  /\ ~launch.useDram =>
       /\ plan.blockH = PerCoreMt /\ plan.blockW = PerCoreNt
       /\ StaticNeed(plan.blockH, plan.blockW, plan.in0W) <= launch.l1

BlocksCounted ==
  /\ plan.numBlocks = Kt \div plan.in0W
  /\ plan.numBlocksH = PerCoreMt \div plan.blockH
  /\ plan.numBlocksW = PerCoreNt \div plan.blockW

PlanInv ==
  /\ launch \in Launch
  /\ phase \in {"place", "ready"} => BlockFits /\ BlocksCounted
  /\ phase = "ready" =>
       layout = Addresses(plan.blockH, plan.blockW, plan.in0W)
  /\ phase = "rejected" =>
       IF launch.useDram THEN DynamicFits(PerCoreMt, PerCoreNt) = {}
                         ELSE StaticFits(PerCoreMt, PerCoreNt) = {}

IInv == PlanInv /\ phase \in {"grid", "place", "ready", "rejected"}
-------------------------------------------------------------------------------
(* The scan *)

\* A bounded set of numbers has a largest element.
LEMMA LargestElement ==
  ASSUME NEW n \in Nat, NEW S \in SUBSET (1 .. n), S # {}
  PROVE  \E x \in S : \A y \in S : y <= x
<1> DEFINE T == { n - x : x \in S }
<1>1. T \subseteq Nat /\ T # {}
  <2>1. \A x \in S : n - x \in Nat
    OBVIOUS
  <2>2. PICK x \in S : TRUE
    OBVIOUS
  <2>3. n - x \in T
    OBVIOUS
  <2> QED BY <2>1, <2>3
<1>2. PICK t \in T : \A u \in T : <<u, t>> \notin OpToRel(<, Nat)
  BY <1>1, NatLessThanWellFounded, WFMin
<1>3. \A u \in T : ~(u < t)
  BY <1>1, <1>2 DEF OpToRel
<1>4. PICK x \in S : t = n - x
  OBVIOUS
<1>5. \A y \in S : y <= x
  <2> SUFFICES ASSUME NEW y \in S PROVE y <= x
    OBVIOUS
  <2>1. n - y \in T
    OBVIOUS
  <2> QED BY <1>3, <1>4, <2>1
<1> QED BY <1>5

\* The scan stops at one of the choices, if there is any.
LEMMA FirstScannedChosen ==
  ASSUME NEW m \in Nat, NEW n \in Nat, NEW k \in Nat,
         NEW S \in SUBSET ((1 .. m) \X (1 .. n) \X (1 .. k)), S # {}
  PROVE  FirstScanned(S) \in S
<1> DEFINE Heights == { c[1] : c \in S }
<1>1. PICK h \in Heights : \A y \in Heights : y <= h
  <2>1. Heights \in SUBSET (1 .. m) /\ Heights # {}
    OBVIOUS
  <2> QED BY <2>1, LargestElement
<1> DEFINE Tallest == { c \in S : c[1] = h }
           Widths == { c[2] : c \in Tallest }
<1>2. PICK w \in Widths : \A y \in Widths : y <= w
  <2>1. Widths \in SUBSET (1 .. n) /\ Widths # {}
    OBVIOUS
  <2> QED BY <2>1, LargestElement
<1> DEFINE Widest == { c \in Tallest : c[2] = w }
           Steps == { c[3] : c \in Widest }
<1>3. PICK b \in Steps : \A y \in Steps : y <= b
  <2>1. Steps \in SUBSET (1 .. k) /\ Steps # {}
    OBVIOUS
  <2> QED BY <2>1, LargestElement
<1>4. PICK c \in S : c[1] = h /\ c[2] = w /\ c[3] = b
  OBVIOUS
<1>5. \A d \in S \ {c} : ScannedBefore(c, d)
  <2> SUFFICES ASSUME NEW d \in S \ {c} PROVE ScannedBefore(c, d)
    OBVIOUS
  <2>1. c = <<c[1], c[2], c[3]>> /\ d = <<d[1], d[2], d[3]>>
    OBVIOUS
  <2>2. d[1] \in Int /\ d[2] \in Int /\ d[3] \in Int /\ h \in Int /\ w \in Int
          /\ b \in Int
    OBVIOUS
  <2>3. d[1] <= h /\ (d[1] = h => d[2] <= w)
          /\ (d[1] = h /\ d[2] = w => d[3] <= b)
    BY <1>1, <1>2, <1>3
  <2>4. ~(d[1] = h /\ d[2] = w /\ d[3] = b)
    BY <1>4, <2>1
  <2> QED BY <1>4, <2>2, <2>3, <2>4 DEF ScannedBefore
<1> QED BY <1>4, <1>5 DEF FirstScanned
-------------------------------------------------------------------------------
(* What the heuristics choose fits *)

\* The shares of the cores, and the tiles along K, are positive.
LEMMA Shares ==
  ASSUME launch \in Launch
  PROVE  /\ Mt \in Nat \ {0} /\ Nt \in Nat \ {0} /\ Kt \in Nat \ {0}
         /\ PerCoreMt \in Nat \ {0} /\ PerCoreNt \in Nat \ {0}
         /\ launch.l1 \in Nat
<1>1. \A e \in Nat \ {0} : AlignedTiles(e) \in Nat \ {0}
  BY LaunchesAssumption DEF AlignedTiles
<1>2. \A t, c \in Nat \ {0} : PerCore(t, c) \in Nat \ {0}
  BY DEF PerCore
<1> QED BY <1>1, <1>2 DEF Launch, Mt, Nt, Kt, PerCoreMt, PerCoreNt

LEMMA DivisorFacts ==
  ASSUME NEW n \in Nat \ {0}
  PROVE  1 \in Divisors(n) /\ n \in Divisors(n)
  BY DEF Divisors

\* Every formula counts at least the CBs.
LEMMA NeedFacts ==
  ASSUME NEW h \in Nat, NEW w \in Nat, NEW b \in Nat
  PROVE  /\ CBTiles(h, w, b) \in Nat /\ StaticNeed(h, w, b) \in Nat
         /\ CBTiles(h, w, b) <= StaticNeed(h, w, b)
<1>1. h * b \in Nat /\ w * b \in Nat /\ h * w \in Nat
  OBVIOUS
<1>2. 2 * h * b = 2 * (h * b) /\ 2 * w * b = 2 * (w * b)
  OBVIOUS
<1> HIDE DEF CBTiles
<1>3. CBTiles(h, w, b) = 2 * (h * b) + 2 * (w * b) + h * w + 2
  BY <1>2 DEF CBTiles
<1>4. CBTiles(h, w, b) \in Nat
  BY <1>1, <1>3
<1> QED BY <1>1, <1>4 DEF StaticNeed

\* The choices that fit are among boundedly many.
LEMMA ChoicesBounded ==
  ASSUME launch \in Launch
  PROVE  /\ DynamicFits(PerCoreMt, PerCoreNt)
               \subseteq (1 .. PerCoreMt) \X (1 .. PerCoreNt) \X (1 .. 4)
         /\ StaticFits(PerCoreMt, PerCoreNt)
               \subseteq (1 .. PerCoreMt) \X (1 .. PerCoreNt) \X (1 .. 4)
  BY Shares DEF DynamicFits, StaticFits, Divisors, BlockWidths

\* A step that chooses the blocking establishes the invariant of the plan.
LEMMA ChooseBlocksPlan ==
  ASSUME PlanInv, ChooseBlocks
  PROVE  PlanInv'
<1> DEFINE fits == IF launch.useDram THEN DynamicFits(PerCoreMt, PerCoreNt)
                                     ELSE StaticFits(PerCoreMt, PerCoreNt)
           block == BlockParams(PerCoreMt, PerCoreNt)
<1>1. launch \in Launch /\ launch' = launch
  BY DEF PlanInv, ChooseBlocks
<1>2. PerCoreMt' = PerCoreMt /\ PerCoreNt' = PerCoreNt /\ Kt' = Kt
        /\ BlockWidths' = BlockWidths
        /\ DynamicFits(PerCoreMt, PerCoreNt)' = DynamicFits(PerCoreMt, PerCoreNt)
        /\ StaticFits(PerCoreMt, PerCoreNt)' = StaticFits(PerCoreMt, PerCoreNt)
  BY <1>1 DEF PerCoreMt, PerCoreNt, Mt, Nt, Kt, BlockWidths, DynamicFits,
              StaticFits, StaticNeed
<1>3. CASE fits = {}
  <2>1. block[3] = 0
    BY <1>3 DEF BlockParams
  <2>2. phase' = "rejected"
    BY <2>1 DEF ChooseBlocks
  <2> QED BY <1>1, <1>2, <1>3, <2>2 DEF PlanInv
<1>4. CASE fits # {}
  <2>1. block \in fits
    <3>1. fits \in SUBSET ((1 .. PerCoreMt) \X (1 .. PerCoreNt) \X (1 .. 4))
      BY <1>1, ChoicesBounded
    <3>2. FirstScanned(fits) \in fits
      BY <1>1, <1>4, <3>1, FirstScannedChosen, Shares
    <3> QED BY <1>4, <3>2 DEF BlockParams
  <2> HIDE DEF block
  <2>2. /\ block[1] \in 1 .. PerCoreMt /\ block[2] \in 1 .. PerCoreNt
        /\ block[3] \in BlockWidths /\ block[3] \in {1, 2, 4}
        /\ PerCoreMt % block[1] = 0 /\ PerCoreNt % block[2] = 0
        /\ CBTiles(block[1], block[2], block[3]) <= launch.l1
        /\ ~launch.useDram =>
             /\ block[1] = PerCoreMt /\ block[2] = PerCoreNt
             /\ StaticNeed(block[1], block[2], block[3]) <= launch.l1
    <3>1. CASE launch.useDram
      BY <1>1, <2>1, <3>1, Shares
      DEF DynamicFits, Divisors, BlockWidths, DynamicNeed
    <3>2. CASE ~launch.useDram
      <4>1. /\ block[1] = PerCoreMt /\ block[2] = PerCoreNt
            /\ block[3] \in BlockWidths /\ block[3] \in {1, 2, 4}
            /\ StaticNeed(block[1], block[2], block[3]) <= launch.l1
        BY <2>1, <3>2 DEF StaticFits, BlockWidths
      <4>2. CBTiles(block[1], block[2], block[3])
              <= StaticNeed(block[1], block[2], block[3])
            /\ CBTiles(block[1], block[2], block[3]) \in Nat
            /\ StaticNeed(block[1], block[2], block[3]) \in Nat
        BY <1>1, <4>1, Shares, NeedFacts
      <4>3. PerCoreMt % block[1] = 0 /\ PerCoreNt % block[2] = 0
        BY <1>1, <4>1, Shares
      <4> QED BY <1>1, <4>1, <4>2, <4>3, Shares
    <3> QED BY <3>1, <3>2
  <2>3. /\ phase' = "place"
        /\ plan'.blockH = block[1] /\ plan'.blockW = block[2]
        /\ plan'.in0W = block[3]
        /\ plan'.numBlocksH = PerCoreMt \div block[1]
        /\ plan'.numBlocksW = PerCoreNt \div block[2]
        /\ plan'.numBlocks = Kt \div block[3]
    BY <2>2 DEF ChooseBlocks, block
  <2>4. BlockFits' /\ BlocksCounted'
    BY <1>1, <1>2, <2>2, <2>3 DEF BlockFits, BlocksCounted, StaticNeed, CBTiles
  <2> QED BY <1>1, <2>3, <2>4 DEF PlanInv
<1> QED BY <1>3, <1>4

\* Laying out the addresses leaves the plan alone.
LEMMA PlaceBuffersPlan ==
  ASSUME PlanInv, PlaceBuffers
  PROVE  PlanInv'
<1>1. launch \in Launch /\ launch' = launch /\ plan' = plan
        /\ phase = "place" /\ phase' = "ready"
        /\ layout' = Addresses(plan.blockH, plan.blockW, plan.in0W)
  BY DEF PlanInv, PlaceBuffers
<1>2. BlockFits' /\ BlocksCounted'
  BY <1>1 DEF PlanInv, BlockFits, BlocksCounted, PerCoreMt, PerCoreNt, Mt, Nt,
              Kt, BlockWidths, StaticNeed
<1>3. layout' = Addresses(plan.blockH, plan.blockW, plan.in0W)'
  BY <1>1 DEF Addresses
<1> QED BY <1>1, <1>2, <1>3 DEF PlanInv

LEMMA StutterPlan ==
  ASSUME PlanInv, UNCHANGED setupVars
  PROVE  PlanInv'
<1>1. launch' = launch /\ phase' = phase /\ plan' = plan /\ layout' = layout
  BY DEF setupVars
<1>2. PerCoreMt' = PerCoreMt /\ PerCoreNt' = PerCoreNt /\ Kt' = Kt
  BY <1>1 DEF PerCoreMt, PerCoreNt, Mt, Nt, Kt
<1>3. BlockFits' = BlockFits /\ BlocksCounted' = BlocksCounted
  BY <1>1, <1>2 DEF BlockFits, BlocksCounted, BlockWidths, StaticNeed
<1>4. /\ DynamicFits(PerCoreMt, PerCoreNt)' = DynamicFits(PerCoreMt, PerCoreNt)
      /\ StaticFits(PerCoreMt, PerCoreNt)' = StaticFits(PerCoreMt, PerCoreNt)
  BY <1>1, <1>2 DEF DynamicFits, StaticFits, BlockWidths, StaticNeed
<1>5. Addresses(plan.blockH, plan.blockW, plan.in0W)'
        = Addresses(plan.blockH, plan.blockW, plan.in0W)
  BY <1>1 DEF Addresses
<1> QED BY <1>1, <1>3, <1>4, <1>5 DEF PlanInv

\* PlanInv, and nothing but these phases, in every state.
THEOREM PlanInvariant == SetupSpec => []IInv
<1>1. SetupInit => IInv
  BY LaunchesAssumption DEF SetupInit, IInv, PlanInv
<1>2. IInv /\ [SetupNext]_setupVars => IInv'
  <2> SUFFICES ASSUME IInv, [SetupNext]_setupVars PROVE IInv'
    OBVIOUS
  <2>1. CASE ChooseBlocks
    <3>1. phase' \in {"place", "rejected"}
      BY <2>1 DEF ChooseBlocks
    <3> QED BY <2>1, <3>1, ChooseBlocksPlan DEF IInv
  <2>2. CASE PlaceBuffers
    BY <2>2, PlaceBuffersPlan DEF IInv, PlaceBuffers
  <2>3. CASE UNCHANGED setupVars
    BY <2>3, StutterPlan DEF IInv, setupVars
  <2> QED BY <2>1, <2>2, <2>3 DEF SetupNext, SetupFinished
<1> QED BY <1>1, <1>2, PTL DEF SetupSpec
-------------------------------------------------------------------------------
(* The properties of Blocking *)

\* The sizes of the buffers of a chosen blocking.
LEMMA BlockSizes ==
  ASSUME launch \in Launch, BlockFits
  PROVE  /\ plan.blockH \in Nat \ {0} /\ plan.blockW \in Nat \ {0}
         /\ plan.in0W \in Nat \ {0}
         /\ plan.blockH * plan.in0W \in Nat /\ plan.blockW * plan.in0W \in Nat
         /\ plan.blockH * plan.blockW \in Nat
         /\ 2 * plan.blockH * plan.in0W = 2 * (plan.blockH * plan.in0W)
         /\ 2 * plan.blockW * plan.in0W = 2 * (plan.blockW * plan.in0W)
<1>1. plan.blockH \in Nat \ {0} /\ plan.blockW \in Nat \ {0}
        /\ plan.in0W \in Nat \ {0}
  BY Shares DEF BlockFits, BlockWidths
<1> QED BY <1>1

\* Where the allocator puts the four CBs.
LEMMA CBPlaces ==
  /\ CBStart(3) = 2 * plan.blockH * plan.in0W + 2 * plan.blockW * plan.in0W
  /\ CBSizes[3] = 2
  /\ CBEnd = 2 * plan.blockH * plan.in0W + 2 * plan.blockW * plan.in0W + 2
               + plan.blockH * plan.blockW
  BY DEF CBEnd, CBStart, CBSizes

\* A plan that satisfies the invariant fits.
LEMMA PlanFits == PlanInv => BuffersFitL1
<1> SUFFICES ASSUME PlanInv, phase = "ready" PROVE BuffersFitL1
  BY DEF BuffersFitL1
<1> DEFINE a == plan.blockH * plan.in0W
           b == plan.blockW * plan.in0W
           c == plan.blockH * plan.blockW
<1>1. launch \in Launch /\ BlockFits
        /\ layout = Addresses(plan.blockH, plan.blockW, plan.in0W)
  BY DEF PlanInv
<1>2. a \in Nat /\ b \in Nat /\ c \in Nat
        /\ 2 * plan.blockH * plan.in0W = 2 * a
        /\ 2 * plan.blockW * plan.in0W = 2 * b
  BY <1>1, BlockSizes
<1>3. launch.l1 \in Nat
  BY <1>1, Shares
<1>4. CBEnd = 2 * a + 2 * b + 2 + c
  BY <1>2, CBPlaces
<1>5. CBTiles(plan.blockH, plan.blockW, plan.in0W) = 2 * a + 2 * b + c + 2
  BY <1>2 DEF CBTiles
<1>6. CBEnd <= launch.l1
  <2>1. CBTiles(plan.blockH, plan.blockW, plan.in0W) <= launch.l1
    BY <1>1 DEF BlockFits
  <2> HIDE DEF a, b, c
  <2> QED BY <1>2, <1>3, <1>4, <1>5, <2>1
<1>7. ASSUME ~launch.useDram
      PROVE  /\ CBEnd <= layout.in0
             /\ layout.in0 + a <= layout.in1 /\ layout.in1 + b <= layout.out
             /\ layout.out + PerCoreMt * PerCoreNt <= launch.l1
  <2>1. /\ layout.in0 = 2 * a + 2 * b + 2 + c + c
        /\ layout.in1 = layout.in0 + a /\ layout.out = layout.in1 + b
    BY <1>1, <1>2, <1>7 DEF Addresses, In2CBAddr
  <2>2. PerCoreMt * PerCoreNt = c
    BY <1>1, <1>7 DEF BlockFits
  <2>3. 2 * a + 2 * b + c + 2 + c + (a + b + c) <= launch.l1
    <3>1. StaticNeed(plan.blockH, plan.blockW, plan.in0W) <= launch.l1
      BY <1>1, <1>7 DEF BlockFits
    <3>2. StaticNeed(plan.blockH, plan.blockW, plan.in0W)
            = 2 * a + 2 * b + c + 2 + c + (a + b + c)
      BY <1>5, <1>7 DEF StaticNeed
    <3> QED BY <3>1, <3>2
  <2> HIDE DEF a, b, c
  <2> QED BY <1>2, <1>3, <1>4, <2>1, <2>2, <2>3
<1> QED BY <1>6, <1>7 DEF BuffersFitL1

(* The CBs, and with L1 tensors the tensors above them, fit the L1 of a    *)
(* core: every launch that get_dynamic_l1_block_params or get_in0_block_w  *)
(* accepts can be built.                                                   *)
THEOREM ChosenBuffersFit == SetupSpec => []BuffersFitL1
<1>1. IInv => BuffersFitL1
  BY PlanFits DEF IInv
<1> QED BY <1>1, PlanInvariant, PTL

(* The zeros of get_all_buffers_addresses are those of CB2, although that  *)
(* function and the allocator of the CBs do not know of each other.        *)
THEOREM ZerosPlaced == SetupSpec => []ZerosInsideCB2
<1>1. IInv => ZerosInsideCB2
  <2> SUFFICES ASSUME PlanInv, phase = "ready" PROVE ZerosInsideCB2
    BY DEF IInv, ZerosInsideCB2
  <2>1. launch \in Launch /\ BlockFits
          /\ layout = Addresses(plan.blockH, plan.blockW, plan.in0W)
    BY DEF PlanInv
  <2>2. layout.in2CB = CBStart(3)
    BY <2>1, CBPlaces DEF Addresses, In2CBAddr
  <2>3. CBStart(3) \in Nat
    BY <2>1, BlockSizes, CBPlaces
  <2> QED BY <2>2, <2>3, CBPlaces DEF ZerosInsideCB2
<1> QED BY <1>1, PlanInvariant, PTL

(* With DRAM "Insufficient L1 memory" is said only of a core that has no   *)
(* room for a block of one tile: blocks of one tile are always scanned.    *)
THEOREM RefusalJustified == SetupSpec => []DramRefusedOnlyForTinyL1
<1>1. IInv => DramRefusedOnlyForTinyL1
  <2> SUFFICES ASSUME PlanInv, phase = "rejected", launch.useDram
               PROVE  launch.l1 < CBTiles(1, 1, 1)
    BY DEF IInv, DramRefusedOnlyForTinyL1
  <2>1. launch \in Launch /\ DynamicFits(PerCoreMt, PerCoreNt) = {}
    BY DEF PlanInv
  <2>2. <<1, 1, 1>> \in
          Divisors(PerCoreMt) \X Divisors(PerCoreNt) \X BlockWidths
    <3>1. 1 \in BlockWidths
      BY <2>1, Shares DEF BlockWidths
    <3> QED BY <2>1, <3>1, Shares, DivisorFacts
  <2>3. ~(CBTiles(1, 1, 1) <= launch.l1)
    BY <2>1, <2>2 DEF DynamicFits, DynamicNeed
  <2>4. CBTiles(1, 1, 1) = 7
    BY DEF CBTiles
  <2>5. launch.l1 \in Nat
    BY <2>1, Shares
  <2> QED BY <2>3, <2>4, <2>5
<1> QED BY <1>1, PlanInvariant, PTL

(* The types of the setup, with the block counts the kernels' loops run    *)
(* to: none of them is zero.                                               *)
THEOREM SetupTypes == SetupSpec => []SetupTypeOK
<1>1. IInv => SetupTypeOK
  <2> SUFFICES ASSUME IInv PROVE SetupTypeOK
    OBVIOUS
  <2>1. ASSUME phase \in {"place", "ready"}
        PROVE  /\ plan.in0W \in {1, 2, 4} /\ plan.numBlocks >= 1
               /\ plan.numBlocksH >= 1 /\ plan.numBlocksW >= 1
    <3>1. launch \in Launch /\ BlockFits /\ BlocksCounted
      BY <2>1 DEF IInv, PlanInv
    <3>2. \A n \in Nat \ {0} : \A d \in 1 .. n : n \div d >= 1
      OBVIOUS
    <3>3. plan.in0W \in {1, 2, 4} /\ Kt % plan.in0W = 0
      BY <3>1 DEF BlockFits, BlockWidths
    <3>4. plan.numBlocks >= 1
      BY <3>1, <3>3, Shares DEF BlocksCounted
    <3> QED BY <3>1, <3>2, <3>3, <3>4, Shares DEF BlockFits, BlocksCounted
  <2> QED BY <2>1 DEF IInv, PlanInv, SetupTypeOK
<1> QED BY <1>1, PlanInvariant, PTL
===============================================================================
