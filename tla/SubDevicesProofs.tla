--------------------------- MODULE SubDevicesProofs ---------------------------
(***************************************************************************)
(* Theorems about SubDevices, for all jobs: the parts cover the grid of    *)
(* cores exactly, and the check of a part's L1 is enough for its blocking. *)
(*                                                                         *)
(* The argument: SplitsInv says that the parts built so far are those of   *)
(* the loop's formulas, which reduces the partition to arithmetic on the   *)
(* rows (StartsApart, RowCovered); and what get_in0_block_w admits is also *)
(* admitted by the scan for DRAM (StaticImpliesDynamic).                   *)
(***************************************************************************)
EXTENDS SubDevices, BlockingProofs

IsSequence(s) == \E S : s \in Seq(S)

\* The parts built so far are those of the loop's iterations.
SplitsInv ==
  /\ IsSequence(splits)
  /\ \A k \in 1 .. Len(splits) :
       /\ splits[k].startY = StartY(k - 1)
       /\ splits[k].launch = SplitLaunch(k - 1)

\* Where the loop stands in each phase.
LoopInv ==
  /\ phase \in {"guard", "refused", "split", "fits", "failed", "grid", "place",
                "ready", "built", "finished"}
  /\ phase \notin {"guard", "refused"} => ~Uneven
  /\ phase = "guard" => Len(splits) = 0
  /\ phase \in {"split", "fits", "grid", "place", "ready"} =>
       Len(splits) < job.groups
  /\ phase \in {"fits", "grid", "place", "ready"} =>
       launch = SplitLaunch(Len(splits))
  /\ phase = "grid" => StaticFits(PerCoreMt, PerCoreNt) # {}
  /\ phase = "built" => Len(splits) = job.groups

SubIInv == job \in Jobs /\ PlanInv /\ SplitsInv /\ LoopInv
-------------------------------------------------------------------------------
(* Facts about sequences and about the rows of the groups *)

LEMMA AppendFacts ==
  ASSUME NEW s, IsSequence(s), NEW e
  PROVE  /\ IsSequence(Append(s, e))
         /\ Len(s) \in Nat /\ DOMAIN s = 1 .. Len(s)
         /\ Len(Append(s, e)) = Len(s) + 1
         /\ Append(s, e)[Len(s) + 1] = e
         /\ \A k \in 1 .. Len(s) : Append(s, e)[k] = s[k]
<1>1. PICK S : s \in Seq(S)
  BY DEF IsSequence
<1>2. s \in Seq(S \cup {e})
  BY <1>1
<1>3. Append(s, e) \in Seq(S \cup {e})
  BY <1>2
<1> QED BY <1>2, <1>3 DEF IsSequence

\* A job of the assumption, and the quotients it is split by.
LEMMA JobFacts ==
  ASSUME job \in Jobs
  PROVE  /\ job.whole \in Launch /\ job.groups \in Nat \ {0}
         /\ RowsPerSubDevice \in Nat \ {0} /\ MSplit \in Nat \ {0}
         /\ job.groups * RowsPerSubDevice <= job.whole.coresY
<1>1. /\ job.whole \in Launch /\ job.groups \in Nat \ {0}
      /\ job.whole.coresY \in Nat \ {0} /\ job.whole.M \in Nat \ {0}
      /\ job.groups <= job.whole.coresY /\ job.groups <= job.whole.M
  BY JobsAssumption DEF Job, Launch
<1>2. \A n \in Nat, g \in Nat \ {0} :
        g <= n => n \div g \in Nat \ {0} /\ g * (n \div g) <= n
  OBVIOUS
<1> QED BY <1>1, <1>2 DEF RowsPerSubDevice, MSplit

\* The start of group i + n is n groups of rows after that of group i.
LEMMA StartsApart ==
  ASSUME NEW r \in Nat, NEW i \in Nat, NEW j \in Nat, i < j
  PROVE  i * r \in Nat /\ i * r + r <= j * r
<1>1. (i + 1) * r = i * r + r
  OBVIOUS
<1>2. (i + 1) * r <= j * r
  OBVIOUS
<1> QED BY <1>1, <1>2

\* Every row of cores is in a group that starts at or before it.
LEMMA RowCovered ==
  ASSUME NEW r \in Nat \ {0}, NEW y \in Nat, NEW g \in Nat \ {0}
  PROVE  \/ (g - 1) * r <= y
         \/ \E i \in 0 .. g - 2 : i * r <= y /\ y < i * r + r
<1> DEFINE i == y \div r
<1>1. i \in Nat /\ i * r <= y /\ y < i * r + r
  OBVIOUS
<1>2. CASE i < g - 1
  <2>1. i \in 0 .. g - 2
    BY <1>1, <1>2
  <2> HIDE DEF i
  <2> QED BY <1>1, <2>1
<1>3. CASE ~(i < g - 1)
  <2>1. g - 1 \in Nat /\ (g - 1 < i \/ g - 1 = i)
    BY <1>1, <1>3
  <2> HIDE DEF i
  <2>2. CASE g - 1 = i
    BY <1>1, <2>2
  <2>3. CASE g - 1 < i
    <3>1. (g - 1) * r \in Nat /\ (g - 1) * r + r <= i * r
      BY <1>1, <2>1, <2>3, StartsApart
    <3>2. i * r \in Nat
      BY <1>1
    <3> QED BY <1>1, <3>1, <3>2
  <2> QED BY <2>1, <2>2, <2>3
<1> QED BY <1>2, <1>3

\* The bounds of group i.
LEMMA GroupFacts ==
  ASSUME job \in Jobs, NEW i \in Nat, i < job.groups
  PROVE  /\ StartY(i) \in Nat /\ EndY(i) \in Nat
         /\ StartY(i) <= EndY(i) /\ EndY(i) < job.whole.coresY
         /\ i # job.groups - 1 => EndY(i) = StartY(i) + RowsPerSubDevice - 1
         /\ SplitLaunch(i) \in Launch
         /\ SplitLaunch(i).coresY = EndY(i) - StartY(i) + 1
<1>1. /\ job.whole \in Launch /\ job.groups \in Nat \ {0}
      /\ RowsPerSubDevice \in Nat \ {0} /\ MSplit \in Nat \ {0}
      /\ job.whole.coresY \in Nat
      /\ job.groups * RowsPerSubDevice <= job.whole.coresY
  BY JobFacts DEF Launch
<1> DEFINE r == RowsPerSubDevice
<1>2. i * r \in Nat /\ i * r + r <= job.groups * r /\ job.groups * r \in Nat
  BY <1>1, StartsApart
<1>3. StartY(i) \in Nat /\ StartY(i) + r <= job.whole.coresY
  BY <1>1, <1>2 DEF StartY
<1>4. /\ EndY(i) \in Nat /\ StartY(i) <= EndY(i) /\ EndY(i) < job.whole.coresY
      /\ i # job.groups - 1 => EndY(i) = StartY(i) + RowsPerSubDevice - 1
  BY <1>1, <1>3 DEF EndY
<1>5. EndY(i) - StartY(i) + 1 \in Nat \ {0}
  BY <1>3, <1>4
<1>6. /\ SplitLaunch(i) \in Launch
      /\ SplitLaunch(i).coresY = EndY(i) - StartY(i) + 1
  BY <1>1, <1>5 DEF SplitLaunch, Launch
<1> QED BY <1>3, <1>4, <1>6
-------------------------------------------------------------------------------
(* The steps *)

\* The blocking for DRAM also scans what get_in0_block_w has admitted, and
\* its formula counts less.
LEMMA StaticImpliesDynamic ==
  ASSUME launch \in Launch, StaticFits(PerCoreMt, PerCoreNt) # {}
  PROVE  DynamicFits(PerCoreMt, PerCoreNt) # {}
<1>1. PICK c \in {PerCoreMt} \X {PerCoreNt} \X BlockWidths :
        StaticNeed(c[1], c[2], c[3]) <= launch.l1
  BY DEF StaticFits
<1>2. /\ c[1] = PerCoreMt /\ c[2] = PerCoreNt /\ c[3] \in BlockWidths
      /\ c[3] \in Nat /\ c = <<c[1], c[2], c[3]>>
  BY DEF BlockWidths
<1>3. c \in Divisors(PerCoreMt) \X Divisors(PerCoreNt) \X BlockWidths
  BY <1>2, Shares, DivisorFacts
<1>4. /\ CBTiles(c[1], c[2], c[3]) <= StaticNeed(c[1], c[2], c[3])
      /\ CBTiles(c[1], c[2], c[3]) \in Nat
      /\ StaticNeed(c[1], c[2], c[3]) \in Nat
  BY <1>2, Shares, NeedFacts
<1>5. DynamicNeed(c[1], c[2], c[3]) <= launch.l1
  BY <1>1, <1>4, Shares DEF DynamicNeed
<1> QED BY <1>3, <1>5 DEF DynamicFits

LEMMA JobFrame ==
  ASSUME UNCHANGED job
  PROVE  /\ Uneven' = Uneven
         /\ \A i : StartY(i)' = StartY(i) /\ SplitLaunch(i)' = SplitLaunch(i)
  BY DEF Uneven, StartY, SplitLaunch, EndY, RowsPerSubDevice, MSplit

LEMMA SplitsFrame ==
  ASSUME SplitsInv, UNCHANGED <<job, splits>>
  PROVE  SplitsInv'
  BY JobFrame DEF SplitsInv, IsSequence

LEMMA FitsFrame ==
  ASSUME UNCHANGED launch
  PROVE  /\ StaticFits(PerCoreMt, PerCoreNt)' = StaticFits(PerCoreMt, PerCoreNt)
         /\ DynamicFits(PerCoreMt, PerCoreNt)' = DynamicFits(PerCoreMt, PerCoreNt)
<1>1. PerCoreMt' = PerCoreMt /\ PerCoreNt' = PerCoreNt /\ Kt' = Kt
  BY DEF PerCoreMt, PerCoreNt, Mt, Nt, Kt
<1> QED BY <1>1 DEF DynamicFits, StaticFits, BlockWidths, StaticNeed

LEMMA InitSubIInv == SubInit => SubIInv
<1> SUFFICES ASSUME SubInit PROVE SubIInv
  OBVIOUS
<1>1. job \in Jobs /\ launch \in Launch /\ phase = "guard" /\ splits = <<>>
  BY JobFacts DEF SubInit
<1>2. IsSequence(splits) /\ Len(splits) = 0
  <2>1. <<>> \in Seq({})
    OBVIOUS
  <2> QED BY <1>1, <2>1 DEF IsSequence
<1> QED BY <1>1, <1>2 DEF SubIInv, PlanInv, SplitsInv, LoopInv

LEMMA CheckJobStep == SubIInv /\ CheckJob => SubIInv'
<1> SUFFICES ASSUME SubIInv, CheckJob PROVE SubIInv'
  OBVIOUS
<1>1. SplitsInv' /\ Uneven' = Uneven
  BY SplitsFrame, JobFrame DEF SubIInv, CheckJob
<1>2. /\ job' = job /\ launch' = launch /\ phase' \in {"refused", "split"}
      /\ splits' = splits /\ Len(splits) = 0 /\ job.groups \in Nat \ {0}
      /\ phase' = "split" => ~Uneven
  BY JobFacts DEF SubIInv, LoopInv, CheckJob
<1>3. PlanInv'
  BY <1>2 DEF SubIInv, PlanInv
<1> QED BY <1>1, <1>2, <1>3 DEF SubIInv, LoopInv

LEMMA StartSplitStep == SubIInv /\ StartSplit => SubIInv'
<1> SUFFICES ASSUME SubIInv, StartSplit PROVE SubIInv'
  OBVIOUS
<1>1. SplitsInv' /\ Uneven' = Uneven
  BY SplitsFrame, JobFrame DEF SubIInv, StartSplit
<1>2. /\ job' = job /\ splits' = splits /\ phase' = "fits"
      /\ launch' = SplitLaunch(Len(splits))
      /\ Len(splits) < job.groups /\ ~Uneven
  BY DEF SubIInv, LoopInv, StartSplit
<1>3. launch' \in Launch
  <2>1. Len(splits) \in Nat
    BY AppendFacts DEF SubIInv, SplitsInv
  <2> QED BY <1>2, <2>1, GroupFacts DEF SubIInv
<1>4. SplitLaunch(Len(splits))' = SplitLaunch(Len(splits))
  BY <1>2 DEF SplitLaunch, EndY, StartY, RowsPerSubDevice, MSplit
<1>5. PlanInv'
  BY <1>2, <1>3 DEF PlanInv
<1> QED BY <1>1, <1>2, <1>4, <1>5 DEF SubIInv, LoopInv

LEMMA CheckFitsStep == SubIInv /\ CheckFits => SubIInv'
<1> SUFFICES ASSUME SubIInv, CheckFits PROVE SubIInv'
  OBVIOUS
<1>1. SplitsInv' /\ Uneven' = Uneven
  BY SplitsFrame, JobFrame DEF SubIInv, CheckFits
<1>2. /\ job' = job /\ splits' = splits /\ launch' = launch
      /\ phase' \in {"failed", "grid"}
      /\ phase' = "grid" => StaticFits(PerCoreMt, PerCoreNt) # {}
      /\ launch = SplitLaunch(Len(splits))
      /\ Len(splits) < job.groups /\ ~Uneven
  BY DEF SubIInv, LoopInv, CheckFits, InsufficientL1
<1>3. SplitLaunch(Len(splits))' = SplitLaunch(Len(splits))
  BY <1>2 DEF SplitLaunch, EndY, StartY, RowsPerSubDevice, MSplit
<1>4. PlanInv'
  BY <1>2 DEF SubIInv, PlanInv
<1> QED BY <1>1, <1>2, <1>3, <1>4, FitsFrame DEF SubIInv, LoopInv

LEMMA SizeSplitStep == SubIInv /\ SizeSplit => SubIInv'
<1> SUFFICES ASSUME SubIInv, SizeSplit PROVE SubIInv'
  OBVIOUS
<1>1. SplitsInv' /\ Uneven' = Uneven
  BY SplitsFrame, JobFrame DEF SubIInv, SizeSplit
<1>2. PlanInv'
  BY ChooseBlocksPlan, PlaceBuffersPlan DEF SubIInv, SizeSplit
<1>3. job' = job /\ splits' = splits /\ launch' = launch
  BY DEF SizeSplit, ChooseBlocks, PlaceBuffers
<1>4. phase' \in {"place", "ready"}
  <2>1. CASE PlaceBuffers
    BY <2>1 DEF PlaceBuffers
  <2>2. CASE ChooseBlocks
    <3>1. phase' \in {"place", "rejected"}
      BY <2>2 DEF ChooseBlocks
    <3>2. StaticFits(PerCoreMt, PerCoreNt) # {} /\ launch \in Launch
      BY <2>2 DEF SubIInv, LoopInv, PlanInv, ChooseBlocks
    <3>3. DynamicFits(PerCoreMt, PerCoreNt) # {}
      BY <3>2, StaticImpliesDynamic
    <3>4. phase' # "rejected"
      BY <1>2, <1>3, <3>2, <3>3, FitsFrame DEF PlanInv
    <3> QED BY <3>1, <3>4
  <2> QED BY <2>1, <2>2 DEF SizeSplit
<1>5. launch = SplitLaunch(Len(splits)) /\ Len(splits) < job.groups /\ ~Uneven
  BY DEF SubIInv, LoopInv, SizeSplit, ChooseBlocks, PlaceBuffers
<1>6. SplitLaunch(Len(splits))' = SplitLaunch(Len(splits))
  BY <1>3 DEF SplitLaunch, EndY, StartY, RowsPerSubDevice, MSplit
<1> QED BY <1>1, <1>2, <1>3, <1>4, <1>5, <1>6 DEF SubIInv, LoopInv

LEMMA AddSplitStep == SubIInv /\ AddSplit => SubIInv'
<1> SUFFICES ASSUME SubIInv, AddSplit PROVE SubIInv'
  OBVIOUS
<1>1. /\ job' = job /\ launch' = launch /\ Uneven' = Uneven
      /\ IsSequence(splits) /\ Len(splits) \in Nat
      /\ launch = SplitLaunch(Len(splits)) /\ Len(splits) < job.groups /\ ~Uneven
  BY JobFrame, AppendFacts DEF SubIInv, LoopInv, SplitsInv, AddSplit
<1>2. CASE RowsRunOut
  <2>1. phase' = "failed" /\ splits' = splits
    BY <1>2 DEF AddSplit
  <2>2. SplitsInv'
    BY <1>1, <2>1, SplitsFrame DEF SubIInv
  <2> QED BY <1>1, <2>1, <2>2 DEF SubIInv, LoopInv, PlanInv
<1>3. CASE ~RowsRunOut
  <2> DEFINE part == [ launch |-> launch, plan |-> plan,
                       startY |-> StartY(Len(splits)) ]
  <2>1. /\ splits' = Append(splits, part)
        /\ phase' = IF Len(splits) + 1 = job.groups THEN "built" ELSE "split"
    BY <1>3 DEF AddSplit
  <2>2. part.launch = SplitLaunch(Len(splits))
          /\ part.startY = StartY(Len(splits))
    BY <1>1
  <2> HIDE DEF part
  <2>3. /\ IsSequence(splits') /\ Len(splits') = Len(splits) + 1
        /\ splits'[Len(splits) + 1] = part
        /\ \A k \in 1 .. Len(splits) : splits'[k] = splits[k]
    BY <1>1, <2>1, AppendFacts
  <2>4. SplitsInv'
    <3>1. ASSUME NEW k \in 1 .. Len(splits) + 1
          PROVE  /\ splits'[k].startY = StartY(k - 1)
                 /\ splits'[k].launch = SplitLaunch(k - 1)
      <4>1. CASE k = Len(splits) + 1
        <5>1. k - 1 = Len(splits)
          BY <1>1, <4>1
        <5> QED BY <2>2, <2>3, <4>1, <5>1
      <4>2. CASE k # Len(splits) + 1
        <5>1. k \in 1 .. Len(splits)
          BY <1>1, <4>2
        <5> QED BY <2>3, <5>1 DEF SubIInv, SplitsInv
      <4> QED BY <4>1, <4>2
    <3> QED BY <1>1, <2>3, <3>1, JobFrame DEF SplitsInv, IsSequence
  <2>5. job.groups \in Nat
    BY JobFacts DEF SubIInv
  <2> QED BY <1>1, <2>1, <2>3, <2>4, <2>5 DEF SubIInv, LoopInv, PlanInv
<1> QED BY <1>2, <1>3

LEMMA DispatchAllStep == SubIInv /\ DispatchAll => SubIInv'
  BY SplitsFrame, JobFrame DEF SubIInv, LoopInv, PlanInv, DispatchAll

LEMMA SubStutterStep == SubIInv /\ UNCHANGED subVars => SubIInv'
<1> SUFFICES ASSUME SubIInv, UNCHANGED subVars PROVE SubIInv'
  OBVIOUS
<1>1. UNCHANGED setupVars /\ UNCHANGED <<job, splits, launch, phase>>
  BY DEF subVars, setupVars
<1>2. PlanInv' /\ SplitsInv' /\ Uneven' = Uneven
  BY <1>1, StutterPlan, SplitsFrame, JobFrame DEF SubIInv
<1>3. SplitLaunch(Len(splits))' = SplitLaunch(Len(splits))
  BY <1>1 DEF SplitLaunch, EndY, StartY, RowsPerSubDevice, MSplit
<1> QED BY <1>1, <1>2, <1>3, FitsFrame DEF SubIInv, LoopInv

\* The invariant of the loop over the groups.
THEOREM SubInvariant == SubSpec => []SubIInv
<1>1. SubIInv /\ [SubNext]_subVars => SubIInv'
  BY CheckJobStep, StartSplitStep, CheckFitsStep, SizeSplitStep, AddSplitStep,
     DispatchAllStep, SubStutterStep DEF SubNext, SubDone
<1> QED BY InitSubIInv, <1>1, PTL DEF SubSpec
-------------------------------------------------------------------------------
(* The properties of SubDevices *)

(* The blocking of a part whose L1 get_in0_block_w has checked never comes *)
(* out as zero, for either of the formulas it is chosen by.                *)
THEOREM PartsHaveBlocks == SubSpec => []BlockAlwaysFound
<1>1. SubIInv => BlockAlwaysFound
  BY DEF SubIInv, LoopInv, BlockAlwaysFound
<1> QED BY <1>1, SubInvariant, PTL

(* The buffers of every part fit the L1 of its cores, as those of a launch *)
(* on the whole grid do.                                                   *)
THEOREM PartsFit == SubSpec => []BuffersFitL1
<1>1. SubIInv => BuffersFitL1
  BY PlanFits DEF SubIInv
<1> QED BY <1>1, SubInvariant, PTL

\* The rows of cores of the k-th part, once all are built.
LEMMA RowsOfPart ==
  ASSUME SubIInv, Len(splits) = job.groups, NEW k \in DOMAIN splits
  PROVE  /\ k - 1 \in Nat /\ k - 1 < job.groups /\ job.groups \in Nat \ {0}
         /\ SplitRows(splits[k]) = StartY(k - 1) .. EndY(k - 1)
         /\ DOMAIN splits = 1 .. job.groups
<1>1. DOMAIN splits = 1 .. job.groups /\ job.groups \in Nat \ {0}
  BY AppendFacts, JobFacts DEF SubIInv, SplitsInv
<1>2. k - 1 \in Nat /\ k - 1 < job.groups
  BY <1>1
<1>3. /\ splits[k].startY = StartY(k - 1)
      /\ splits[k].launch = SplitLaunch(k - 1)
  BY <1>1 DEF SubIInv, SplitsInv
<1>4. /\ StartY(k - 1) \in Nat /\ EndY(k - 1) \in Nat
      /\ SplitLaunch(k - 1).coresY = EndY(k - 1) - StartY(k - 1) + 1
  BY <1>2, GroupFacts DEF SubIInv
<1> QED BY <1>1, <1>2, <1>3, <1>4 DEF SplitRows

\* An earlier group ends below the start of a later one.
LEMMA GroupsApart ==
  ASSUME job \in Jobs, NEW i \in Nat, NEW j \in Nat, i < j, j < job.groups
  PROVE  EndY(i) < StartY(j)
<1>1. job.groups \in Nat /\ RowsPerSubDevice \in Nat
  BY JobFacts
<1>2. /\ i * RowsPerSubDevice \in Nat
      /\ i * RowsPerSubDevice + RowsPerSubDevice <= j * RowsPerSubDevice
  BY <1>1, StartsApart
<1>3. EndY(i) = StartY(i) + RowsPerSubDevice - 1
  BY <1>1, GroupFacts
<1>4. j * RowsPerSubDevice \in Nat
  BY <1>1
<1> QED BY <1>1, <1>2, <1>3, <1>4 DEF StartY

\* Every row of cores is that of a group.
LEMMA EveryRowGrouped ==
  ASSUME job \in Jobs, NEW y \in 0 .. job.whole.coresY - 1
  PROVE  \E i \in 0 .. job.groups - 1 : y \in StartY(i) .. EndY(i)
<1>1. /\ job.groups \in Nat \ {0} /\ RowsPerSubDevice \in Nat \ {0}
      /\ job.whole.coresY \in Nat
  BY JobFacts DEF Launch
<1>2. CASE (job.groups - 1) * RowsPerSubDevice <= y
  <2>1. job.groups - 1 \in Nat /\ job.groups - 1 < job.groups
    BY <1>1
  <2>2. EndY(job.groups - 1) = job.whole.coresY - 1
    BY DEF EndY
  <2>3. StartY(job.groups - 1) \in Nat
    BY <2>1, GroupFacts
  <2>4. y \in StartY(job.groups - 1) .. EndY(job.groups - 1)
    BY <1>1, <1>2, <2>2, <2>3 DEF StartY
  <2> QED BY <1>1, <2>1, <2>4
<1>3. ASSUME NEW i \in 0 .. job.groups - 2,
             i * RowsPerSubDevice <= y,
             y < i * RowsPerSubDevice + RowsPerSubDevice
      PROVE  \E k \in 0 .. job.groups - 1 : y \in StartY(k) .. EndY(k)
  <2>1. i \in Nat /\ i < job.groups /\ i # job.groups - 1
          /\ i \in 0 .. job.groups - 1
    BY <1>1
  <2>2. /\ StartY(i) \in Nat /\ EndY(i) \in Nat
        /\ EndY(i) = StartY(i) + RowsPerSubDevice - 1
    BY <2>1, GroupFacts
  <2>3. y \in StartY(i) .. EndY(i)
    BY <1>1, <1>3, <2>2 DEF StartY
  <2> QED BY <2>1, <2>3
<1>4. \/ (job.groups - 1) * RowsPerSubDevice <= y
      \/ \E i \in 0 .. job.groups - 2 :
           i * RowsPerSubDevice <= y /\ y < i * RowsPerSubDevice + RowsPerSubDevice
  <2>1. y \in Nat
    BY <1>1
  <2> QED BY <1>1, <2>1, RowCovered
<1> QED BY <1>2, <1>3, <1>4

(* The groups of the loop in test_sub_device_manager_mm partition the rows *)
(* of cores, and with DRAM the rows of A, for every grid and group count.  *)
THEOREM GroupsPartition == SubSpec => []GroupsPartitionJob
<1>1. SubIInv => GroupsPartitionJob
  <2> SUFFICES ASSUME SubIInv, phase = "built" PROVE GroupsPartitionJob
    BY DEF GroupsPartitionJob
  <2>1. /\ job \in Jobs /\ job.groups \in Nat \ {0}
        /\ Len(splits) = job.groups /\ DOMAIN splits = 1 .. job.groups
        /\ job.whole.coresY \in Nat
    BY JobFacts, AppendFacts DEF SubIInv, LoopInv, SplitsInv, Launch
  <2>2. \A k \in DOMAIN splits :
          SplitRows(splits[k]) \subseteq 0 .. job.whole.coresY - 1
    <3> SUFFICES ASSUME NEW k \in DOMAIN splits
                 PROVE  SplitRows(splits[k]) \subseteq 0 .. job.whole.coresY - 1
      OBVIOUS
    <3>1. /\ StartY(k - 1) \in Nat /\ EndY(k - 1) \in Nat
          /\ EndY(k - 1) < job.whole.coresY
          /\ SplitRows(splits[k]) = StartY(k - 1) .. EndY(k - 1)
      BY <2>1, RowsOfPart, GroupFacts
    <3> QED BY <2>1, <3>1
  <2>3. ASSUME NEW y \in 0 .. job.whole.coresY - 1
        PROVE  \E k \in DOMAIN splits : y \in SplitRows(splits[k])
    <3>1. PICK i \in 0 .. job.groups - 1 : y \in StartY(i) .. EndY(i)
      BY <2>1, EveryRowGrouped
    <3>2. i + 1 \in DOMAIN splits /\ (i + 1) - 1 = i
      BY <2>1
    <3>3. SplitRows(splits[i + 1]) = StartY(i) .. EndY(i)
      BY <2>1, <3>2, RowsOfPart
    <3> QED BY <3>1, <3>2, <3>3
  <2>4. ASSUME NEW k \in DOMAIN splits, NEW l \in DOMAIN splits, k < l
        PROVE  SplitRows(splits[k]) \cap SplitRows(splits[l]) = {}
    <3>1. /\ k - 1 \in Nat /\ l - 1 \in Nat /\ k - 1 < l - 1
          /\ k - 1 < job.groups /\ l - 1 < job.groups
          /\ SplitRows(splits[k]) = StartY(k - 1) .. EndY(k - 1)
          /\ SplitRows(splits[l]) = StartY(l - 1) .. EndY(l - 1)
      BY <2>1, <2>4, RowsOfPart
    <3>2. EndY(k - 1) < StartY(l - 1)
      BY <2>1, <3>1, GroupsApart
    <3>3. EndY(k - 1) \in Nat /\ StartY(l - 1) \in Nat
      BY <2>1, <3>1, GroupFacts
    <3> QED BY <3>1, <3>2, <3>3
  <2>5. job.whole.useDram => Len(splits) * MSplit = job.whole.M
    <3>1. job.whole.useDram => job.whole.M % job.groups = 0
      BY DEF SubIInv, LoopInv, Uneven
    <3>2. job.whole.M \in Nat
      BY <2>1, JobFacts DEF Launch
    <3>3. \A m \in Nat, g \in Nat \ {0} : m % g = 0 => g * (m \div g) = m
      OBVIOUS
    <3> QED BY <2>1, <3>1, <3>2, <3>3 DEF MSplit
  <2>6. \A k, l \in DOMAIN splits :
          k # l => SplitRows(splits[k]) \cap SplitRows(splits[l]) = {}
    <3> SUFFICES ASSUME NEW k \in DOMAIN splits, NEW l \in DOMAIN splits, k # l
                 PROVE  SplitRows(splits[k]) \cap SplitRows(splits[l]) = {}
      OBVIOUS
    <3>1. k < l \/ l < k
      BY <2>1
    <3>2. ASSUME l < k PROVE SplitRows(splits[l]) \cap SplitRows(splits[k]) = {}
      BY <2>4, <3>2
    <3> QED BY <2>4, <3>1, <3>2
  <2>7. UNION { SplitRows(splits[k]) : k \in DOMAIN splits }
          = 0 .. job.whole.coresY - 1
    BY <2>2, <2>3
  <2> QED BY <2>5, <2>6, <2>7 DEF GroupsPartitionJob
<1> QED BY <1>1, SubInvariant, PTL
===============================================================================
