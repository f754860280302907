------------------------------ MODULE SubDevices ------------------------------
(***************************************************************************)
(* Test 2 (test_sub_device_manager_mm): the grid of cores is cut into      *)
(* groups of rows, the rows of A are cut into as many parts, and each part *)
(* is sized, loaded and added to the one program as a launch of its own.   *)
(* Blocking's `launch`, `plan` and `layout` are those of the current part. *)
(* The dispatch loop at the end is one step: it waits for each launch.     *)
(***************************************************************************)
EXTENDS Blocking

CONSTANT Jobs   \* the tests the tool may be asked for

(***************************************************************************)
(* A job: a launch and the number of core groups.  The parser lets a group *)
(* have no fewer than one row of cores.                                    *)
(***************************************************************************)
Job == [ whole : Launch, groups : Nat \ {0} ]

ASSUME JobsAssumption ==
  /\ Jobs \subseteq Job
  /\ \A j \in Jobs :
       /\ j.groups <= j.whole.coresY
       \* the code does not ask for this: without it a part has no rows
       /\ j.groups <= j.whole.M

VARIABLES
  job,      \* what was asked for; never changes
  splits    \* the parts added to the program: [launch, plan, startY]

subVars == <<job, splits, setupVars>>
-------------------------------------------------------------------------------
RowsPerSubDevice == job.whole.coresY \div job.groups

MSplit == job.whole.M \div job.groups

StartY(i) == i * RowsPerSubDevice

\* Mutant: the last group is no larger than the others.
EndYEven(i) == StartY(i) + RowsPerSubDevice - 1

\* The last group takes the rows of cores that are left over.
EndY(i) == IF i = job.groups - 1 THEN job.whole.coresY - 1
                                 ELSE StartY(i) + RowsPerSubDevice - 1

SplitLaunch(i) ==
  [job.whole EXCEPT !.M = MSplit, !.coresY = EndY(i) - StartY(i) + 1]
-------------------------------------------------------------------------------
SubInit ==
  /\ job \in Jobs
  /\ launch = job.whole
  /\ phase = "guard" /\ plan = <<>> /\ layout = <<>> /\ splits = <<>>

\* Rows of a matrix in DRAM that cannot be shared out evenly.
Uneven == job.whole.useDram /\ job.whole.M % job.groups # 0

\* What is refused from the start: the test returns false.
CheckJob ==
  /\ phase = "guard"
  /\ phase' = IF job.whole.coresY < 2 \/ Uneven THEN "refused" ELSE "split"
  /\ UNCHANGED <<job, splits, launch, plan, layout>>

StartSplit ==
  /\ phase = "split"
  /\ launch' = SplitLaunch(Len(splits))
  /\ phase' = "fits" /\ plan' = <<>> /\ layout' = <<>>
  /\ UNCHANGED <<job, splits>>

\* Mutant: with DRAM it is left to the blocking to find out.
InsufficientL1OnlyL1 ==
  ~launch.useDram /\ StaticFits(PerCoreMt, PerCoreNt) = {}

InsufficientL1 == StaticFits(PerCoreMt, PerCoreNt) = {}

\* "Insufficient L1 for SubDevice split", also when the blocking for DRAM
\* that follows would divide the part further.
CheckFits ==
  /\ phase = "fits"
  /\ phase' = IF InsufficientL1 THEN "failed" ELSE "grid"
  /\ UNCHANGED <<job, splits, launch, plan, layout>>

SizeSplit ==
  /\ ChooseBlocks \/ PlaceBuffers
  /\ UNCHANGED <<job, splits>>

\* prepare_inputs_compute_mm and create_program_compute_mm for this part.
AddSplit ==
  /\ phase = "ready"
  /\ IF RowsRunOut
     THEN phase' = "failed" /\ UNCHANGED splits
     ELSE /\ splits' = Append(splits, [ launch |-> launch, plan |-> plan,
                                        startY |-> StartY(Len(splits)) ])
          /\ phase' = IF Len(splits) + 1 = job.groups THEN "built" ELSE "split"
  /\ UNCHANGED <<job, launch, plan, layout>>

\* EnqueueMeshWorkload and Finish, in every iteration.
DispatchAll ==
  /\ phase = "built"
  /\ phase' = "finished"
  /\ UNCHANGED <<job, splits, launch, plan, layout>>

SubDone ==
  phase \in {"refused", "failed", "rejected", "finished"} /\ UNCHANGED subVars

SubNext == CheckJob \/ StartSplit \/ CheckFits \/ SizeSplit \/ AddSplit
             \/ DispatchAll \/ SubDone

SubSpec == SubInit /\ [][SubNext]_subVars
-------------------------------------------------------------------------------
(* Properties *)

SplitRows(s) == s.startY .. s.startY + s.launch.coresY - 1

(* The parts run on groups of cores that are disjoint and leave no core    *)
(* idle, whether or not the rows of cores divide evenly; and with DRAM     *)
(* their rows of A add up to the matrix.                                   *)
GroupsPartitionJob ==
  phase = "built" =>
    /\ UNION { SplitRows(splits[i]) : i \in DOMAIN splits }
         = 0 .. job.whole.coresY - 1
    /\ \A i, j \in DOMAIN splits :
         i # j => SplitRows(splits[i]) \cap SplitRows(splits[j]) = {}
    /\ job.whole.useDram => Len(splits) * MSplit = job.whole.M

(* The check of a part's L1 is sufficient for the blocking that follows,   *)
(* which has a formula of its own for it, to find a block: its failure is  *)
(* not handled here, and K would be divided by a block width of zero.      *)
BlockAlwaysFound == phase # "rejected"
===============================================================================
