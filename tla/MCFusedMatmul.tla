----------------------------- MODULE MCFusedMatmul -----------------------------
(* Variants of FusedMatmul: each combination of bias, accumulation in L1,  *)
(* untilized output and activation, with 1 to 4 K blocks.                  *)
EXTENDS FusedMatmul

Variant(k, sh, sw, r, shared) ==
  [ numBlocks : {k}, subH : {sh}, subW : {sw}, rows : {r}, batch : {1, 2},
    bias : BOOLEAN, l1Acc : BOOLEAN, untilize : BOOLEAN,
    act : {"none", "relu", "sfpu"}, shared : {shared}, drained : BOOLEAN ]

MCFusedPrograms ==
  { p \in Variant(1, 1, 2, 2, TRUE) \cup Variant(1, 2, 1, 2, TRUE)
            \cup Variant(2, 2, 1, 2, TRUE) \cup Variant(3, 1, 2, 1, TRUE)
            \cup Variant(4, 2, 1, 1, TRUE) \cup Variant(2, 2, 2, 2, FALSE) :
      /\ p.batch > 1 => p.drained
      /\ p.shared /\ p.untilize => p.subW = 1
      /\ p.l1Acc /\ ~p.bias => p.numBlocks > 1 }
===============================================================================
