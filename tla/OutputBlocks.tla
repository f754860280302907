----------------------------- MODULE OutputBlocks -----------------------------
(***************************************************************************)
(* What one Tensix core promises for a launch of the matmul program: every *)
(* output subblock that holds valid tiles is written back exactly once,    *)
(* with its complete value, in no particular order; a subblock of padding  *)
(* is never written; and the core gets through all of them.  What is handed *)
(* over in one call may hold several subblocks.                            *)
(***************************************************************************)
CONSTANTS
  NotWritten    \* the content of a subblock nobody has written (to)

VARIABLES
  wanted,       \* outer block -> subblock -> value owed, NotWritten if padding
  written       \* outer block -> subblock -> what was written back

vars == <<wanted, written>>

Init == written = [o \in DOMAIN wanted |->
                     [s \in DOMAIN wanted[o] |-> NotWritten]]

\* The subblocks S of outer block o become available, together.
WriteBack(o, S) ==
  /\ \A s \in S : written[o][s] = NotWritten /\ wanted[o][s] # NotWritten
  /\ written' = [written EXCEPT
                   ![o] = [s \in DOMAIN @ |->
                             IF s \in S THEN wanted[o][s] ELSE @[s]]]
  /\ UNCHANGED wanted

Next == \E o \in DOMAIN written :
          \E S \in SUBSET DOMAIN written[o] : WriteBack(o, S)

Spec == Init /\ [][Next]_vars /\ WF_vars(Next)
===============================================================================
