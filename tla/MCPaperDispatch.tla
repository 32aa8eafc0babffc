--------------------------- MODULE MCPaperDispatch ---------------------------
(***************************************************************************)
(* Instances of PaperDispatch for TLC.  Two attempts are enough for a      *)
(* stalled one beside the current one: a third would have to stall too.    *)
(***************************************************************************)
EXTENDS PaperDispatch, TLC

CONSTANTS a1, a2

AttemptSymmetry == Permutations(Attempt)
==============================================================================
