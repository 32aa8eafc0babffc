--------------------------- MODULE MCSchedulerLease ---------------------------
(***************************************************************************)
(* Instances of SchedulerLease for TLC.                                    *)
(***************************************************************************)
EXTENDS SchedulerLease, TLC

CONSTANTS o1, o2, s1, s2, r1, r2, r3

LeaseSymmetry ==
    Permutations(Run) \cup Permutations(Owner) \cup Permutations(Session)
==============================================================================
