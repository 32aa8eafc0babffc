----------------------------- MODULE SessionSlots -----------------------------
(***************************************************************************)
(* What reserving a Paper session promises, with no process, lease or      *)
(* clock in sight: leaders are elected one after the other, each under a   *)
(* number of its own, and a broker session is given to one Run, once, by   *)
(* the leader of the moment.                                               *)
(***************************************************************************)
EXTENDS Naturals

CONSTANTS
    Session,  \* broker session keys
    Run,      \* Run ids
    NoRun     \* the slot of a session that is not reserved

VARIABLES
    epoch,    \* number of the current leader
    slot      \* [Session -> [run, epoch]]

vars == <<epoch, slot>>

Reserved(s) == slot[s].run # NoRun

Elect == epoch' = epoch + 1 /\ UNCHANGED slot

\* The Run is one no other session has, the number is the leader's.
Reserve(s) ==
    /\ ~Reserved(s)
    /\ \E r \in Run :
          /\ \A z \in Session : slot[z].run # r
          /\ slot' = [slot EXCEPT ![s] = [run |-> r, epoch |-> epoch]]
    /\ UNCHANGED epoch

Init ==
    /\ epoch = 0
    /\ slot = [s \in Session |-> [run |-> NoRun, epoch |-> 0]]

Next == Elect \/ \E s \in Session : Reserve(s)

Spec == Init /\ [][Next]_vars
==============================================================================
