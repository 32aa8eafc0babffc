---------------------------- MODULE MCModelCalls ----------------------------
(***************************************************************************)
(* The two records by which a later attempt, or a later Core, finds out    *)
(* about the model calls of an earlier one: the private log of a Run       *)
(* (RunLog) and the events of one model Task (ResearchTurns).              *)
(*                                                                         *)
(* They share no state.  TLC explores them in one state space: a behaviour *)
(* is of one of them, chosen at the start, while the other rests where it  *)
(* starts; their states add up and do not multiply.                        *)
(***************************************************************************)
EXTENDS RunLog, ResearchTurns, TLC

CONSTANTS decide, outcome \* two tasks of the logged Run

VARIABLE part \* which of the two this behaviour is of

ASSUME RunLogAssumption
ASSUME ResearchTurnsAssumption

\* A decision and the outcome worker after it, with two attempts each.
MCTask == {decide, outcome}
MCStageOf == decide :> "T0" @@ outcome :> "T5"
MCAfter == decide :> {} @@ outcome :> {decide}
MCMaxAttempts == decide :> 2 @@ outcome :> 2

ResultSymmetry == Permutations(Results)

CallsInit ==
  /\ Init /\ TurnsInit
  /\ part \in {"turns", "log"}
  /\ part = "log" => protocol = "research"

CallsNext ==
  /\ \/ part = "log" /\ Next /\ UNCHANGED turnVars
     \/ part = "turns" /\ TurnsNext /\ UNCHANGED vars
  /\ UNCHANGED part

CallsSpec == CallsInit /\ [][CallsNext]_<<part, vars, turnVars>>
==============================================================================
