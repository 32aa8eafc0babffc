----------------------------- MODULE MCTaskStore -----------------------------
(***************************************************************************)
(* Instances of TaskStore for TLC.  The graph keeps one task of each role  *)
(* of the Paper graph: a research task, an optional one, gate.reconcile,   *)
(* the task that commits the OutcomeSchedule, and the outcome worker.      *)
(***************************************************************************)
EXTENDS TaskStore, TLC

CONSTANTS research, extra, reconcile, evaluate, outcome, w1, w2, w3

\* research -> reconcile -> evaluate, then the outcome worker.
MCPaperTasks == {research, reconcile, evaluate, outcome}
MCPaperDeps == (research :> {}) @@ (reconcile :> {research})
                 @@ (evaluate :> {reconcile}) @@ (outcome :> {})

\* research and extra side by side under reconcile.
MCForkTasks == MCPaperTasks \cup {extra}
MCForkDeps == [t \in MCForkTasks |->
                 IF t = reconcile THEN {research, extra}
                 ELSE IF t = evaluate THEN {reconcile} ELSE {}]

MCPaperOnFailure ==
    [t \in Task |-> IF t \in {reconcile, evaluate, outcome} THEN "FailRun"
                    ELSE "FailTask"]
MCForkOnFailure ==
    [t \in Task |-> IF t = extra THEN "SkipTask"
                    ELSE IF t = research THEN "FailTask" ELSE "FailRun"]

\* RetryPolicy::none() for the gates, two attempts for the agents.
MCMaxAttempts == [t \in Task |-> IF t \in {reconcile, evaluate} THEN 1 ELSE 2]
MCMayRetry == Task \ {reconcile, evaluate}

\* The pool reserves a worker for the session and one for outcomes, the rest
\* is shared.
MCReserved == (w1 :> "session") @@ (w2 :> "outcome") @@ (w3 :> "any")
MCShared == [w \in Worker |-> "any"]

\* The workers of a shared pool are interchangeable.
WorkerSymmetry == Permutations(Worker)
==============================================================================
