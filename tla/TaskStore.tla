------------------------------ MODULE TaskStore ------------------------------
(***************************************************************************)
(* The durable task state machine of one formal Run: the rows of           *)
(* rebuild_tasks, rebuild_attempts, rebuild_runs, rebuild_run_controls and *)
(* rebuild_run_cancellations that akzio-store changes in one SQLite        *)
(* transaction per operation, and the workers (akzio-runtime's TaskRuntime)*)
(* that hold write permits on them.                                        *)
(*                                                                         *)
(* One action is one IMMEDIATE transaction, so every interleaving of       *)
(* claims, heartbeats, completions, cancellation and recovery sweeps is an *)
(* interleaving of these actions.  Time is relative: readyIn is ready_at - *)
(* now and leaseLeft is lease_until - now, both stopped where the code no  *)
(* longer tells values apart (0 is "due", -1 is "strictly past").          *)
(***************************************************************************)
EXTENDS Integers, Sequences, FiniteSets

CONSTANTS
    Task,          \* the tasks of the Run, the outcome worker included
    Worker,        \* worker slots of the pool (also of earlier processes)
    Deps,          \* [Task -> SUBSET Task]: rebuild_task_dependencies
    OnFailure,     \* [Task -> {"FailTask", "SkipTask", "FailRun"}]
    MaxAttempts,   \* [Task -> Nat \ {0}]: RetryPolicy.max_attempts
    MayRetry,      \* tasks whose RetryPolicy allows some retry cause
    MaySkip,       \* tasks whose handler may complete as Skipped
    Reconcile,     \* the gate.reconcile task
    Schedule,      \* the task whose handler commits the OutcomeSchedule
    Outcome,       \* the post-terminal learning.outcome_worker task
    Workload,      \* [Worker -> {"any", "session", "outcome"}]: reservation
    Stages,        \* Outcome stages (T1, T3, T5 in the code)
    LeaseFor,      \* the task lease, in ticks
    MaxDelay,      \* bound: longest retry or deferral delay, in ticks
    MaxDeferrals,  \* bound: deferrals asked for by handlers
    MaxLosses,     \* bound: attempts whose worker dies or stops heartbeating
    NoPermit       \* a worker that runs no attempt

Dispositions == {"FailTask", "SkipTask", "FailRun"}
Workloads == {"any", "session", "outcome"}

ASSUME GraphAssumption ==
    /\ IsFiniteSet(Task)
    /\ Deps \in [Task -> SUBSET Task]
    /\ OnFailure \in [Task -> Dispositions]
    /\ MaxAttempts \in [Task -> Nat \ {0}]
    /\ MayRetry \subseteq Task
    /\ MaySkip \subseteq Task
    /\ Workload \in [Worker -> Workloads]

\* The gate catalogue gives gate.reconcile FailRun and no retry, its handler
\* never answers Skipped, and the outcome worker is added outside the graph.
ASSUME GateAssumption ==
    /\ {Reconcile, Schedule, Outcome} \subseteq Task
    /\ Reconcile # Outcome
    /\ Schedule # Outcome
    /\ Reconcile # Schedule
    /\ OnFailure[Reconcile] = "FailRun"
    /\ Reconcile \notin MaySkip
    /\ \A t \in Task : t \notin Deps[t] /\ Outcome \notin Deps[t]
    /\ Deps[Outcome] = {}

\* The task that commits the schedule is the last one: decision waits for every
\* research leaf, the gates follow it one by one, evaluate ends the chain.
ASSUME LastAssumption ==
    \A S \in SUBSET Task :
        Schedule \in S /\ (\A t \in S : Deps[t] \subseteq S)
            => Task \ {Outcome} \subseteq S

ASSUME BoundAssumption ==
    /\ LeaseFor \in Nat \ {0}
    /\ {MaxDelay, MaxDeferrals, MaxLosses} \subseteq Nat
    /\ Stages \in Nat \ {0}
    /\ NoPermit \notin [task : Task, epoch : Nat]

VARIABLES
    status,     \* [Task -> TaskStatus]: rebuild_tasks.status
    readyIn,    \* [Task -> Nat]: ready_at - now, for a queued task
    leaseLeft,  \* [Task -> Int]: lease_until - now, for a running task
    epoch,      \* [Task -> Nat]: lease_epoch
    attempts,   \* [Task -> Seq(AttemptStatus)]: attempt rows, one per epoch
    sealed,     \* attempt of Outcome that wrote the latest Retrospective
    stage,      \* Outcome stages sealed so far
    runStatus,  \* rebuild_runs.status
    control,    \* rebuild_run_controls.status
    cancelled,  \* a row of rebuild_run_cancellations exists
    effect,     \* the Paper effect events of the Run's commitment
    permit,     \* [Worker -> permit or NoPermit]: what each worker runs with
    deferrals,  \* deferrals so far (bounded)
    losses      \* lost attempts so far (bounded)

rows == <<status, readyIn, leaseLeft, epoch, attempts>>
run == <<runStatus, control, cancelled>>
learning == <<sealed, stage>>
budgets == <<deferrals, losses>>
vars == <<rows, run, learning, effect, permit, budgets>>

TaskStatuses == {"absent", "queued", "running", "succeeded", "failed",
                 "skipped", "cancelled"}
ActiveStatuses == {"queued", "running"}
TerminalStatuses == {"succeeded", "failed", "skipped", "cancelled"}
DoneStatuses == {"succeeded", "skipped"}
AttemptStatuses == {"running", "succeeded", "failed", "skipped", "cancelled",
                    "deferred", "retried", "abandoned"}
RunStatuses == {"queued", "running", "completed", "failed", "cancelled"}
Permits == [task : Task, epoch : Nat]

TypeOK ==
    /\ status \in [Task -> TaskStatuses]
    /\ readyIn \in [Task -> 0..MaxDelay]
    /\ leaseLeft \in [Task -> -1..LeaseFor]
    /\ epoch \in [Task -> Nat]
    /\ attempts \in [Task -> Seq(AttemptStatuses)]
    /\ sealed \in Nat
    /\ stage \in 0..Stages
    /\ runStatus \in RunStatuses
    /\ control \in {"running", "completed"}
    /\ cancelled \in BOOLEAN
    /\ effect \in {"none", "intent", "settled"}
    /\ permit \in [Worker -> Permits \cup {NoPermit}]
    /\ deferrals \in 0..MaxDeferrals
    /\ losses \in 0..MaxLosses
------------------------------------------------------------------------------
(***************************************************************************)
(* What a transaction derives from the task rows.  st stands for the       *)
(* status column as the transaction has it at that point.                  *)
(***************************************************************************)
Active(st) == {t \in Task : st[t] \in ActiveStatuses}
Queued(st) == {t \in Task : st[t] = "queued"}

\* Mutant: a running task does not keep the Run open.
RefreshedRunEarly(st) ==
    IF Queued(st) # {} THEN runStatus
    ELSE IF \E t \in Task : st[t] = "failed" THEN "failed"
    ELSE "completed"

\* Mutant: one cancelled task makes the Run cancelled.
RefreshedRunAnyCancelled(st) ==
    IF Active(st) # {} THEN runStatus
    ELSE IF \E t \in Task : st[t] = "failed" THEN "failed"
    ELSE IF \E t \in Task : st[t] = "cancelled" THEN "cancelled"
    ELSE "completed"

\* refresh_run_status: nothing while a task is queued or running; a failure
\* wins over "all cancelled", everything else is completed.
RefreshedRun(st) ==
    IF Active(st) # {} THEN runStatus
    ELSE IF \E t \in Task : st[t] = "failed" THEN "failed"
    ELSE IF \A t \in Task : st[t] \in {"absent", "cancelled"} THEN "cancelled"
    ELSE "completed"

\* The Run status finish_permitted_task leaves; the post-terminal outcome
\* worker does not touch it.
VerdictAfter(t, st) == IF t = Outcome THEN runStatus ELSE RefreshedRun(st)

\* settle_continuous: the control head runs while any task is active.
SettledControl(st) == IF Active(st) # {} THEN "running" ELSE "completed"

\* Mutant: no task is exempt from cancellation.
NotProtected(t) == FALSE

\* A recorded effect intent keeps gate.reconcile alive.
Protected(t) == t = Reconcile /\ effect # "none"

\* Mutant: finished tasks are cancelled too.
CancelUnlessRunning(st) ==
    [t \in Task |-> IF st[t] = "running" THEN st[t] ELSE "cancelled"]

\* cancel_queued_tasks.
CancelQueued(st) ==
    [t \in Task |-> IF st[t] = "queued" /\ ~Protected(t) THEN "cancelled"
                                                          ELSE st[t]]

\* A set of queued tasks closed under "some parent failed or was cancelled".
FailureClosed(st, S) ==
    \A t \in Queued(st) :
        (\E p \in Deps[t] : st[p] \in {"failed", "cancelled"} \/ p \in S)
            => t \in S

\* Mutant: only the direct dependents.
DoomedChildren(st) ==
    {t \in Queued(st) : \E p \in Deps[t] : st[p] \in {"failed", "cancelled"}}

\* The least such set: what the rounds of cancel_failed_dependents reach.
Doomed(st) ==
    {t \in Queued(st) :
        \A S \in SUBSET Queued(st) : FailureClosed(st, S) => t \in S}

\* cancel_failed_dependents.
CancelDoomed(st) ==
    [t \in Task |-> IF t \in Doomed(st) THEN "cancelled" ELSE st[t]]

\* The status finish_permitted_task stores: SkipTask turns a failure into a
\* skip.
Stored(t, final) ==
    IF final = "failed" /\ OnFailure[t] = "SkipTask" THEN "skipped" ELSE final

\* finish_permitted_task on the task rows: the terminal status, then the
\* propagation of a failure; the outcome worker's failure propagates nothing.
AfterFinish(t, final) ==
    LET st == [status EXCEPT ![t] = Stored(t, final)]
    IN  IF st[t] # "failed" \/ t = Outcome THEN st
        ELSE IF OnFailure[t] = "FailRun" THEN CancelQueued(st)
        ELSE CancelDoomed(st)

\* task_failure_attempt_count: attempts after the latest Retrospective that
\* spent budget; deferred ones do not count.
SpentStatuses == {"running", "retried", "failed", "abandoned"}
StageStart(t) == IF t = Outcome THEN sealed ELSE 0
FailureAttempts(t) ==
    Cardinality({i \in DOMAIN attempts[t] :
                    i > StageStart(t) /\ attempts[t][i] \in SpentStatuses})

\* Mutant: the attempt row stays open.
NotClosed(t, s) == attempts

Closed(t, s) == [attempts EXCEPT ![t] = [@ EXCEPT ![epoch[t]] = s]]

\* assert_permit: the row is running, carries the permit's epoch and attempt,
\* and its lease has not run out.
Valid(w, t) ==
    /\ permit[w] = [task |-> t, epoch |-> epoch[t]]
    /\ status[t] = "running"
    /\ leaseLeft[t] > 0
------------------------------------------------------------------------------
(***************************************************************************)
(* Claiming.                                                               *)
(***************************************************************************)
\* The workload a slot asks for: its reservation or, in a poll that finds the
\* run log unavailable, only a reconcile with a recorded effect.
Serves(w, t) ==
    \/ Workload[w] = "any"
    \/ Workload[w] = "session" /\ t # Outcome
    \/ Workload[w] = "outcome" /\ t = Outcome
    \/ Protected(t)

DepsDone(t) == \A p \in Deps[t] : status[p] \in DoneStatuses

\* claim_next_task_for_workload.  ORDER BY ready_at only ranks tasks that are
\* all due, so any due task may be the one selected.
ClaimNextTask(w, t) ==
    /\ permit[w] = NoPermit
    /\ status[t] = "queued"
    /\ readyIn[t] = 0
    /\ control = "running"
    /\ Serves(w, t)
    /\ \/ runStatus \in {"queued", "running"}
       \/ runStatus = "completed" /\ t = Outcome
    /\ ~cancelled \/ Protected(t)
    /\ DepsDone(t)
    /\ status' = [status EXCEPT ![t] = "running"]
    /\ epoch' = [epoch EXCEPT ![t] = @ + 1]
    /\ leaseLeft' = [leaseLeft EXCEPT ![t] = LeaseFor]
    /\ attempts' = [attempts EXCEPT ![t] = Append(@, "running")]
    /\ permit' = [permit EXCEPT ![w] = [task |-> t, epoch |-> epoch[t] + 1]]
    /\ runStatus' = IF runStatus = "queued" THEN "running" ELSE runStatus
    /\ UNCHANGED <<readyIn, control, cancelled, learning, effect, budgets>>

\* heartbeat_task: never shortens the lease.
HeartbeatTask(w, t) ==
    /\ Valid(w, t)
    /\ leaseLeft[t] < LeaseFor
    /\ leaseLeft' = [leaseLeft EXCEPT ![t] = LeaseFor]
    /\ UNCHANGED <<status, readyIn, epoch, attempts, run, learning, effect,
                   permit, budgets>>
------------------------------------------------------------------------------
(***************************************************************************)
(* Completions.  Every one checks the permit in its transaction.           *)
(***************************************************************************)
\* finish_permitted_task on every row it changes, the worker done with it.
FinishPermittedTask(w, t, final) ==
    LET st == AfterFinish(t, final)
    IN  /\ status' = st
        /\ attempts' = Closed(t, Stored(t, final))
        /\ leaseLeft' = [leaseLeft EXCEPT ![t] = 0]
        /\ runStatus' = VerdictAfter(t, st)
        /\ control' = SettledControl(st)
        /\ permit' = [permit EXCEPT ![w] = NoPermit]
        /\ UNCHANGED <<readyIn, epoch, cancelled>>

\* The requeue shared by defer_task and retry_task.
Requeue(w, t, delay, row) ==
    /\ status' = [status EXCEPT ![t] = "queued"]
    /\ readyIn' = [readyIn EXCEPT ![t] = delay]
    /\ leaseLeft' = [leaseLeft EXCEPT ![t] = 0]
    /\ attempts' = Closed(t, row)
    /\ control' = SettledControl(status')
    /\ permit' = [permit EXCEPT ![w] = NoPermit]
    /\ UNCHANGED <<epoch, runStatus, cancelled>>

\* commit_attempt, or finish_task with Succeeded.  gate.reconcile takes this
\* path only for a NoOrder verdict, with no effect ever recorded, and the
\* outcome worker seals its last stage instead (CompleteOutcome).
CommitAttempt(w, t) ==
    /\ Valid(w, t)
    /\ t = Reconcile => effect = "none"
    /\ t # Outcome
    /\ FinishPermittedTask(w, t, "succeeded")
    /\ UNCHANGED <<learning, effect, budgets>>

SkipAttempt(w, t) ==
    /\ Valid(w, t)
    /\ t \in MaySkip
    /\ FinishPermittedTask(w, t, "skipped")
    /\ UNCHANGED <<learning, effect, budgets>>

\* finish_task with Failed, and the wall-time timeout of a task that may not
\* retry.
FailAttempt(w, t) ==
    /\ Valid(w, t)
    /\ FinishPermittedTask(w, t, "failed")
    /\ UNCHANGED <<learning, effect, budgets>>

\* The check after the claim, the monitor, or the handler saw the
\* cancellation; a reconcile with a recorded effect never completes this way.
CancelAttempt(w, t) ==
    /\ Valid(w, t)
    /\ cancelled
    /\ ~Protected(t)
    /\ FinishPermittedTask(w, t, "cancelled")
    /\ UNCHANGED <<learning, effect, budgets>>

\* defer_task: no budget is read and no cancellation either.
DeferTask(w, t) ==
    /\ Valid(w, t)
    /\ deferrals < MaxDeferrals
    /\ deferrals' = deferrals + 1
    /\ \E delay \in 1..MaxDelay : Requeue(w, t, delay, "deferred")
    /\ UNCHANGED <<learning, effect, losses>>

\* retry_task: requeued while the attempts that spent budget are fewer than
\* max_attempts, failed otherwise.
RetryTask(w, t) ==
    /\ Valid(w, t)
    /\ t \in MayRetry
    /\ IF FailureAttempts(t) < MaxAttempts[t]
       THEN \E delay \in 0..MaxDelay : Requeue(w, t, delay, "retried")
       ELSE FinishPermittedTask(w, t, "failed")
    /\ UNCHANGED <<learning, effect, budgets>>
------------------------------------------------------------------------------
(***************************************************************************)
(* The Paper effect of the Run, and the post-terminal outcome worker.      *)
(***************************************************************************)
\* record_paper_effect_intent: appended once, before the first broker write.
RecordPaperEffectIntent(w, t) ==
    /\ Valid(w, t)
    /\ t = Reconcile
    /\ effect = "none"
    /\ effect' = "intent"
    /\ UNCHANGED <<rows, run, learning, permit, budgets>>

\* commit_fenced_attempt_with_effect: task success and effect terminal
\* together.
CommitAttemptWithEffect(w, t) ==
    /\ Valid(w, t)
    /\ t = Reconcile
    /\ effect = "intent"
    /\ effect' = "settled"
    /\ FinishPermittedTask(w, t, "succeeded")
    /\ UNCHANGED <<learning, budgets>>

\* commit_outcome_schedule_with_worker: the schedule's success (and the Run
\* status it leaves) first, then the outcome task and wake_continuous.
CommitOutcomeSchedule(w, t) ==
    LET st == AfterFinish(t, "succeeded")
    IN  /\ Valid(w, t)
        /\ t = Schedule
        /\ status[Outcome] = "absent"
        /\ status' = [st EXCEPT ![Outcome] = "queued"]
        /\ attempts' = Closed(t, "succeeded")
        /\ leaseLeft' = [leaseLeft EXCEPT ![t] = 0]
        /\ runStatus' = RefreshedRun(st)
        /\ control' = "running"
        /\ permit' = [permit EXCEPT ![w] = NoPermit]
        /\ UNCHANGED <<readyIn, epoch, cancelled, learning, effect, budgets>>

\* Mutant: the completed control head is not woken.
AddOutcomeWorkerAsleep ==
    /\ runStatus = "completed"
    /\ status[Schedule] = "succeeded"
    /\ status[Outcome] = "absent"
    /\ status' = [status EXCEPT ![Outcome] = "queued"]
    /\ UNCHANGED <<readyIn, leaseLeft, epoch, attempts, run, learning, effect,
                   permit, budgets>>

\* ensure_pending_outcome_workers: a completed Run whose schedule was
\* committed while outcome processing was off gets its worker at start-up.
EnsurePendingOutcomeWorker ==
    /\ runStatus = "completed"
    /\ status[Schedule] = "succeeded"
    /\ status[Outcome] = "absent"
    /\ status' = [status EXCEPT ![Outcome] = "queued"]
    /\ control' = "running"
    /\ UNCHANGED <<readyIn, leaseLeft, epoch, attempts, runStatus, cancelled,
                   learning, effect, permit, budgets>>

\* A Retrospective written inside a running attempt that does not end there.
SealStage(w, t) ==
    /\ Valid(w, t)
    /\ t = Outcome
    /\ stage < Stages
    /\ stage' = stage + 1
    /\ sealed' = epoch[t]
    /\ UNCHANGED <<rows, run, effect, permit, budgets>>

\* write_outcome_retrospective_fenced with complete_task: the last stage and
\* the task's success in one transaction.
CompleteOutcome(w, t) ==
    /\ Valid(w, t)
    /\ t = Outcome
    /\ stage >= Stages - 1
    /\ stage' = Stages
    /\ sealed' = IF stage < Stages THEN epoch[t] ELSE sealed
    /\ FinishPermittedTask(w, t, "succeeded")
    /\ UNCHANGED <<effect, budgets>>
------------------------------------------------------------------------------
(***************************************************************************)
(* Cancellation, recovery, time and lost workers.                          *)
(***************************************************************************)
\* request_run_cancel: only the first request changes anything, and only
\* queued tasks are cancelled by it.
RequestRunCancel ==
    /\ ~cancelled
    /\ cancelled' = TRUE
    /\ status' = CancelQueued(status)
    /\ runStatus' = RefreshedRun(status')
    /\ control' = SettledControl(status')
    /\ UNCHANGED <<readyIn, leaseLeft, epoch, attempts, learning, effect,
                   permit, budgets>>

\* Mutants: a lease is taken before it ran out, or only at its very end.
ExpiringSoon == {t \in Task : status[t] = "running" /\ leaseLeft[t] <= 1}
ExpiringNow == {t \in Task : status[t] = "running" /\ leaseLeft[t] = 0}

\* recover_expired_tasks selects lease_until < now, while assert_permit
\* rejects lease_until <= now: at equality the attempt is nobody's.
Expired == {t \in Task : status[t] = "running" /\ leaseLeft[t] < 0}

\* The three fates of an expired task.
Cancels == {t \in Expired : cancelled /\ ~Protected(t)}
\* Mutant: recovery does not look at the budget.
RequeuesUnbounded == Expired \ Cancels

Requeues ==
    {t \in Expired \ Cancels :
        FailureAttempts(t) < MaxAttempts[t] \/ Protected(t)}
Exhausts == Expired \ (Cancels \cup Requeues)

\* recover_expired_tasks: one transaction over every expired task, in task_id
\* order.  The ids are random, so the tasks requeued before an exhausted
\* FailRun task of the same sweep (dropped) are any of them: the failure
\* cancels those and leaves the ones requeued after it.
RecoverExpiredTasks ==
    LET fate(t) == IF t \in Cancels THEN "cancelled"
                   ELSE IF t \in Requeues THEN "queued"
                   ELSE Stored(t, "failed")
        row(t) == IF t \in Requeues THEN "abandoned" ELSE fate(t)
        swept == [t \in Task |-> IF t \in Expired THEN fate(t) ELSE status[t]]
        failing == {t \in Exhausts : fate(t) = "failed" /\ t # Outcome}
        fails(how) == \E t \in failing : OnFailure[t] = how
        failRun == fails("FailRun")
        spread == IF fails("FailTask") THEN CancelDoomed(swept) ELSE swept
    IN  /\ Expired # {}
        /\ \E kept \in SUBSET Requeues :
              /\ failRun \/ kept = Requeues
              /\ status' = [t \in Task |->
                              IF failRun /\ t \notin kept
                              THEN CancelQueued(spread)[t] ELSE spread[t]]
        /\ attempts' = [t \in Task |->
                          IF t \in Expired THEN [attempts[t] EXCEPT
                                                    ![epoch[t]] = row(t)]
                                           ELSE attempts[t]]
        /\ leaseLeft' = [t \in Task |-> IF t \in Expired THEN 0
                                                        ELSE leaseLeft[t]]
        /\ readyIn' = [t \in Task |-> IF t \in Requeues THEN 0
                                                        ELSE readyIn[t]]
        /\ runStatus' = IF Expired \subseteq Requeues \cup {Outcome}
                        THEN runStatus ELSE RefreshedRun(status')
        /\ control' = SettledControl(status')
        /\ UNCHANGED <<epoch, cancelled, learning, effect, permit, budgets>>

\* Attempts whose worker lets the lease run out although it could renew it.
Lapsing == {t \in Task : leaseLeft[t] = 1 /\ \E w \in Worker : Valid(w, t)}

\* One tick of the clock.  The monitor renews at a third of the lease, so a
\* lease lapses only under a worker that stalls (counted in losses).
Tick ==
    /\ \E t \in Task : \/ status[t] = "running" /\ leaseLeft[t] > -1
                       \/ readyIn[t] > 0
    /\ losses + Cardinality(Lapsing) <= MaxLosses
    /\ losses' = losses + Cardinality(Lapsing)
    /\ leaseLeft' = [t \in Task |->
                       IF status[t] = "running" /\ leaseLeft[t] > -1
                       THEN leaseLeft[t] - 1 ELSE leaseLeft[t]]
    /\ readyIn' = [t \in Task |-> IF readyIn[t] > 0 THEN readyIn[t] - 1
                                                    ELSE 0]
    /\ UNCHANGED <<status, epoch, attempts, run, learning, effect, permit,
                   deferrals>>

\* The worker's process dies, or run_one ends with a Store error.
LoseWorker(w) ==
    /\ \E t \in Task : Valid(w, t)
    /\ losses < MaxLosses
    /\ losses' = losses + 1
    /\ permit' = [permit EXCEPT ![w] = NoPermit]
    /\ UNCHANGED <<rows, run, learning, effect, deferrals>>

\* A late worker is told StalePermit and goes back to polling.
RejectStale(w) ==
    /\ permit[w] # NoPermit
    /\ ~\E t \in Task : Valid(w, t)
    /\ permit' = [permit EXCEPT ![w] = NoPermit]
    /\ UNCHANGED <<rows, run, learning, effect, budgets>>
------------------------------------------------------------------------------
Init ==
    /\ status = [t \in Task |-> IF t = Outcome THEN "absent" ELSE "queued"]
    /\ readyIn = [t \in Task |-> 0]
    /\ leaseLeft = [t \in Task |-> 0]
    /\ epoch = [t \in Task |-> 0]
    /\ attempts = [t \in Task |-> <<>>]
    /\ sealed = 0
    /\ stage = 0
    /\ runStatus = "queued"
    /\ control = "running"
    /\ cancelled = FALSE
    /\ effect = "none"
    /\ permit = [w \in Worker |-> NoPermit]
    /\ deferrals = 0
    /\ losses = 0

\* What ends an attempt through its permit.
Complete(w, t) ==
    \/ CommitAttempt(w, t)
    \/ SkipAttempt(w, t)
    \/ FailAttempt(w, t)
    \/ CancelAttempt(w, t)
    \/ DeferTask(w, t)
    \/ RetryTask(w, t)
    \/ CommitAttemptWithEffect(w, t)
    \/ CommitOutcomeSchedule(w, t)
    \/ CompleteOutcome(w, t)

Next ==
    \/ \E w \in Worker, t \in Task :
          \/ ClaimNextTask(w, t)
          \/ HeartbeatTask(w, t)
          \/ Complete(w, t)
          \/ RecordPaperEffectIntent(w, t)
          \/ SealStage(w, t)
    \/ \E w \in Worker : LoseWorker(w) \/ RejectStale(w)
    \/ EnsurePendingOutcomeWorker
    \/ RequestRunCancel
    \/ RecoverExpiredTasks
    \/ Tick

Spec == Init /\ [][Next]_vars

\* Handlers return (max_wall_time_secs bounds them), the recovery loop runs
\* every third of a lease, rejected workers go back to polling, and the
\* ready_at order never overtakes a due task for ever.
Fairness ==
    /\ WF_vars(Tick)
    /\ WF_vars(RecoverExpiredTasks)
    /\ \A w \in Worker :
          /\ WF_vars(RejectStale(w))
          /\ WF_vars(\E t \in Task : Complete(w, t))
    /\ \A t \in Task : SF_vars(\E w \in Worker : ClaimNextTask(w, t))

FairSpec == Spec /\ Fairness
------------------------------------------------------------------------------
(***************************************************************************)
(* Properties.                                                             *)
(***************************************************************************)
Finals == {"completed", "failed", "cancelled"}
Session == Task \ {Outcome}

\* The attempt history agrees with the task row: one row per epoch, every row
\* but the current one closed, and the current one open exactly while the
\* task runs; claim, every completion and recovery change both together.
AttemptRowsAgree ==
    \A t \in Task :
        /\ Len(attempts[t]) = epoch[t]
        /\ \A i \in 1..epoch[t] :
              attempts[t][i] = "running" <=> i = epoch[t] /\ status[t] = "running"
        /\ status[t] = "running" => epoch[t] > 0

\* Fencing: no two workers hold a permit that assert_permit would accept for
\* the same task, also when an earlier worker was only slow and still acts.
SingleWriter ==
    \A t \in Task, v, w \in Worker : Valid(v, t) /\ Valid(w, t) => v = w

\* Why it holds: an issued permit never carries a later epoch than its task,
\* and every claim issues a new epoch, so no permit is ever issued twice.
PermitsFenced ==
    /\ \A w \in Worker : permit[w] # NoPermit =>
          permit[w].epoch <= epoch[permit[w].task]
    /\ \A v, w \in Worker :
          permit[v] # NoPermit /\ permit[v] = permit[w] => v = w

\* A task that was ever claimed has all its dependencies succeeded or skipped,
\* and they stay so: no propagated cancellation can undercut a started task.
StartedAfterDeps ==
    \A t \in Task : epoch[t] > 0 =>
        \A p \in Deps[t] : status[p] \in DoneStatuses

\* Once the effect intent is recorded its gate.reconcile is never cancelled,
\* by a cancelled Run, a failing task or a recovery sweep: it is waiting,
\* running, finished together with the effect, or failed by its own attempt.
EffectKeepsReconcile ==
    /\ effect = "intent" =>
          \/ status[Reconcile] \in ActiveStatuses
          \/ /\ status[Reconcile] = "failed"
             /\ attempts[Reconcile][epoch[Reconcile]] = "failed"
    /\ effect = "settled" => status[Reconcile] = "succeeded"

\* The Run status is final exactly when no task of the frozen graph is left to
\* run, and it is the verdict refresh_run_status promises: a completed Run has
\* no failed task and one that was done.
RunVerdictSound ==
    /\ runStatus \in Finals <=> Active(status) \cap Session = {}
    /\ runStatus = "completed" =>
          /\ \A t \in Session : status[t] # "failed"
          /\ \E t \in Session : status[t] \in DoneStatuses
    /\ runStatus = "failed" => \E t \in Task : status[t] = "failed"
    /\ runStatus = "cancelled" => \A t \in Session : status[t] = "cancelled"

\* The control head says running exactly while some task is queued or running:
\* claim refuses every task under a completed head, so an outcome worker added
\* after the Run completed must have woken it.
ControlAgrees == control = "running" <=> Active(status) # {}

\* The durable failure budget: deferrals are free, a sealed stage starts a new
\* budget, and only a reconcile with a recorded effect may exceed it.
BudgetRespected ==
    \A t \in Task : ~Protected(t) => FailureAttempts(t) <= MaxAttempts[t]

\* A worker whose permit is valid is the only one that ends its attempt: not a
\* recovery sweep, a cancellation, another task's failure or a late worker.
LiveAttemptExclusive ==
    [][\A t \in Task, w \in Worker :
          Valid(w, t) /\ status'[t] # "running" => permit'[w] = NoPermit]_vars

\* A terminal task and a closed attempt row never change again, whatever a
\* late worker, a sweep or a propagated failure does.
HistoryIsFinal ==
    [][\A t \in Task :
          /\ status[t] \in TerminalStatuses => status'[t] = status[t]
          /\ \A i \in 1..epoch[t] :
                attempts[t][i] # "running" => attempts'[t][i] = attempts[t][i]]_vars

\* A final Run status stays, whatever a late worker, a sweep or the outcome
\* worker does.  The one exception is the first cancel request of a completed
\* Run, which judges the outcome worker with the graph: a failed one makes the
\* Run failed, and nothing makes a completed Run cancelled (commits.rs:59).
FailedByFirstCancel ==
    /\ ~cancelled /\ cancelled'
    /\ runStatus = "completed" /\ runStatus' = "failed"
    /\ status[Outcome] = "failed"
VerdictSurvivesOutcome ==
    [][(runStatus \in Finals /\ runStatus' # runStatus)
          => FailedByFirstCancel]_vars

\* An attempt whose worker is gone does not stay running: again and again
\* there is no such attempt, as its lease runs out and the recovery loop
\* requeues or ends it.
Lost(t) == status[t] = "running" /\ ~\E w \in Worker : Valid(w, t)
LostAttemptRecovered == []<>(\A t \in Task : ~Lost(t))

\* Unless it is cancelled the Run reaches a final status with no task left
\* behind, again after an outcome worker was added to a completed Run: no
\* dependency of a failed task and no late worker waits for ever.
RunSettles ==
    []<>(cancelled \/ (runStatus \in Finals /\ Active(status) = {}))

\* request_run_cancel's promise: queued tasks are cancelled with the request
\* and running attempts observe it and finish, so that only a reconcile with a
\* recorded effect is left to run.
CancelledRunSettles ==
    cancelled ~> \A t \in Task : status[t] \in ActiveStatuses => Protected(t)
==============================================================================
