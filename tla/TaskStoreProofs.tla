---------------------------- MODULE TaskStoreProofs ----------------------------
(***************************************************************************)
(* Theorems about TaskStore, for every graph, worker pool and bound that   *)
(* satisfies the assumptions of that module: first the permits, then what  *)
(* it does to one task (its attempt rows, its dependencies, the worker     *)
(* that may end it, the recorded Paper effect and the failure budget) and  *)
(* to the Run (its control head and its verdict).                          *)
(***************************************************************************)
EXTENDS TaskStore, FiniteSetTheorems, SequenceTheorems, TLAPS

USE DEF Dispositions, Workloads

\* Overwriting one position of a sequence keeps its length and its element
\* type; used for every attempt row that is closed.
LEMMA OverwriteTyped ==
    ASSUME NEW S, NEW q \in Seq(S), NEW i \in Nat, NEW x \in S
    PROVE  /\ [q EXCEPT ![i] = x] \in Seq(S)
           /\ Len([q EXCEPT ![i] = x]) = Len(q)
    <1>1. CASE i \in 1..Len(q)
        BY <1>1, ExceptSeq
    <1>2. CASE i \notin 1..Len(q)
        <2>1. q = [j \in 1..Len(q) |-> q[j]]
            BY LenProperties
        <2>2. [q EXCEPT ![i] = x] = q
            BY <1>2, <2>1
        <2>3. QED
            BY <2>2
    <1>3. QED
        BY <1>1, <1>2

\* The status columns the transactions compute stay status columns.
LEMMA PropagationTyped ==
    ASSUME NEW st \in [Task -> TaskStatuses]
    PROVE  /\ CancelQueued(st) \in [Task -> TaskStatuses]
           /\ CancelDoomed(st) \in [Task -> TaskStatuses]
    BY DEF CancelQueued, CancelDoomed, TaskStatuses

\* The status finish_permitted_task stores is a terminal one.
LEMMA StoredTyped ==
    ASSUME NEW t \in Task, NEW final \in TerminalStatuses
    PROVE  Stored(t, final) \in TerminalStatuses
    BY DEF Stored, TerminalStatuses

\* finish_permitted_task leaves a status column.
LEMMA AfterFinishTyped ==
    ASSUME TypeOK, NEW t \in Task, NEW final \in TerminalStatuses
    PROVE  AfterFinish(t, final) \in [Task -> TaskStatuses]
    <1> DEFINE st == [status EXCEPT ![t] = Stored(t, final)]
    <1>1. st \in [Task -> TaskStatuses]
        BY StoredTyped DEF TypeOK, TaskStatuses, TerminalStatuses
    <1>2. QED
        BY <1>1, PropagationTyped DEF AfterFinish

\* The Run status and the control head a transaction derives are typed.
LEMMA RunTyped ==
    ASSUME TypeOK, NEW st
    PROVE  /\ RefreshedRun(st) \in RunStatuses
           /\ SettledControl(st) \in {"running", "completed"}
           /\ \A t \in Task : VerdictAfter(t, st) \in RunStatuses
    BY DEF TypeOK, RefreshedRun, VerdictAfter, SettledControl, RunStatuses

\* Closing the current attempt row keeps the attempt rows typed.
LEMMA ClosedTyped ==
    ASSUME TypeOK, NEW t \in Task, NEW s \in AttemptStatuses
    PROVE  Closed(t, s) \in [Task -> Seq(AttemptStatuses)]
    <1>1. /\ attempts[t] \in Seq(AttemptStatuses)
          /\ epoch[t] \in Nat
        BY DEF TypeOK
    <1>2. [attempts[t] EXCEPT ![epoch[t]] = s] \in Seq(AttemptStatuses)
        BY <1>1, OverwriteTyped
    <1>3. QED
        BY <1>2 DEF TypeOK, Closed

\* The part of TypeOK that the two ways of ending an attempt establish.
LEMMA FinishTyped ==
    ASSUME TypeOK, NEW w \in Worker, NEW t \in Task,
           NEW final \in TerminalStatuses, FinishPermittedTask(w, t, final)
    PROVE  /\ status' \in [Task -> TaskStatuses]
           /\ readyIn' \in [Task -> 0..MaxDelay]
           /\ leaseLeft' \in [Task -> -1..LeaseFor]
           /\ epoch' \in [Task -> Nat]
           /\ attempts' \in [Task -> Seq(AttemptStatuses)]
           /\ runStatus' \in RunStatuses
           /\ control' \in {"running", "completed"}
           /\ cancelled' \in BOOLEAN
           /\ permit' \in [Worker -> Permits \cup {NoPermit}]
    <1>1. Stored(t, final) \in AttemptStatuses
        BY StoredTyped DEF TerminalStatuses, AttemptStatuses
    <1>2. attempts' \in [Task -> Seq(AttemptStatuses)]
        BY <1>1, ClosedTyped DEF FinishPermittedTask
    <1>3. status' \in [Task -> TaskStatuses]
        BY AfterFinishTyped DEF FinishPermittedTask
    <1>4. /\ runStatus' \in RunStatuses
          /\ control' \in {"running", "completed"}
        BY RunTyped DEF FinishPermittedTask, TypeOK
    <1>5. /\ leaseLeft' \in [Task -> -1..LeaseFor]
          /\ permit' \in [Worker -> Permits \cup {NoPermit}]
        <2>1. /\ leaseLeft' = [leaseLeft EXCEPT ![t] = 0]
              /\ permit' = [permit EXCEPT ![w] = NoPermit]
            BY DEF FinishPermittedTask
        <2>2. QED
            BY <2>1, BoundAssumption DEF TypeOK
    <1>6. UNCHANGED <<readyIn, epoch, cancelled>>
        BY DEF FinishPermittedTask
    <1>7. QED
        BY <1>2, <1>3, <1>4, <1>5, <1>6 DEF TypeOK

\* The part of TypeOK that defer_task and retry_task establish.
LEMMA RequeueTyped ==
    ASSUME TypeOK, NEW w \in Worker, NEW t \in Task,
           NEW delay \in 0..MaxDelay, NEW row \in AttemptStatuses,
           Requeue(w, t, delay, row)
    PROVE  /\ status' \in [Task -> TaskStatuses]
           /\ readyIn' \in [Task -> 0..MaxDelay]
           /\ leaseLeft' \in [Task -> -1..LeaseFor]
           /\ epoch' \in [Task -> Nat]
           /\ attempts' \in [Task -> Seq(AttemptStatuses)]
           /\ runStatus' \in RunStatuses
           /\ control' \in {"running", "completed"}
           /\ cancelled' \in BOOLEAN
           /\ permit' \in [Worker -> Permits \cup {NoPermit}]
    <1>1. attempts' \in [Task -> Seq(AttemptStatuses)]
        BY ClosedTyped DEF Requeue
    <1>2. control' \in {"running", "completed"}
        BY RunTyped DEF Requeue
    <1>3. status' \in [Task -> TaskStatuses]
        BY DEF Requeue, TypeOK, TaskStatuses
    <1>4. /\ readyIn' \in [Task -> 0..MaxDelay]
          /\ leaseLeft' \in [Task -> -1..LeaseFor]
        <2>1. 0 \in -1..LeaseFor
            BY BoundAssumption
        <2>2. QED
            BY <2>1 DEF Requeue, TypeOK
    <1>5. permit' \in [Worker -> Permits \cup {NoPermit}]
        BY DEF Requeue, TypeOK
    <1>6. QED
        BY <1>1, <1>2, <1>3, <1>4, <1>5 DEF Requeue, TypeOK

\* Every completion of an attempt keeps the types.
LEMMA CompleteTyped ==
    ASSUME TypeOK, NEW w \in Worker, NEW t \in Task, Complete(w, t)
    PROVE  TypeOK'
    <1> USE DEF Complete
    <1>1. CASE CommitAttempt(w, t)
        BY <1>1, FinishTyped DEF CommitAttempt, TypeOK, learning, budgets,
           TerminalStatuses
    <1>2. CASE SkipAttempt(w, t)
        BY <1>2, FinishTyped DEF SkipAttempt, TypeOK, learning, budgets,
           TerminalStatuses
    <1>3. CASE FailAttempt(w, t)
        BY <1>3, FinishTyped DEF FailAttempt, TypeOK, learning, budgets,
           TerminalStatuses
    <1>4. CASE CancelAttempt(w, t)
        BY <1>4, FinishTyped DEF CancelAttempt, TypeOK, learning, budgets,
           TerminalStatuses
    <1>5. CASE DeferTask(w, t)
        <2>1. PICK delay \in 1..MaxDelay : Requeue(w, t, delay, "deferred")
            BY <1>5 DEF DeferTask
        <2>2. delay \in 0..MaxDelay /\ "deferred" \in AttemptStatuses
            BY BoundAssumption DEF AttemptStatuses
        <2>3. deferrals' \in 0..MaxDeferrals
            BY <1>5, BoundAssumption DEF DeferTask, TypeOK
        <2>4. QED
            BY <1>5, <2>1, <2>2, <2>3, RequeueTyped
               DEF DeferTask, TypeOK, learning
    <1>6. CASE RetryTask(w, t)
        <2>1. CASE FinishPermittedTask(w, t, "failed")
            BY <1>6, <2>1, FinishTyped DEF RetryTask, TypeOK, learning,
               budgets, TerminalStatuses
        <2>2. CASE \E delay \in 0..MaxDelay : Requeue(w, t, delay, "retried")
            <3>1. "retried" \in AttemptStatuses
                BY DEF AttemptStatuses
            <3>2. QED
                BY <1>6, <2>2, <3>1, RequeueTyped
                   DEF RetryTask, TypeOK, learning, budgets
        <2>3. QED
            BY <1>6, <2>1, <2>2 DEF RetryTask
    <1>7. CASE CommitAttemptWithEffect(w, t)
        BY <1>7, FinishTyped DEF CommitAttemptWithEffect, TypeOK, learning,
           budgets, TerminalStatuses
    <1>8. CASE CommitOutcomeSchedule(w, t)
        <2> DEFINE st == AfterFinish(t, "succeeded")
        <2>1. st \in [Task -> TaskStatuses]
            BY AfterFinishTyped DEF TerminalStatuses
        <2>2. status' \in [Task -> TaskStatuses]
            BY <1>8, <2>1 DEF CommitOutcomeSchedule, TaskStatuses
        <2>3. attempts' \in [Task -> Seq(AttemptStatuses)]
            BY <1>8, ClosedTyped DEF CommitOutcomeSchedule, AttemptStatuses
        <2>4. runStatus' \in RunStatuses
            BY <1>8, RunTyped DEF CommitOutcomeSchedule
        <2>5. /\ leaseLeft' = [leaseLeft EXCEPT ![t] = 0]
              /\ permit' = [permit EXCEPT ![w] = NoPermit]
              /\ control' = "running"
              /\ UNCHANGED <<readyIn, epoch, cancelled, learning, effect,
                             budgets>>
            BY <1>8 DEF CommitOutcomeSchedule
        <2>6. leaseLeft' \in [Task -> -1..LeaseFor]
            BY <2>5, BoundAssumption DEF TypeOK
        <2>7. QED
            BY <2>2, <2>3, <2>4, <2>5, <2>6 DEF TypeOK, learning, budgets
    <1>9. CASE CompleteOutcome(w, t)
        <2>1. stage' \in 0..Stages /\ sealed' \in Nat
            BY <1>9, BoundAssumption DEF CompleteOutcome, TypeOK
        <2>2. QED
            BY <1>9, <2>1, FinishTyped DEF CompleteOutcome, TypeOK, budgets,
               TerminalStatuses
    <1>10. QED
        BY <1>1, <1>2, <1>3, <1>4, <1>5, <1>6, <1>7, <1>8, <1>9

\* The recovery sweep keeps the types.
LEMMA RecoverTyped ==
    ASSUME TypeOK, RecoverExpiredTasks
    PROVE  TypeOK'
    <1> DEFINE fate(t) == IF t \in Cancels THEN "cancelled"
                          ELSE IF t \in Requeues THEN "queued"
                          ELSE Stored(t, "failed")
               row(t) == IF t \in Requeues THEN "abandoned" ELSE fate(t)
               swept == [t \in Task |-> IF t \in Expired THEN fate(t)
                                        ELSE status[t]]
    <1>1. \A t \in Task : /\ fate(t) \in TaskStatuses
                          /\ t \notin Requeues => fate(t) \in AttemptStatuses
        BY StoredTyped DEF TerminalStatuses, TaskStatuses, AttemptStatuses
    <1>2. swept \in [Task -> TaskStatuses]
        BY <1>1 DEF TypeOK
    <1>3. CancelDoomed(swept) \in [Task -> TaskStatuses]
        BY <1>2, PropagationTyped
    <1>4. /\ CancelQueued(swept) \in [Task -> TaskStatuses]
          /\ CancelQueued(CancelDoomed(swept)) \in [Task -> TaskStatuses]
        BY <1>2, <1>3, PropagationTyped
    <1>5. status' \in [Task -> TaskStatuses]
        BY <1>2, <1>3, <1>4 DEF RecoverExpiredTasks
    <1>6. attempts' \in [Task -> Seq(AttemptStatuses)]
        <2>1. ASSUME NEW t \in Task
              PROVE  [attempts[t] EXCEPT ![epoch[t]] = row(t)]
                        \in Seq(AttemptStatuses)
            <3>1. /\ attempts[t] \in Seq(AttemptStatuses)
                  /\ epoch[t] \in Nat
                  /\ row(t) \in AttemptStatuses
                BY <1>1 DEF TypeOK, AttemptStatuses
            <3>2. QED
                BY <3>1, OverwriteTyped
        <2>2. attempts' = [t \in Task |->
                              IF t \in Expired
                              THEN [attempts[t] EXCEPT ![epoch[t]] = row(t)]
                              ELSE attempts[t]]
            BY DEF RecoverExpiredTasks
        <2>3. QED
            BY <2>1, <2>2 DEF TypeOK
    <1>7. /\ runStatus' \in RunStatuses
          /\ control' \in {"running", "completed"}
        <2>1. /\ runStatus' \in {runStatus, RefreshedRun(status')}
              /\ control' = SettledControl(status')
            BY DEF RecoverExpiredTasks
        <2>2. QED
            BY <2>1, RunTyped DEF TypeOK
    <1>8. /\ leaseLeft' \in [Task -> -1..LeaseFor]
          /\ readyIn' \in [Task -> 0..MaxDelay]
        <2>1. /\ leaseLeft' = [t \in Task |-> IF t \in Expired THEN 0
                                                        ELSE leaseLeft[t]]
              /\ readyIn' = [t \in Task |-> IF t \in Requeues THEN 0
                                                        ELSE readyIn[t]]
            BY DEF RecoverExpiredTasks
        <2>2. QED
            BY <2>1, BoundAssumption DEF TypeOK
    <1>9. UNCHANGED <<epoch, cancelled, learning, effect, permit, budgets>>
        BY DEF RecoverExpiredTasks
    <1>10. QED
        BY <1>5, <1>6, <1>7, <1>8, <1>9 DEF TypeOK, learning, budgets

\* A tick keeps the clocks inside their ranges and the losses in budget.
LEMMA TickTyped ==
    ASSUME TypeOK, Tick
    PROVE  TypeOK'
    <1>1. Cardinality(Lapsing) \in Nat
        <2>1. IsFiniteSet(Lapsing)
            BY GraphAssumption, FS_Subset DEF Lapsing
        <2>2. QED
            BY <2>1, FS_CardinalityType
    <1>2. losses' \in 0..MaxLosses
        BY <1>1, BoundAssumption DEF Tick, TypeOK
    <1>3. leaseLeft' \in [Task -> -1..LeaseFor]
        <2>1. leaseLeft' = [t \in Task |->
                              IF status[t] = "running" /\ leaseLeft[t] > -1
                              THEN leaseLeft[t] - 1 ELSE leaseLeft[t]]
            BY DEF Tick
        <2>2. \A t \in Task : leaseLeft[t] \in -1..LeaseFor
            BY DEF TypeOK
        <2>3. LeaseFor \in Nat
            BY BoundAssumption
        <2>4. \A t \in Task : leaseLeft[t] > -1
                                => leaseLeft[t] - 1 \in -1..LeaseFor
            BY <2>2, <2>3
        <2>5. QED
            BY <2>1, <2>2, <2>4
    <1>4. readyIn' \in [Task -> 0..MaxDelay]
        <2>1. readyIn' = [t \in Task |-> IF readyIn[t] > 0
                                        THEN readyIn[t] - 1 ELSE 0]
            BY DEF Tick
        <2>2. \A t \in Task : readyIn[t] \in 0..MaxDelay
            BY DEF TypeOK
        <2>3. MaxDelay \in Nat
            BY BoundAssumption
        <2>4. QED
            BY <2>1, <2>2, <2>3
    <1>5. QED
        BY <1>2, <1>3, <1>4 DEF Tick, TypeOK, run, learning

\* The state always has its type.
THEOREM TypeCorrect == Spec => []TypeOK
    <1>1. Init => TypeOK
        <2> SUFFICES ASSUME Init PROVE TypeOK
            OBVIOUS
        <2>1. attempts \in [Task -> Seq(AttemptStatuses)]
            BY EmptySeq DEF Init
        <2>2. /\ readyIn \in [Task -> 0..MaxDelay]
              /\ leaseLeft \in [Task -> -1..LeaseFor]
              /\ epoch \in [Task -> Nat]
            BY BoundAssumption DEF Init
        <2>3. /\ stage \in 0..Stages
              /\ deferrals \in 0..MaxDeferrals
              /\ losses \in 0..MaxLosses
            BY BoundAssumption DEF Init
        <2>4. /\ status \in [Task -> TaskStatuses]
              /\ permit \in [Worker -> Permits \cup {NoPermit}]
            BY DEF Init, TaskStatuses
        <2>5. QED
            BY <2>1, <2>2, <2>3, <2>4 DEF Init, TypeOK, RunStatuses
    <1>2. TypeOK /\ [Next]_vars => TypeOK'
        <2> SUFFICES ASSUME TypeOK, [Next]_vars
                     PROVE  TypeOK'
            OBVIOUS
        <2>1. ASSUME NEW w \in Worker, NEW t \in Task, ClaimNextTask(w, t)
              PROVE  TypeOK'
            <3>1. /\ status' = [status EXCEPT ![t] = "running"]
                  /\ epoch' = [epoch EXCEPT ![t] = @ + 1]
                  /\ leaseLeft' = [leaseLeft EXCEPT ![t] = LeaseFor]
                  /\ attempts' = [attempts EXCEPT ![t] = Append(@, "running")]
                  /\ permit' = [permit EXCEPT
                                   ![w] = [task |-> t, epoch |-> epoch[t] + 1]]
                  /\ runStatus' \in {"running", runStatus}
                  /\ UNCHANGED <<readyIn, control, cancelled, learning, effect,
                                 budgets>>
                BY <2>1 DEF ClaimNextTask
            <3>2. Append(attempts[t], "running") \in Seq(AttemptStatuses)
                BY AppendProperties DEF TypeOK, AttemptStatuses
            <3>3. [task |-> t, epoch |-> epoch[t] + 1] \in Permits
                BY DEF TypeOK, Permits
            <3>4. /\ status' \in [Task -> TaskStatuses]
                  /\ epoch' \in [Task -> Nat]
                  /\ leaseLeft' \in [Task -> -1..LeaseFor]
                <4>1. status' \in [Task -> TaskStatuses]
                    BY <3>1 DEF TypeOK, TaskStatuses
                <4>2. epoch' \in [Task -> Nat]
                    BY <3>1 DEF TypeOK
                <4>3. leaseLeft' \in [Task -> -1..LeaseFor]
                    <5>1. LeaseFor \in -1..LeaseFor
                        BY BoundAssumption
                    <5>2. QED
                        BY <3>1, <5>1 DEF TypeOK
                <4>4. QED
                    BY <4>1, <4>2, <4>3
            <3>5. /\ attempts' \in [Task -> Seq(AttemptStatuses)]
                  /\ permit' \in [Worker -> Permits \cup {NoPermit}]
                BY <3>1, <3>2, <3>3 DEF TypeOK
            <3>6. QED
                BY <3>1, <3>4, <3>5 DEF TypeOK, RunStatuses, learning, budgets
        <2>2. ASSUME NEW w \in Worker, NEW t \in Task, HeartbeatTask(w, t)
              PROVE  TypeOK'
            BY <2>2, BoundAssumption
               DEF HeartbeatTask, TypeOK, run, learning, budgets
        <2>3. ASSUME NEW w \in Worker, NEW t \in Task, Complete(w, t)
              PROVE  TypeOK'
            BY <2>3, CompleteTyped
        <2>4. ASSUME NEW w \in Worker, NEW t \in Task,
                     RecordPaperEffectIntent(w, t)
              PROVE  TypeOK'
            BY <2>4 DEF RecordPaperEffectIntent, TypeOK, rows, run, learning,
                        budgets
        <2>5. ASSUME NEW w \in Worker, NEW t \in Task, SealStage(w, t)
              PROVE  TypeOK'
            BY <2>5, BoundAssumption DEF SealStage, TypeOK, rows, run, budgets
        <2>6. ASSUME NEW w \in Worker, LoseWorker(w) \/ RejectStale(w)
              PROVE  TypeOK'
            <3>1. losses' \in 0..MaxLosses
                BY <2>6, BoundAssumption
                   DEF LoseWorker, RejectStale, TypeOK, budgets
            <3>2. QED
                BY <2>6, <3>1 DEF LoseWorker, RejectStale, TypeOK, rows, run,
                                  learning, budgets
        <2>7. CASE EnsurePendingOutcomeWorker
            BY <2>7, GateAssumption
               DEF EnsurePendingOutcomeWorker, TypeOK, TaskStatuses, learning,
                   budgets
        <2>8. CASE RequestRunCancel
            <3>1. status' \in [Task -> TaskStatuses]
                BY <2>8, PropagationTyped DEF RequestRunCancel, TypeOK
            <3>2. /\ runStatus' \in RunStatuses
                  /\ control' \in {"running", "completed"}
                BY <2>8, RunTyped DEF RequestRunCancel
            <3>3. QED
                BY <2>8, <3>1, <3>2 DEF RequestRunCancel, TypeOK, learning,
                                        budgets
        <2>9. CASE RecoverExpiredTasks
            BY <2>9, RecoverTyped
        <2>10. CASE Tick
            BY <2>10, TickTyped
        <2>11. CASE UNCHANGED vars
            BY <2>11 DEF vars, TypeOK, rows, run, learning, budgets
        <2>12. QED
            BY <2>1, <2>2, <2>3, <2>4, <2>5, <2>6, <2>7, <2>8, <2>9, <2>10,
               <2>11 DEF Next
    <1>3. QED
        BY <1>1, <1>2, PTL DEF Spec

\* Only a claim issues a permit or raises an epoch; every other step keeps the
\* epochs and at most takes permits away.
LEMMA OnlyClaimsIssue ==
    ASSUME TypeOK, [Next]_vars,
           ~\E w \in Worker, t \in Task : ClaimNextTask(w, t)
    PROVE  /\ epoch' = epoch
           /\ \A w \in Worker : permit'[w] \in {permit[w], NoPermit}
    <1> DEFINE P == /\ epoch' = epoch
                    /\ \A w \in Worker : permit'[w] \in {permit[w], NoPermit}
    <1>1. ASSUME NEW w \in Worker, NEW t \in Task, Complete(w, t)
          PROVE  P
        <2>1. ASSUME NEW final, FinishPermittedTask(w, t, final)
              PROVE  P
            BY <2>1 DEF FinishPermittedTask, TypeOK
        <2>2. ASSUME NEW delay, NEW row, Requeue(w, t, delay, row)
              PROVE  P
            BY <2>2 DEF Requeue, TypeOK
        <2>3. CASE CommitOutcomeSchedule(w, t)
            BY <2>3 DEF CommitOutcomeSchedule, TypeOK
        <2>4. QED
            BY <1>1, <2>1, <2>2, <2>3
               DEF Complete, CommitAttempt, SkipAttempt, FailAttempt,
                   CancelAttempt, DeferTask, RetryTask,
                   CommitAttemptWithEffect, CompleteOutcome
    <1>2. ASSUME NEW w \in Worker, NEW t \in Task,
                 \/ HeartbeatTask(w, t)
                 \/ RecordPaperEffectIntent(w, t)
                 \/ SealStage(w, t)
          PROVE  P
        BY <1>2 DEF HeartbeatTask, RecordPaperEffectIntent, SealStage, rows
    <1>3. ASSUME NEW w \in Worker, LoseWorker(w) \/ RejectStale(w)
          PROVE  P
        BY <1>3 DEF LoseWorker, RejectStale, rows, TypeOK
    <1>4. CASE EnsurePendingOutcomeWorker \/ RequestRunCancel
        BY <1>4 DEF EnsurePendingOutcomeWorker, RequestRunCancel
    <1>5. CASE RecoverExpiredTasks \/ Tick
        BY <1>5 DEF RecoverExpiredTasks, Tick
    <1>6. CASE UNCHANGED vars
        BY <1>6 DEF vars, rows
    <1>7. QED
        BY <1>1, <1>2, <1>3, <1>4, <1>5, <1>6 DEF Next

\* Permits are never issued twice and never run ahead of their task.
THEOREM Fencing == Spec => []PermitsFenced
    <1>1. Init => PermitsFenced
        BY DEF Init, PermitsFenced
    <1>2. TypeOK /\ PermitsFenced /\ [Next]_vars => PermitsFenced'
        <2> SUFFICES ASSUME TypeOK, PermitsFenced, [Next]_vars
                     PROVE  PermitsFenced'
            OBVIOUS
        <2>1. CASE ~\E w \in Worker, t \in Task : ClaimNextTask(w, t)
            <3>1. /\ epoch' = epoch
                  /\ \A w \in Worker : permit'[w] \in {permit[w], NoPermit}
                BY <2>1, OnlyClaimsIssue
            <3>2. QED
                BY <3>1 DEF PermitsFenced
        <2>2. CASE \E w \in Worker, t \in Task : ClaimNextTask(w, t)
            <3>1. PICK w \in Worker, t \in Task : ClaimNextTask(w, t)
                BY <2>2
            <3> DEFINE new == [task |-> t, epoch |-> epoch[t] + 1]
            <3>2. /\ permit' = [permit EXCEPT ![w] = new]
                  /\ epoch' = [epoch EXCEPT ![t] = @ + 1]
                BY <3>1 DEF ClaimNextTask
            <3>3. /\ permit'[w] = new
                  /\ \A v \in Worker \ {w} : permit'[v] = permit[v]
                BY <3>2 DEF TypeOK
            <3>4. /\ epoch'[t] = epoch[t] + 1
                  /\ \A u \in Task : epoch[u] <= epoch'[u]
                BY <3>2 DEF TypeOK
            <3>5. \A v \in Worker : permit[v] # NoPermit =>
                     /\ permit[v] \in Permits
                     /\ permit[v].epoch <= epoch[permit[v].task]
                BY DEF TypeOK, PermitsFenced
            <3>6. \A v \in Worker : permit[v] # NoPermit => permit[v] # new
                BY <3>5 DEF Permits, TypeOK
            <3>7. \A v \in Worker : permit'[v] # NoPermit =>
                     permit'[v].epoch <= epoch'[permit'[v].task]
                <4> SUFFICES ASSUME NEW v \in Worker, permit'[v] # NoPermit
                             PROVE  permit'[v].epoch <= epoch'[permit'[v].task]
                    OBVIOUS
                <4>1. CASE v = w
                    BY <3>3, <3>4, <4>1 DEF TypeOK
                <4>2. CASE v # w
                    <5>1. /\ permit'[v] = permit[v]
                          /\ permit[v] \in Permits
                          /\ permit[v].epoch <= epoch[permit[v].task]
                        BY <3>3, <3>5, <4>2
                    <5>2. /\ epoch[permit[v].task] \in Nat
                          /\ epoch'[permit[v].task] \in Nat
                          /\ epoch[permit[v].task] <= epoch'[permit[v].task]
                        BY <5>1, <3>2, <3>4 DEF Permits, TypeOK
                    <5>3. QED
                        BY <5>1, <5>2 DEF Permits
                <4>3. QED
                    BY <4>1, <4>2
            <3>8. \A u, v \in Worker :
                     permit'[u] # NoPermit /\ permit'[u] = permit'[v] => u = v
                BY <3>3, <3>6 DEF PermitsFenced
            <3>9. QED
                BY <3>7, <3>8 DEF PermitsFenced
        <2>3. QED
            BY <2>1, <2>2
    <1>3. QED
        BY <1>1, <1>2, TypeCorrect, PTL DEF Spec

\* At most one worker may write to a task, for every pool and every schedule.
THEOREM OneWriter == Spec => []SingleWriter
    <1>1. TypeOK /\ PermitsFenced => SingleWriter
        <2> SUFFICES ASSUME TypeOK, PermitsFenced,
                            NEW t \in Task, NEW v \in Worker, NEW w \in Worker,
                            Valid(v, t), Valid(w, t)
                     PROVE  v = w
            BY DEF SingleWriter
        <2>1. permit[v] = permit[w]
            BY DEF Valid
        <2>2. permit[v] # NoPermit
            BY BoundAssumption DEF Valid, TypeOK
        <2>3. QED
            BY <2>1, <2>2 DEF PermitsFenced
    <1>2. QED
        BY <1>1, TypeCorrect, Fencing, PTL
--------------------------------------------------------------------------------
\* What one step may do to one task: nothing that its attempt rows record,
Untouched(t) ==
    /\ epoch'[t] = epoch[t]
    /\ attempts'[t] = attempts[t]
    /\ status'[t] = "running" <=> status[t] = "running"
    /\ status[t] \in TerminalStatuses => status'[t] = status[t]
    /\ status'[t] \in {status[t], "queued", "cancelled"}

\* a claim,
Began(t) ==
    /\ status[t] = "queued"
    /\ DepsDone(t)
    /\ status'[t] = "running"
    /\ epoch'[t] = epoch[t] + 1
    /\ attempts'[t] = Append(attempts[t], "running")

\* or the end of its attempt, by the worker with the valid permit or, once the
\* lease has run out, by recovery.
Ended(t) ==
    /\ status[t] = "running"
    /\ status'[t] # "running"
    /\ status'[t] \in TerminalStatuses \cup {"queued"}
    /\ epoch'[t] = epoch[t]
    /\ \E s \in AttemptStatuses \ {"running"} :
          attempts'[t] = [attempts[t] EXCEPT ![epoch[t]] = s]
    /\ \/ t \in Expired
       \/ \E w \in Worker : Valid(w, t) /\ permit'[w] = NoPermit

\* Propagation touches queued tasks only.
LEMMA PropagationKeeps ==
    ASSUME NEW st \in [Task -> TaskStatuses], NEW t \in Task, st[t] # "queued"
    PROVE  CancelQueued(st)[t] = st[t] /\ CancelDoomed(st)[t] = st[t]
    BY DEF CancelQueued, CancelDoomed, Doomed, Queued

\* It cancels what it touches.
LEMMA PropagationCancels ==
    ASSUME NEW st \in [Task -> TaskStatuses], NEW t \in Task
    PROVE  /\ CancelQueued(st)[t] \in {st[t], "cancelled"}
           /\ CancelDoomed(st)[t] \in {st[t], "cancelled"}
    BY DEF CancelQueued, CancelDoomed

\* finish_permitted_task ends the attempt of its own task and leaves every
\* other task as it is or cancels it while it is queued.
LEMMA FinishEffect ==
    ASSUME TypeOK, NEW t \in Task, status[t] = "running",
           NEW final \in TerminalStatuses, NEW u \in Task
    PROVE  /\ u = t => AfterFinish(t, final)[u] = Stored(t, final)
           /\ u # t /\ status[u] # "queued" => AfterFinish(t, final)[u] = status[u]
           /\ u # t => AfterFinish(t, final)[u] \in {status[u], "cancelled"}
    <1> DEFINE st == [status EXCEPT ![t] = Stored(t, final)]
    <1>1. /\ st \in [Task -> TaskStatuses]
          /\ st[t] = Stored(t, final) /\ st[t] \in TerminalStatuses
          /\ u # t => st[u] = status[u]
        BY StoredTyped DEF TypeOK, TaskStatuses, TerminalStatuses
    <1>2. AfterFinish(t, final) \in {st, CancelQueued(st), CancelDoomed(st)}
        BY DEF AfterFinish
    <1>3. /\ st[u] # "queued" =>
                CancelQueued(st)[u] = st[u] /\ CancelDoomed(st)[u] = st[u]
          /\ CancelQueued(st)[u] \in {st[u], "cancelled"}
          /\ CancelDoomed(st)[u] \in {st[u], "cancelled"}
        BY <1>1, PropagationKeeps, PropagationCancels
    <1>4. st[t] # "queued"
        BY <1>1 DEF TerminalStatuses
    <1> HIDE DEF st
    <1>5. AfterFinish(t, final)[u] \in
             {st[u], CancelQueued(st)[u], CancelDoomed(st)[u]}
        BY <1>2
    <1>6. QED
        BY <1>1, <1>3, <1>4, <1>5

\* Closing one row leaves the rows of the other tasks alone.
LEMMA ClosedEffect ==
    ASSUME TypeOK, NEW t \in Task, NEW s \in AttemptStatuses
    PROVE  /\ Closed(t, s)[t] = [attempts[t] EXCEPT ![epoch[t]] = s]
           /\ \A u \in Task : u # t => Closed(t, s)[u] = attempts[u]
    BY DEF Closed, TypeOK

\* The end of an attempt, seen from any task.
LEMMA FinishTouches ==
    ASSUME TypeOK, NEW w \in Worker, NEW t \in Task, Valid(w, t),
           NEW final \in TerminalStatuses, FinishPermittedTask(w, t, final),
           NEW u \in Task
    PROVE  Untouched(u) \/ Ended(u)
    <1>1. /\ status' = AfterFinish(t, final)
          /\ attempts' = Closed(t, Stored(t, final))
          /\ epoch' = epoch
          /\ permit'[w] = NoPermit
        BY DEF FinishPermittedTask, TypeOK
    <1>2. status[t] = "running"
        BY DEF Valid
    <1>3. CASE u = t
        <2>1. /\ Stored(t, final) \in AttemptStatuses \ {"running"}
              /\ Stored(t, final) \in TerminalStatuses
            BY StoredTyped DEF TerminalStatuses, AttemptStatuses
        <2>2. status'[t] = Stored(t, final)
            BY <1>1, <1>2, FinishEffect
        <2>3. attempts'[t] = [attempts[t] EXCEPT ![epoch[t]] = Stored(t, final)]
            BY <1>1, <2>1, ClosedEffect
        <2>4. QED
            BY <1>1, <1>2, <1>3, <2>1, <2>2, <2>3 DEF Ended
    <1>4. CASE u # t
        <2>1. /\ status[u] # "queued" => status'[u] = status[u]
              /\ status'[u] \in {status[u], "cancelled"}
            BY <1>1, <1>2, <1>4, FinishEffect
        <2>2. attempts'[u] = attempts[u]
            <3>1. PICK s \in AttemptStatuses : attempts' = Closed(t, s)
                BY <1>1, StoredTyped DEF TerminalStatuses, AttemptStatuses
            <3>2. Closed(t, s)[u] = attempts[u]
                BY <1>4, ClosedEffect
            <3>3. QED
                BY <3>1, <3>2
        <2>3. QED
            BY <1>1, <2>1, <2>2 DEF Untouched, TerminalStatuses
    <1>5. QED
        BY <1>3, <1>4

\* A requeue, seen from any task.
LEMMA RequeueTouches ==
    ASSUME TypeOK, NEW w \in Worker, NEW t \in Task, Valid(w, t),
           NEW delay \in 0..MaxDelay, NEW row \in AttemptStatuses \ {"running"},
           Requeue(w, t, delay, row), NEW u \in Task
    PROVE  Untouched(u) \/ Ended(u)
    <1>1. /\ status' = [status EXCEPT ![t] = "queued"]
          /\ attempts' = Closed(t, row)
          /\ epoch' = epoch
          /\ permit'[w] = NoPermit
          /\ status[t] = "running"
        BY DEF Requeue, TypeOK, Valid
    <1>2. /\ u # t => attempts'[u] = attempts[u] /\ status'[u] = status[u]
          /\ attempts'[t] = [attempts[t] EXCEPT ![epoch[t]] = row]
          /\ status'[t] = "queued"
        <2>1. status'[t] = "queued" /\ (u # t => status'[u] = status[u])
            BY <1>1 DEF TypeOK
        <2>2. row \in AttemptStatuses
            OBVIOUS
        <2>3. QED
            BY <1>1, <2>1, <2>2, ClosedEffect
    <1>3. QED
        BY <1>1, <1>2 DEF Untouched, Ended

\* Every completion, seen from any task.
LEMMA CompleteTouches ==
    ASSUME TypeOK, NEW w \in Worker, NEW t \in Task, Complete(w, t),
           NEW u \in Task
    PROVE  Untouched(u) \/ Ended(u)
    <1>1. Valid(w, t)
        BY DEF Complete, CommitAttempt, SkipAttempt, FailAttempt, CancelAttempt,
               DeferTask, RetryTask, CommitAttemptWithEffect,
               CommitOutcomeSchedule, CompleteOutcome
    <1>2. ASSUME NEW final \in TerminalStatuses, FinishPermittedTask(w, t, final)
          PROVE  Untouched(u) \/ Ended(u)
        BY <1>1, <1>2, FinishTouches
    <1>3. CASE CommitOutcomeSchedule(w, t)
        <2> DEFINE st == AfterFinish(t, "succeeded")
        <2>1. /\ status' = [st EXCEPT ![Outcome] = "queued"]
              /\ attempts' = Closed(t, "succeeded")
              /\ epoch' = epoch
              /\ permit'[w] = NoPermit
              /\ status[Outcome] = "absent"
              /\ t = Schedule
            BY <1>3 DEF CommitOutcomeSchedule, TypeOK
        <2>2. st \in [Task -> TaskStatuses]
            BY AfterFinishTyped DEF TerminalStatuses
        <2>3. /\ status[t] = "running"
              /\ t # Outcome
            BY <1>1, <2>1, GateAssumption DEF Valid
        <2>4. Stored(t, "succeeded") = "succeeded"
            BY DEF Stored
        <2>5. "succeeded" \in TerminalStatuses
            BY DEF TerminalStatuses
        <2>6. CASE u = t
            <3>1. st[t] = "succeeded"
                BY <2>3, <2>4, <2>5, FinishEffect
            <3>2. status'[t] = "succeeded"
                BY <2>1, <2>2, <2>3, <3>1
            <3>3. attempts'[t] = [attempts[t] EXCEPT ![epoch[t]] = "succeeded"]
                BY <2>1, ClosedEffect DEF AttemptStatuses
            <3>4. QED
                BY <1>1, <2>1, <2>3, <2>5, <2>6, <3>2, <3>3
                   DEF Ended, AttemptStatuses
        <2>7. CASE u # t
            <3>1. /\ status[u] # "queued" => st[u] = status[u]
                  /\ st[u] \in {status[u], "cancelled"}
                BY <2>3, <2>5, <2>7, FinishEffect
            <3>2. /\ u # Outcome => status'[u] = st[u]
                  /\ u = Outcome => status'[u] = "queued"
                BY <2>1, <2>2
            <3>3. attempts'[u] = attempts[u]
                <4>1. "succeeded" \in AttemptStatuses
                    BY DEF AttemptStatuses
                <4>2. QED
                    BY <2>1, <2>7, <4>1, ClosedEffect
            <3>4. QED
                BY <2>1, <3>1, <3>2, <3>3 DEF Untouched, TerminalStatuses
        <2>8. QED
            BY <2>6, <2>7
    <1>4. CASE DeferTask(w, t) \/ RetryTask(w, t)
        <2>1. ASSUME NEW delay \in 0..MaxDelay,
                     NEW row \in {"deferred", "retried"}, Requeue(w, t, delay, row)
              PROVE  Untouched(u) \/ Ended(u)
            BY <1>1, <2>1, RequeueTouches DEF AttemptStatuses
        <2>2. "failed" \in TerminalStatuses
            BY DEF TerminalStatuses
        <2>3. 1..MaxDelay \subseteq 0..MaxDelay
            BY BoundAssumption
        <2>4. QED
            BY <1>2, <1>4, <2>1, <2>2, <2>3 DEF DeferTask, RetryTask
    <1>5. {"succeeded", "skipped", "failed", "cancelled"} \subseteq TerminalStatuses
        BY DEF TerminalStatuses
    <1>6. QED
        BY <1>2, <1>3, <1>4, <1>5
           DEF Complete, CommitAttempt, SkipAttempt, FailAttempt, CancelAttempt,
               CommitAttemptWithEffect, CompleteOutcome

\* A sweep ends exactly the attempts whose lease has run out.
LEMMA RecoverTouches ==
    ASSUME TypeOK, RecoverExpiredTasks, NEW u \in Task
    PROVE  Untouched(u) \/ Ended(u)
    <1> DEFINE fate(t) == IF t \in Cancels THEN "cancelled"
                          ELSE IF t \in Requeues THEN "queued"
                          ELSE Stored(t, "failed")
               row(t) == IF t \in Requeues THEN "abandoned" ELSE fate(t)
               swept == [t \in Task |-> IF t \in Expired THEN fate(t)
                                                         ELSE status[t]]
    <1>1. /\ fate(u) \in {"cancelled", "queued", "failed", "skipped"}
          /\ row(u) \in AttemptStatuses \ {"running"}
        BY DEF Stored, AttemptStatuses
    <1>2. swept \in [Task -> TaskStatuses]
        BY StoredTyped DEF TypeOK, TaskStatuses, TerminalStatuses
    <1>3. /\ epoch' = epoch
          /\ attempts'[u] = IF u \in Expired
                            THEN [attempts[u] EXCEPT ![epoch[u]] = row(u)]
                            ELSE attempts[u]
        BY DEF RecoverExpiredTasks
    <1>4. PICK spread \in {swept, CancelDoomed(swept)} :
             status'[u] \in {spread[u], CancelQueued(spread)[u]}
        BY DEF RecoverExpiredTasks
    <1>5. /\ swept[u] = IF u \in Expired THEN fate(u) ELSE status[u]
          /\ u \in Expired => status[u] = "running"
        BY DEF Expired
    <1> HIDE DEF swept, fate, row
    <1>6. spread \in [Task -> TaskStatuses]
        BY <1>2, <1>4, PropagationTyped
    <1>7. /\ spread[u] \in {swept[u], "cancelled"}
          /\ swept[u] # "queued" => spread[u] = swept[u]
        BY <1>2, <1>4, PropagationKeeps, PropagationCancels
    <1>8. /\ CancelQueued(spread)[u] \in {spread[u], "cancelled"}
          /\ spread[u] # "queued" => CancelQueued(spread)[u] = spread[u]
        BY <1>6, PropagationKeeps, PropagationCancels
    <1>9. /\ status'[u] \in {swept[u], "cancelled"}
          /\ swept[u] # "queued" => status'[u] = swept[u]
        BY <1>4, <1>7, <1>8
    <1>10. CASE u \in Expired
        BY <1>1, <1>3, <1>5, <1>9, <1>10 DEF Ended, TerminalStatuses
    <1>11. CASE u \notin Expired
        BY <1>3, <1>5, <1>9, <1>11 DEF Untouched, TerminalStatuses
    <1>12. QED
        BY <1>10, <1>11

\* A claim begins an attempt of its own task only.
LEMMA ClaimTouches ==
    ASSUME TypeOK, NEW w \in Worker, NEW t \in Task, ClaimNextTask(w, t),
           NEW u \in Task
    PROVE  Untouched(u) \/ Began(u)
    <1>1. /\ status' = [status EXCEPT ![t] = "running"]
          /\ epoch' = [epoch EXCEPT ![t] = @ + 1]
          /\ attempts' = [attempts EXCEPT ![t] = Append(@, "running")]
          /\ status[t] = "queued"
          /\ DepsDone(t)
        BY DEF ClaimNextTask
    <1>2. CASE u = t
        BY <1>1, <1>2 DEF Began, TypeOK
    <1>3. CASE u # t
        BY <1>1, <1>3 DEF Untouched, TypeOK
    <1>4. QED
        BY <1>2, <1>3

\* Every step, seen from any task: nothing, the start or the end of its attempt.
LEMMA StepOfTask ==
    ASSUME TypeOK, [Next]_vars, NEW u \in Task
    PROVE  Untouched(u) \/ Began(u) \/ Ended(u)
    <1>1. ASSUME NEW w \in Worker, NEW t \in Task, ClaimNextTask(w, t)
          PROVE  Untouched(u) \/ Began(u)
        BY <1>1, ClaimTouches
    <1>2. ASSUME NEW w \in Worker, NEW t \in Task, Complete(w, t)
          PROVE  Untouched(u) \/ Ended(u)
        BY <1>2, CompleteTouches
    <1>3. ASSUME NEW w \in Worker, NEW t \in Task,
                 \/ HeartbeatTask(w, t)
                 \/ RecordPaperEffectIntent(w, t)
                 \/ SealStage(w, t)
          PROVE  Untouched(u)
        BY <1>3 DEF HeartbeatTask, RecordPaperEffectIntent, SealStage, rows,
                    Untouched
    <1>4. ASSUME NEW w \in Worker, LoseWorker(w) \/ RejectStale(w)
          PROVE  Untouched(u)
        BY <1>4 DEF LoseWorker, RejectStale, rows, Untouched
    <1>5. CASE EnsurePendingOutcomeWorker
        <2>1. /\ status' = [status EXCEPT ![Outcome] = "queued"]
              /\ status[Outcome] = "absent"
              /\ epoch' = epoch /\ attempts' = attempts
            BY <1>5 DEF EnsurePendingOutcomeWorker
        <2>2. QED
            BY <2>1 DEF Untouched, TypeOK, TerminalStatuses
    <1>6. CASE RequestRunCancel
        <2>1. /\ status' = CancelQueued(status)
              /\ epoch' = epoch /\ attempts' = attempts
            BY <1>6 DEF RequestRunCancel
        <2>2. /\ status[u] # "queued" => status'[u] = status[u]
              /\ status'[u] \in {status[u], "cancelled"}
            BY <2>1, PropagationKeeps, PropagationCancels DEF TypeOK
        <2>3. QED
            BY <2>1, <2>2 DEF Untouched, TerminalStatuses
    <1>7. CASE RecoverExpiredTasks
        BY <1>7, RecoverTouches
    <1>8. CASE Tick
        BY <1>8 DEF Tick, Untouched
    <1>9. CASE UNCHANGED vars
        BY <1>9 DEF vars, rows, Untouched
    <1>10. QED
        BY <1>1, <1>2, <1>3, <1>4, <1>5, <1>6, <1>7, <1>8, <1>9 DEF Next
------------------------------------------------------------------------------
\* One task's part of AttemptRowsAgree.
RowsOf(t) ==
    /\ Len(attempts[t]) = epoch[t]
    /\ \A i \in 1..epoch[t] :
          attempts[t][i] = "running" <=> i = epoch[t] /\ status[t] = "running"
    /\ status[t] = "running" => epoch[t] > 0

\* Every step keeps one task's rows in agreement with its status and epoch.
LEMMA RowsStep ==
    ASSUME TypeOK, [Next]_vars, NEW t \in Task, RowsOf(t)
    PROVE  RowsOf(t)'
    <1>1. /\ epoch[t] \in Nat
          /\ attempts[t] \in Seq(AttemptStatuses)
        BY DEF TypeOK
    <1>2. CASE Untouched(t)
        BY <1>2 DEF Untouched, RowsOf
    <1>3. CASE Began(t)
        <2>1. /\ status[t] = "queued" /\ status'[t] = "running"
              /\ epoch'[t] = epoch[t] + 1
              /\ attempts'[t] = Append(attempts[t], "running")
            BY <1>3 DEF Began
        <2>2. /\ Len(attempts'[t]) = epoch'[t]
              /\ attempts'[t][epoch'[t]] = "running"
              /\ \A i \in 1..epoch[t] : attempts'[t][i] = attempts[t][i]
            BY <1>1, <2>1 DEF RowsOf
        <2>3. \A i \in 1..epoch[t] : attempts[t][i] # "running"
            BY <2>1 DEF RowsOf
        <2>4. QED
            BY <1>1, <2>1, <2>2, <2>3 DEF RowsOf
    <1>4. CASE Ended(t)
        <2>1. /\ status[t] = "running" /\ status'[t] # "running"
              /\ epoch'[t] = epoch[t]
            BY <1>4 DEF Ended
        <2>2. PICK s \in AttemptStatuses \ {"running"} :
                 attempts'[t] = [attempts[t] EXCEPT ![epoch[t]] = s]
            BY <1>4 DEF Ended
        <2>3. /\ Len(attempts'[t]) = epoch[t]
              /\ \A i \in 1..epoch[t] :
                    attempts'[t][i] = IF i = epoch[t] THEN s ELSE attempts[t][i]
            BY <1>1, <2>2, OverwriteTyped DEF RowsOf
        <2>4. QED
            BY <1>1, <2>1, <2>2, <2>3 DEF RowsOf
    <1>5. QED
        BY <1>2, <1>3, <1>4, StepOfTask

\* The attempt history agrees with the task row in every reachable state, for
\* every graph, pool and retry policy (claim, completions and recovery write
\* both rows in one transaction).
THEOREM RowsAgree == Spec => []AttemptRowsAgree
    <1>1. Init => AttemptRowsAgree
        BY DEF Init, AttemptRowsAgree
    <1>2. TypeOK /\ AttemptRowsAgree /\ [Next]_vars => AttemptRowsAgree'
        <2>1. AttemptRowsAgree <=> \A t \in Task : RowsOf(t)
            BY DEF AttemptRowsAgree, RowsOf
        <2>2. AttemptRowsAgree' <=> \A t \in Task : RowsOf(t)'
            BY DEF AttemptRowsAgree, RowsOf
        <2>3. QED
            BY <2>1, <2>2, RowsStep
    <1>3. QED
        BY <1>1, <1>2, TypeCorrect, PTL DEF Spec

\* A terminal task and a closed attempt row never change again.
THEOREM HistoryFinal == Spec => HistoryIsFinal
    <1> DEFINE Keeps(t) ==
            /\ status[t] \in TerminalStatuses => status'[t] = status[t]
            /\ \A i \in 1..epoch[t] :
                  attempts[t][i] # "running" => attempts'[t][i] = attempts[t][i]
    <1>1. TypeOK /\ AttemptRowsAgree /\ [Next]_vars => \A t \in Task : Keeps(t)
        <2> SUFFICES ASSUME TypeOK, AttemptRowsAgree, [Next]_vars,
                            NEW t \in Task
                     PROVE  Keeps(t)
            OBVIOUS
        <2>1. /\ epoch[t] \in Nat
              /\ attempts[t] \in Seq(AttemptStatuses)
              /\ Len(attempts[t]) = epoch[t]
            BY DEF TypeOK, AttemptRowsAgree
        <2>2. CASE Untouched(t)
            BY <2>2 DEF Untouched
        <2>3. CASE Began(t)
            BY <2>1, <2>3 DEF Began, TerminalStatuses
        <2>4. CASE Ended(t)
            <3>1. PICK s \in AttemptStatuses \ {"running"} :
                     attempts'[t] = [attempts[t] EXCEPT ![epoch[t]] = s]
                BY <2>4 DEF Ended
            <3>2. \A i \in 1..epoch[t] :
                     i # epoch[t] => attempts'[t][i] = attempts[t][i]
                BY <2>1, <3>1
            <3>3. epoch[t] \in 1..epoch[t] => attempts[t][epoch[t]] = "running"
                BY <2>1, <2>4 DEF Ended, AttemptRowsAgree
            <3>4. QED
                BY <2>1, <2>4, <3>2, <3>3 DEF Ended, TerminalStatuses
        <2>5. QED
            BY <2>2, <2>3, <2>4, StepOfTask
    <1>2. TypeOK /\ AttemptRowsAgree /\ [Next]_vars =>
             [\A t \in Task : Keeps(t)]_vars
        BY <1>1
    <1>3. QED
        BY <1>2, TypeCorrect, RowsAgree, PTL DEF Spec, HistoryIsFinal

\* A task that was ever claimed has all its dependencies succeeded or skipped,
\* for every graph: what a claim has seen (DepsDone) no failure, cancellation
\* or sweep takes back.
THEOREM DepsFirst == Spec => []StartedAfterDeps
    <1>1. Init => StartedAfterDeps
        BY DEF Init, StartedAfterDeps
    <1>2. TypeOK /\ StartedAfterDeps /\ [Next]_vars => StartedAfterDeps'
        <2> SUFFICES ASSUME TypeOK, StartedAfterDeps, [Next]_vars,
                            NEW t \in Task, epoch'[t] > 0, NEW p \in Deps[t]
                     PROVE  status'[p] \in DoneStatuses
            BY DEF StartedAfterDeps
        <2>1. p \in Task
            BY GraphAssumption
        <2>2. status[p] \in DoneStatuses
            <3>1. CASE Began(t)
                BY <3>1 DEF Began, DepsDone
            <3>2. CASE ~Began(t)
                <4>1. epoch'[t] = epoch[t]
                    BY <3>2, StepOfTask DEF Untouched, Ended
                <4>2. QED
                    BY <4>1 DEF StartedAfterDeps
            <3>3. QED
                BY <3>1, <3>2
        <2>3. ~Began(p) /\ ~Ended(p)
            BY <2>2 DEF Began, Ended, DoneStatuses
        <2>4. QED
            BY <2>1, <2>2, <2>3, StepOfTask
               DEF Untouched, DoneStatuses, TerminalStatuses
    <1>3. QED
        BY <1>1, <1>2, TypeCorrect, PTL DEF Spec

\* Only the worker whose permit is valid ends its attempt: a step that ends it
\* leaves that worker without the permit.
THEOREM Exclusive == Spec => LiveAttemptExclusive
    <1> DEFINE A == \A t \in Task, w \in Worker :
                       Valid(w, t) /\ status'[t] # "running" =>
                           permit'[w] = NoPermit
    <1>1. TypeOK /\ SingleWriter /\ [Next]_vars => A
        <2> SUFFICES ASSUME TypeOK, SingleWriter, [Next]_vars,
                            NEW t \in Task, NEW w \in Worker,
                            Valid(w, t), status'[t] # "running"
                     PROVE  permit'[w] = NoPermit
            OBVIOUS
        <2>1. Ended(t)
            BY StepOfTask DEF Valid, Untouched, Began
        <2>2. t \notin Expired
            BY DEF Valid, Expired, TypeOK
        <2>3. PICK v \in Worker : Valid(v, t) /\ permit'[v] = NoPermit
            BY <2>1, <2>2 DEF Ended
        <2>4. QED
            BY <2>3 DEF SingleWriter
    <1>2. TypeOK /\ SingleWriter /\ [Next]_vars => [A]_vars
        BY <1>1
    <1>3. QED
        BY <1>2, TypeCorrect, OneWriter, PTL DEF Spec, LiveAttemptExclusive
------------------------------------------------------------------------------
\* The control head says running exactly while some task is active: every
\* operation that changes a task settles or wakes it (settle_continuous,
\* wake_continuous).
THEOREM HeadAgrees == Spec => []ControlAgrees
    <1>1. Init => ControlAgrees
        <2>1. Init => control = "running" /\ Schedule \in Active(status)
            BY GateAssumption DEF Init, Active, ActiveStatuses
        <2>2. QED
            BY <2>1 DEF ControlAgrees
    <1>2. TypeOK /\ ControlAgrees /\ [Next]_vars => ControlAgrees'
        <2> SUFFICES ASSUME TypeOK, ControlAgrees, [Next]_vars
                     PROVE  ControlAgrees'
            OBVIOUS
        <2> DEFINE Same == control' = control /\ status' = status
                   Settled == control' = SettledControl(status')
                   Woken == control' = "running" /\ Active(status') # {}
        <2>1. ASSUME Same \/ Settled \/ Woken
              PROVE  ControlAgrees'
            BY <2>1 DEF ControlAgrees, SettledControl, Active
        <2>2. ASSUME NEW w \in Worker, NEW t \in Task, ClaimNextTask(w, t)
              PROVE  Woken
            <3>1. status'[t] = "running" /\ control' = "running"
                BY <2>2 DEF ClaimNextTask, TypeOK
            <3>2. t \in Active(status')
                BY <3>1 DEF Active, ActiveStatuses
            <3>3. QED
                BY <3>1, <3>2
        <2>3. ASSUME NEW w \in Worker, NEW t \in Task, Complete(w, t)
              PROVE  Settled \/ Woken
            <3>1. ASSUME NEW final, FinishPermittedTask(w, t, final)
                  PROVE  Settled
                BY <3>1 DEF FinishPermittedTask
            <3>2. ASSUME NEW delay, NEW row, Requeue(w, t, delay, row)
                  PROVE  Settled
                BY <3>2 DEF Requeue
            <3>3. CASE CommitOutcomeSchedule(w, t)
                <4> DEFINE st == AfterFinish(t, "succeeded")
                <4>1. /\ status' = [st EXCEPT ![Outcome] = "queued"]
                      /\ control' = "running"
                    BY <3>3 DEF CommitOutcomeSchedule
                <4>2. st \in [Task -> TaskStatuses]
                    BY AfterFinishTyped DEF TerminalStatuses
                <4>3. Outcome \in Active(status')
                    BY <4>1, <4>2, GateAssumption DEF Active, ActiveStatuses
                <4>4. QED
                    BY <4>1, <4>3
            <3>4. CASE DeferTask(w, t)
                BY <3>2, <3>4 DEF DeferTask
            <3>5. CASE RetryTask(w, t)
                BY <3>1, <3>2, <3>5 DEF RetryTask
            <3> HIDE DEF Settled
            <3>6. QED
                BY <2>3, <3>1, <3>3, <3>4, <3>5
                   DEF Complete, CommitAttempt, SkipAttempt, FailAttempt,
                       CancelAttempt, CommitAttemptWithEffect, CompleteOutcome
        <2>4. ASSUME NEW w \in Worker, NEW t \in Task,
                     \/ HeartbeatTask(w, t)
                     \/ RecordPaperEffectIntent(w, t)
                     \/ SealStage(w, t)
              PROVE  Same
            BY <2>4 DEF HeartbeatTask, RecordPaperEffectIntent, SealStage,
                        rows, run
        <2>5. ASSUME NEW w \in Worker, LoseWorker(w) \/ RejectStale(w)
              PROVE  Same
            BY <2>5 DEF LoseWorker, RejectStale, rows, run
        <2>6. CASE EnsurePendingOutcomeWorker
            <3>1. /\ status' = [status EXCEPT ![Outcome] = "queued"]
                  /\ control' = "running"
                BY <2>6 DEF EnsurePendingOutcomeWorker
            <3>2. Outcome \in Active(status')
                BY <3>1, GateAssumption DEF Active, ActiveStatuses, TypeOK
            <3>3. QED
                BY <2>1, <3>1, <3>2
        <2>7. CASE RequestRunCancel \/ RecoverExpiredTasks
            BY <2>1, <2>7 DEF RequestRunCancel, RecoverExpiredTasks
        <2>8. CASE Tick \/ UNCHANGED vars
            BY <2>1, <2>8 DEF Tick, vars, rows, run
        <2> HIDE DEF Same, Settled, Woken
        <2>9. QED
            BY <2>1, <2>2, <2>3, <2>4, <2>5, <2>6, <2>7, <2>8 DEF Next
    <1>3. QED
        BY <1>1, <1>2, TypeCorrect, PTL DEF Spec
------------------------------------------------------------------------------
\* A task whose dependencies are done is not reached by cancel_failed_dependents.
LEMMA NotDoomed ==
    ASSUME NEW st, NEW t \in Task, \A p \in Deps[t] : st[p] \in DoneStatuses
    PROVE  t \notin Doomed(st)
    <1> DEFINE S == Queued(st) \ {t}
    <1>1. FailureClosed(st, S)
        BY DEF FailureClosed, Queued, DoneStatuses
    <1>2. S \in SUBSET Queued(st) /\ t \notin S
        OBVIOUS
    <1>3. QED
        BY <1>1, <1>2 DEF Doomed

\* What gate.reconcile may count on once its effect intent is recorded.
Committed ==
    /\ effect # "none"
    /\ Len(attempts[Reconcile]) = epoch[Reconcile]
    /\ epoch[Reconcile] > 0
    /\ \A p \in Deps[Reconcile] : status[p] \in DoneStatuses

\* No propagation over a status column that keeps the reconcile's finished
\* dependencies cancels it.
LEMMA PropagationSpares ==
    ASSUME Committed, NEW st \in [Task -> TaskStatuses],
           \A p \in Deps[Reconcile] : st[p] \in DoneStatuses
    PROVE  /\ CancelQueued(st)[Reconcile] = st[Reconcile]
           /\ CancelDoomed(st)[Reconcile] = st[Reconcile]
    <1>1. Protected(Reconcile)
        BY DEF Protected, Committed
    <1>2. Reconcile \notin Doomed(st)
        BY NotDoomed, GateAssumption
    <1>3. QED
        BY <1>1, <1>2, GateAssumption DEF CancelQueued, CancelDoomed

\* The end of another task's attempt leaves a committed reconcile alone.
LEMMA OthersSpare ==
    ASSUME TypeOK, Committed, NEW t \in Task, t # Reconcile,
           status[t] = "running", NEW final \in TerminalStatuses
    PROVE  AfterFinish(t, final)[Reconcile] = status[Reconcile]
    <1> DEFINE st == [status EXCEPT ![t] = Stored(t, final)]
    <1>1. st \in [Task -> TaskStatuses]
        BY StoredTyped DEF TypeOK, TaskStatuses, TerminalStatuses
    <1>2. /\ st[Reconcile] = status[Reconcile]
          /\ \A p \in Deps[Reconcile] : p \in Task /\ p # t
        BY GateAssumption, GraphAssumption DEF TypeOK, Committed, DoneStatuses
    <1>3. \A p \in Deps[Reconcile] : st[p] \in DoneStatuses
        BY <1>2 DEF Committed, TypeOK
    <1>4. AfterFinish(t, final) \in {st, CancelQueued(st), CancelDoomed(st)}
        BY DEF AfterFinish
    <1> HIDE DEF st
    <1>5. QED
        BY <1>1, <1>2, <1>3, <1>4, PropagationSpares

\* Where a committed, unsettled reconcile may be after a step.
Alive ==
    \/ status[Reconcile] \in ActiveStatuses
    \/ /\ status[Reconcile] = "failed"
       /\ attempts[Reconcile][epoch[Reconcile]] = "failed"

\* The end of an attempt leaves a committed reconcile waiting, running, settled
\* together with its effect, or failed by its own attempt.
LEMMA CompleteSpares ==
    ASSUME TypeOK, Committed, status[Reconcile] \in ActiveStatuses,
           NEW w \in Worker, NEW t \in Task, Complete(w, t), effect' = effect
    PROVE  Alive'
    <1>1. Valid(w, t) /\ status[t] = "running"
        BY DEF Complete, CommitAttempt, SkipAttempt, FailAttempt, CancelAttempt,
               DeferTask, RetryTask, CommitAttemptWithEffect,
               CommitOutcomeSchedule, CompleteOutcome, Valid
    <1>2. Protected(Reconcile)
        BY DEF Protected, Committed
    <1>3. CASE t # Reconcile
        <2>1. ASSUME NEW final \in TerminalStatuses,
                     FinishPermittedTask(w, t, final)
              PROVE  status'[Reconcile] = status[Reconcile]
            BY <1>1, <1>3, <2>1, OthersSpare DEF FinishPermittedTask
        <2>2. ASSUME NEW delay, NEW row, Requeue(w, t, delay, row)
              PROVE  status'[Reconcile] = status[Reconcile]
            BY <1>3, <2>2, GateAssumption DEF Requeue, TypeOK
        <2>3. CASE CommitOutcomeSchedule(w, t)
            <3> DEFINE st == AfterFinish(t, "succeeded")
            <3>1. status' = [st EXCEPT ![Outcome] = "queued"]
                BY <2>3 DEF CommitOutcomeSchedule
            <3>2. /\ st \in [Task -> TaskStatuses]
                  /\ st[Reconcile] = status[Reconcile]
                BY <1>1, <1>3, AfterFinishTyped, OthersSpare
                   DEF TerminalStatuses
            <3>3. QED
                BY <3>1, <3>2, GateAssumption DEF Alive
        <2>4. {"succeeded", "skipped", "failed", "cancelled"}
                 \subseteq TerminalStatuses
            BY DEF TerminalStatuses
        <2>5. CASE DeferTask(w, t) \/ RetryTask(w, t)
            BY <2>1, <2>2, <2>4, <2>5 DEF DeferTask, RetryTask, Alive
        <2>6. QED
            BY <2>1, <2>3, <2>4, <2>5
               DEF Complete, CommitAttempt, SkipAttempt, FailAttempt,
                   CancelAttempt, CommitAttemptWithEffect, CompleteOutcome,
                   Alive
    <1>4. CASE t = Reconcile
        <2>1. ASSUME FinishPermittedTask(w, t, "failed")
              PROVE  Alive'
            <3>1. Stored(t, "failed") = "failed"
                BY <1>4, GateAssumption DEF Stored
            <3>2. status'[t] = "failed"
                BY <1>1, <2>1, <3>1, FinishEffect
                   DEF FinishPermittedTask, TerminalStatuses
            <3>3. /\ epoch' = epoch
                  /\ attempts'[t] = [attempts[t] EXCEPT ![epoch[t]] = "failed"]
                <4>1. epoch' = epoch /\ attempts' = Closed(t, "failed")
                    BY <2>1, <3>1 DEF FinishPermittedTask
                <4>2. "failed" \in AttemptStatuses
                    BY DEF AttemptStatuses
                <4>3. Closed(t, "failed")[t]
                         = [attempts[t] EXCEPT ![epoch[t]] = "failed"]
                    BY <4>2, ClosedEffect
                <4>4. QED
                    BY <4>1, <4>3
            <3>4. epoch[t] \in DOMAIN attempts[t]
                BY <1>4, GateAssumption DEF Committed, TypeOK
            <3>5. QED
                BY <1>4, <3>2, <3>3, <3>4 DEF Alive
        <2>2. ASSUME NEW delay, NEW row, Requeue(w, t, delay, row)
              PROVE  Alive'
            BY <1>4, <2>2 DEF Requeue, Alive, ActiveStatuses, TypeOK
        <2>3. CASE DeferTask(w, t) \/ RetryTask(w, t) \/ FailAttempt(w, t)
            BY <2>1, <2>2, <2>3 DEF DeferTask, RetryTask, FailAttempt
        <2>4. ~\/ CommitAttempt(w, t) \/ SkipAttempt(w, t)
               \/ CancelAttempt(w, t) \/ CommitOutcomeSchedule(w, t)
               \/ CompleteOutcome(w, t)
            BY <1>2, <1>4, GateAssumption
               DEF CommitAttempt, SkipAttempt, CancelAttempt, Committed,
                   CommitOutcomeSchedule, CompleteOutcome
        <2>5. ~CommitAttemptWithEffect(w, t)
            BY DEF CommitAttemptWithEffect
        <2>6. QED
            BY <2>3, <2>4, <2>5 DEF Complete
    <1>5. QED
        BY <1>3, <1>4

\* A sweep requeues a committed reconcile and never cancels it.
LEMMA RecoverSpares ==
    ASSUME TypeOK, Committed, status[Reconcile] \in ActiveStatuses,
           RecoverExpiredTasks
    PROVE  Alive'
    <1> DEFINE fate(t) == IF t \in Cancels THEN "cancelled"
                          ELSE IF t \in Requeues THEN "queued"
                          ELSE Stored(t, "failed")
               swept == [t \in Task |-> IF t \in Expired THEN fate(t)
                                                         ELSE status[t]]
    <1>1. swept \in [Task -> TaskStatuses]
        BY StoredTyped DEF TypeOK, TaskStatuses, TerminalStatuses
    <1>2. PICK spread \in {swept, CancelDoomed(swept)} :
             status'[Reconcile] \in
                 {spread[Reconcile], CancelQueued(spread)[Reconcile]}
        BY GateAssumption DEF RecoverExpiredTasks
    <1>3. \A p \in Deps[Reconcile] : p \in Task /\ swept[p] = status[p]
        BY GraphAssumption, GateAssumption
           DEF Committed, Expired, DoneStatuses
    <1>4. swept[Reconcile] \in ActiveStatuses
        <2>1. CASE Reconcile \in Expired
            <3>1. Protected(Reconcile)
                BY DEF Protected, Committed
            <3>2. Reconcile \notin Cancels /\ Reconcile \in Requeues
                BY <2>1, <3>1 DEF Cancels, Requeues
            <3>3. QED
                BY <2>1, <3>2, GateAssumption DEF ActiveStatuses
        <2>2. CASE Reconcile \notin Expired
            BY <2>2, GateAssumption
        <2>3. QED
            BY <2>1, <2>2
    <1> HIDE DEF swept
    <1>5. \A p \in Deps[Reconcile] : swept[p] \in DoneStatuses
        BY <1>3 DEF Committed
    <1>6. CancelDoomed(swept)[Reconcile] = swept[Reconcile]
        BY <1>1, <1>5, PropagationSpares
    <1>7. /\ spread \in [Task -> TaskStatuses]
          /\ spread[Reconcile] = swept[Reconcile]
        BY <1>1, <1>2, <1>6, PropagationTyped
    <1>8. \A p \in Deps[Reconcile] : spread[p] \in DoneStatuses
        BY <1>1, <1>2, <1>3, <1>5, PropagationKeeps DEF DoneStatuses
    <1>9. status'[Reconcile] = swept[Reconcile]
        BY <1>2, <1>7, <1>8, PropagationSpares
    <1>10. QED
        BY <1>4, <1>9 DEF Alive

\* Every step that leaves the effect alone keeps a committed reconcile alive.
LEMMA StepSpares ==
    ASSUME TypeOK, Committed, Alive, [Next]_vars, effect' = effect
    PROVE  Alive'
    <1>1. CASE status[Reconcile] = "failed"
        <2>1. Untouched(Reconcile)
            BY <1>1, StepOfTask, GateAssumption DEF Began, Ended
        <2>2. QED
            BY <1>1, <2>1 DEF Untouched, TerminalStatuses, Alive,
                              ActiveStatuses
    <1>2. CASE status[Reconcile] \in ActiveStatuses
        <2>1. ASSUME NEW w \in Worker, NEW t \in Task, ClaimNextTask(w, t)
              PROVE  Alive'
            BY <1>2, <2>1, GateAssumption
               DEF ClaimNextTask, Alive, ActiveStatuses, TypeOK
        <2>2. ASSUME NEW w \in Worker, NEW t \in Task, Complete(w, t)
              PROVE  Alive'
            BY <1>2, <2>2, CompleteSpares
        <2>3. ASSUME status' = status
              PROVE  Alive'
            BY <1>2, <2>3 DEF Alive
        <2>4. ASSUME NEW w \in Worker, NEW t \in Task,
                     \/ HeartbeatTask(w, t)
                     \/ RecordPaperEffectIntent(w, t)
                     \/ SealStage(w, t)
              PROVE  Alive'
            BY <2>3, <2>4 DEF HeartbeatTask, RecordPaperEffectIntent,
                              SealStage, rows
        <2>5. ASSUME NEW w \in Worker, LoseWorker(w) \/ RejectStale(w)
              PROVE  Alive'
            BY <2>3, <2>5 DEF LoseWorker, RejectStale, rows
        <2>6. CASE EnsurePendingOutcomeWorker
            BY <1>2, <2>6, GateAssumption
               DEF EnsurePendingOutcomeWorker, Alive, TypeOK
        <2>7. CASE RequestRunCancel
            BY <1>2, <2>7, PropagationSpares
               DEF RequestRunCancel, Alive, TypeOK, Committed
        <2>8. CASE RecoverExpiredTasks
            BY <1>2, <2>8, RecoverSpares
        <2>9. CASE Tick \/ UNCHANGED vars
            BY <2>3, <2>9 DEF Tick, vars, rows
        <2>10. QED
            BY <2>1, <2>2, <2>4, <2>5, <2>6, <2>7, <2>8, <2>9 DEF Next
    <1>3. QED
        BY <1>1, <1>2 DEF Alive

\* The effect only goes from none to intent, while gate.reconcile runs, and
\* from intent to settled, together with its success.
LEMMA EffectMoves ==
    ASSUME TypeOK, [Next]_vars
    PROVE  \/ effect' = effect
           \/ /\ effect = "none" /\ effect' = "intent"
              /\ status[Reconcile] = "running"
              /\ UNCHANGED <<status, epoch>>
           \/ /\ effect = "intent" /\ effect' = "settled"
              /\ status'[Reconcile] = "succeeded"
    <1> DEFINE P == \/ effect' = effect
                    \/ /\ effect = "none" /\ effect' = "intent"
                       /\ status[Reconcile] = "running"
                       /\ UNCHANGED <<status, epoch>>
                    \/ /\ effect = "intent" /\ effect' = "settled"
                       /\ status'[Reconcile] = "succeeded"
    <1>1. ASSUME NEW w \in Worker, NEW t \in Task,
                 RecordPaperEffectIntent(w, t)
          PROVE  P
        BY <1>1 DEF RecordPaperEffectIntent, rows, Valid
    <1>2. ASSUME NEW w \in Worker, NEW t \in Task,
                 CommitAttemptWithEffect(w, t)
          PROVE  P
        <2>1. /\ t = Reconcile /\ status[t] = "running"
              /\ status' = AfterFinish(t, "succeeded")
              /\ effect = "intent" /\ effect' = "settled"
            BY <1>2 DEF CommitAttemptWithEffect, FinishPermittedTask, Valid
        <2>2. status'[t] = Stored(t, "succeeded")
            BY <2>1, FinishEffect DEF TerminalStatuses
        <2>3. QED
            BY <2>1, <2>2 DEF Stored
    <1>3. ASSUME NEW w \in Worker, NEW t \in Task,
                 Complete(w, t), ~CommitAttemptWithEffect(w, t)
          PROVE  P
        BY <1>3 DEF Complete, CommitAttempt, SkipAttempt, FailAttempt,
                    CancelAttempt, DeferTask, RetryTask,
                    CommitOutcomeSchedule, CompleteOutcome
    <1>4. ASSUME NEW w \in Worker, NEW t \in Task,
                 \/ ClaimNextTask(w, t)
                 \/ HeartbeatTask(w, t)
                 \/ SealStage(w, t)
          PROVE  P
        BY <1>4 DEF ClaimNextTask, HeartbeatTask, SealStage
    <1>5. ASSUME NEW w \in Worker, LoseWorker(w) \/ RejectStale(w)
          PROVE  P
        BY <1>5 DEF LoseWorker, RejectStale
    <1>6. CASE EnsurePendingOutcomeWorker \/ RequestRunCancel
        BY <1>6 DEF EnsurePendingOutcomeWorker, RequestRunCancel
    <1>7. CASE RecoverExpiredTasks \/ Tick \/ UNCHANGED vars
        BY <1>7 DEF RecoverExpiredTasks, Tick, vars
    <1>8. ASSUME NEW w \in Worker, NEW t \in Task, Complete(w, t)
          PROVE  P
        BY <1>2, <1>3, <1>8
    <1>9. QED
        BY <1>1, <1>4, <1>5, <1>6, <1>7, <1>8 DEF Next

\* A recorded effect intent keeps gate.reconcile from every cancellation, for
\* every graph in which the catalogue's assumptions on it hold.  The invariant
\* adds that it was claimed, so its dependencies are done and no failure of
\* another task can reach it.
THEOREM EffectKept == Spec => []EffectKeepsReconcile
    <1> DEFINE Claimed == effect # "none" => epoch[Reconcile] > 0
               Inv == EffectKeepsReconcile /\ Claimed
    <1>1. Init => Inv
        BY DEF Init, EffectKeepsReconcile
    <1>2. TypeOK /\ AttemptRowsAgree /\ StartedAfterDeps /\ Inv /\ [Next]_vars
             => Inv'
        <2> SUFFICES ASSUME TypeOK, AttemptRowsAgree, StartedAfterDeps, Inv,
                            [Next]_vars
                     PROVE  Inv'
            OBVIOUS
        <2>1. /\ effect \in {"none", "intent", "settled"}
              /\ epoch[Reconcile] \in Nat /\ epoch'[Reconcile] \in Nat
              /\ epoch[Reconcile] <= epoch'[Reconcile]
            <3>1. epoch[Reconcile] \in Nat /\ effect \in {"none", "intent", "settled"}
                BY GateAssumption DEF TypeOK
            <3>2. epoch'[Reconcile] \in {epoch[Reconcile], epoch[Reconcile] + 1}
                BY StepOfTask, GateAssumption DEF Untouched, Began, Ended
            <3>3. QED
                BY <3>1, <3>2
        <2>2. CASE effect' = effect /\ effect = "none"
            BY <2>2 DEF EffectKeepsReconcile
        <2>3. CASE effect' = effect /\ effect = "intent"
            <3>1. Committed
                BY <2>3, GateAssumption
                   DEF Committed, AttemptRowsAgree, StartedAfterDeps
            <3>2. Alive
                BY <2>3 DEF EffectKeepsReconcile, Alive
            <3>3. Alive'
                BY <2>3, <3>1, <3>2, StepSpares
            <3>4. QED
                BY <2>1, <2>3, <3>3 DEF EffectKeepsReconcile, Alive
        <2>4. CASE effect' = effect /\ effect = "settled"
            <3>1. status[Reconcile] = "succeeded"
                BY <2>4 DEF EffectKeepsReconcile
            <3>2. status'[Reconcile] = "succeeded"
                BY <3>1, StepOfTask, GateAssumption
                   DEF Untouched, Began, Ended, TerminalStatuses
            <3>3. QED
                BY <2>1, <2>4, <3>2 DEF EffectKeepsReconcile
        <2>5. CASE /\ effect = "none" /\ effect' = "intent"
                   /\ status[Reconcile] = "running"
                   /\ UNCHANGED <<status, epoch>>
            BY <2>5, GateAssumption
               DEF EffectKeepsReconcile, AttemptRowsAgree, ActiveStatuses
        <2>6. CASE /\ effect = "intent" /\ effect' = "settled"
                   /\ status'[Reconcile] = "succeeded"
            BY <2>1, <2>6 DEF EffectKeepsReconcile
        <2>7. QED
            BY <2>1, <2>2, <2>3, <2>4, <2>5, <2>6, EffectMoves
    <1>3. Inv => EffectKeepsReconcile
        OBVIOUS
    <1>4. QED
        BY <1>1, <1>2, <1>3, TypeCorrect, RowsAgree, DepsFirst, PTL DEF Spec
------------------------------------------------------------------------------
(***************************************************************************)
(* The verdict of the Run.                                                 *)
(***************************************************************************)
\* What was finished as succeeded or skipped was claimed before, and the tasks
\* of the graph always have a row.
Ran ==
    \A t \in Task :
        /\ status[t] \in DoneStatuses => epoch[t] > 0
        /\ t # Outcome => status[t] # "absent"

\* An outcome worker is only ever added to a graph that is done.
OutcomeLast ==
    status[Outcome] # "absent" => \A t \in Session : status[t] \in DoneStatuses

VerdictInv == Ran /\ OutcomeLast /\ RunVerdictSound

\* A step keeps what was claimed and what has a row.
LEMMA RanStep ==
    ASSUME TypeOK, AttemptRowsAgree, Ran, [Next]_vars
    PROVE  Ran'
    <1> SUFFICES ASSUME NEW t \in Task
                 PROVE  /\ status'[t] \in DoneStatuses => epoch'[t] > 0
                        /\ t # Outcome => status'[t] # "absent"
        BY DEF Ran
    <1>1. /\ status[t] \in DoneStatuses => epoch[t] > 0
          /\ status[t] = "running" => epoch[t] > 0
          /\ epoch[t] \in Nat
          /\ t # Outcome => status[t] # "absent"
        BY DEF Ran, AttemptRowsAgree, TypeOK
    <1>2. CASE Untouched(t)
        BY <1>1, <1>2 DEF Untouched, DoneStatuses
    <1>3. CASE Began(t)
        BY <1>1, <1>3 DEF Began, DoneStatuses
    <1>4. CASE Ended(t)
        BY <1>1, <1>4 DEF Ended, TerminalStatuses
    <1> QED
        BY <1>2, <1>3, <1>4, StepOfTask

\* When the task that commits the schedule has been claimed, every other task
\* of the graph is done: it comes last.
LEMMA GraphDone ==
    ASSUME StartedAfterDeps, Ran, epoch[Schedule] > 0,
           NEW t \in Session, t # Schedule
    PROVE  status[t] \in DoneStatuses
    <1> DEFINE S == {u \in Task : u = Schedule \/ status[u] \in DoneStatuses}
    <1>1. \A u \in S : epoch[u] > 0
        BY DEF Ran
    <1>2. \A u \in S : Deps[u] \subseteq S
        BY <1>1, GraphAssumption DEF StartedAfterDeps
    <1>3. Schedule \in S /\ S \in SUBSET Task
        BY GateAssumption
    <1> HIDE DEF S
    <1>4. Session \subseteq S
        BY <1>2, <1>3, LastAssumption DEF Session
    <1> QED
        BY <1>4 DEF S

\* A step keeps the statuses that are terminal.
HistoryStep ==
    \A t \in Task : status[t] \in TerminalStatuses => status'[t] = status[t]

\* The verdict over a graph whose last task has just succeeded.
LEMMA DoneVerdict ==
    ASSUME NEW st, \A t \in Session : st[t] \in DoneStatuses,
           st[Outcome] = "absent"
    PROVE  RefreshedRun(st) = "completed"
    <1>1. \A t \in Task : st[t] \in DoneStatuses \cup {"absent"}
        BY DEF Session
    <1>2. Active(st) = {}
        BY <1>1 DEF Active, ActiveStatuses, DoneStatuses
    <1>3. Schedule \in Session
        BY GateAssumption DEF Session
    <1> QED
        BY <1>1, <1>2, <1>3, GateAssumption DEF RefreshedRun, DoneStatuses

\* How one transaction treats the Run status.  It keeps it and which tasks of
\* the graph are active,
Keeps ==
    /\ runStatus' = runStatus
       \/ (runStatus = "queued" /\ runStatus' = "running")
    /\ \A t \in Session : t \in Active(status') <=> t \in Active(status)
    /\ status[Outcome] = "absent" => status'[Outcome] = "absent"

\* or judges the task rows it leaves, for the end of a task of the graph or
\* the first cancel request,
Judges ==
    /\ runStatus' = RefreshedRun(status')
    /\ status[Outcome] = "absent" => status'[Outcome] = "absent"
    /\ \/ Active(status) \cap Session # {}
       \/ /\ ~cancelled /\ cancelled'
          /\ status'[Outcome] = "failed" => status[Outcome] = "failed"

\* or commits the schedule, and judges before it adds the outcome worker.
Schedules ==
    \E st \in [Task -> TaskStatuses] :
        /\ status[Schedule] = "running"
        /\ st[Schedule] = "succeeded"
        /\ \A t \in Session \ {Schedule} :
              status[t] \in DoneStatuses => st[t] = status[t]
        /\ st[Outcome] = "absent"
        /\ status' = [st EXCEPT ![Outcome] = "queued"]
        /\ runStatus' = RefreshedRun(st)

\* The end of an attempt: of a task of the graph it is judged, of the outcome
\* worker it is not.
LEMMA FinishJudged ==
    ASSUME TypeOK, NEW w \in Worker, NEW t \in Task, Valid(w, t),
           NEW final \in TerminalStatuses, FinishPermittedTask(w, t, final)
    PROVE  Keeps \/ Judges
    <1> DEFINE st == AfterFinish(t, final)
    <1>1. /\ status' = st
          /\ runStatus' = VerdictAfter(t, st)
          /\ cancelled' = cancelled
          /\ status[t] = "running"
        BY DEF FinishPermittedTask, Valid
    <1>2. CASE t = Outcome
        <2>1. st = [status EXCEPT ![t] = Stored(t, final)]
            BY <1>2 DEF AfterFinish
        <2>2. \A u \in Session : st[u] = status[u]
            BY <1>2, <2>1 DEF Session, TypeOK
        <2>3. runStatus' = runStatus
            BY <1>1, <1>2 DEF VerdictAfter
        <2>4. status[Outcome] # "absent"
            BY <1>1, <1>2
        <2> QED
            BY <1>1, <2>2, <2>3, <2>4 DEF Keeps, Active, Session
    <1>3. CASE t # Outcome
        <2>1. t \in Active(status) \cap Session
            BY <1>1, <1>3 DEF Active, Session, ActiveStatuses
        <2>2. status[Outcome] = "absent" => st[Outcome] = "absent"
            BY <1>1, <1>3, FinishEffect, GateAssumption
        <2> QED
            BY <1>1, <1>3, <2>1, <2>2 DEF Judges, VerdictAfter
    <1> QED
        BY <1>2, <1>3

\* A requeue is not judged: its task stays active.
LEMMA RequeueJudged ==
    ASSUME TypeOK, NEW w \in Worker, NEW t \in Task, Valid(w, t),
           NEW delay, NEW row, Requeue(w, t, delay, row)
    PROVE  Keeps
    <1>1. /\ status' = [status EXCEPT ![t] = "queued"]
          /\ runStatus' = runStatus
          /\ status[t] = "running"
        BY DEF Requeue, Valid
    <1> QED
        BY <1>1 DEF Keeps, Active, ActiveStatuses, TypeOK, Session

\* The commit of the schedule.
LEMMA ScheduleJudged ==
    ASSUME TypeOK, NEW w \in Worker, NEW t \in Task,
           CommitOutcomeSchedule(w, t)
    PROVE  Schedules
    <1> DEFINE st == AfterFinish(t, "succeeded")
    <1>1. /\ t = Schedule
          /\ status[t] = "running"
          /\ status[Outcome] = "absent"
          /\ status' = [st EXCEPT ![Outcome] = "queued"]
          /\ runStatus' = RefreshedRun(st)
        BY DEF CommitOutcomeSchedule, Valid
    <1>2. "succeeded" \in TerminalStatuses
        BY DEF TerminalStatuses
    <1>3. /\ st \in [Task -> TaskStatuses]
          /\ st[t] = "succeeded"
        BY <1>1, <1>2, AfterFinishTyped, FinishEffect DEF Stored
    <1>4. \A u \in Task : u # t /\ status[u] # "queued" => st[u] = status[u]
        BY <1>1, <1>2, FinishEffect
    <1>5. st[Outcome] = "absent"
        BY <1>1, <1>4, GateAssumption
    <1>6. \A u \in Session \ {Schedule} :
             status[u] \in DoneStatuses => st[u] = status[u]
        BY <1>1, <1>4 DEF DoneStatuses, Session
    <1> HIDE DEF st
    <1> QED
        BY <1>1, <1>3, <1>5, <1>6 DEF Schedules

\* Every completion of an attempt.
LEMMA CompleteJudged ==
    ASSUME TypeOK, NEW w \in Worker, NEW t \in Task, Complete(w, t)
    PROVE  Keeps \/ Judges \/ Schedules
    <1>1. Valid(w, t)
        BY DEF Complete, CommitAttempt, SkipAttempt, FailAttempt, CancelAttempt,
               DeferTask, RetryTask, CommitAttemptWithEffect,
               CommitOutcomeSchedule, CompleteOutcome
    <1>2. ASSUME NEW final \in TerminalStatuses, FinishPermittedTask(w, t, final)
          PROVE  Keeps \/ Judges
        BY <1>1, <1>2, FinishJudged
    <1>3. ASSUME NEW delay, NEW row, Requeue(w, t, delay, row)
          PROVE  Keeps
        BY <1>1, <1>3, RequeueJudged
    <1>4. CASE CommitOutcomeSchedule(w, t)
        BY <1>4, ScheduleJudged
    <1>5. {"succeeded", "skipped", "failed", "cancelled"} \subseteq TerminalStatuses
        BY DEF TerminalStatuses
    <1>6. CASE DeferTask(w, t) \/ RetryTask(w, t)
        BY <1>2, <1>3, <1>5, <1>6 DEF DeferTask, RetryTask
    <1> QED
        BY <1>2, <1>4, <1>5, <1>6
           DEF Complete, CommitAttempt, SkipAttempt, FailAttempt, CancelAttempt,
               CommitAttemptWithEffect, CompleteOutcome

\* A sweep judges unless it only requeued tasks or touched the outcome worker.
LEMMA RecoverJudged ==
    ASSUME TypeOK, RecoverExpiredTasks
    PROVE  Keeps \/ Judges
    <1> DEFINE fate(t) == IF t \in Cancels THEN "cancelled"
                          ELSE IF t \in Requeues THEN "queued"
                          ELSE Stored(t, "failed")
               swept == [t \in Task |-> IF t \in Expired THEN fate(t)
                                                         ELSE status[t]]
               failing == {t \in Exhausts : fate(t) = "failed" /\ t # Outcome}
    <1>1. CASE Expired \subseteq Requeues \cup {Outcome}
        <2>1. failing = {}
            BY <1>1 DEF Exhausts
        <2>2. status' = swept
            BY <2>1 DEF RecoverExpiredTasks, TypeOK, TaskStatuses
        <2>3. \A t \in Session : t \in Expired => /\ status[t] = "running"
                                                 /\ swept[t] = "queued"
            BY <1>1 DEF Session, Requeues, Expired
        <2>4. \A t \in Session : t \notin Expired => swept[t] = status[t]
            BY DEF Session
        <2>5. runStatus' = runStatus
            BY <1>1 DEF RecoverExpiredTasks
        <2>6. status[Outcome] = "absent" => status'[Outcome] = "absent"
            BY <2>2, GateAssumption DEF Expired
        <2>7. \A t \in Session : t \in Active(status') <=> t \in Active(status)
            BY <2>2, <2>3, <2>4 DEF Active, ActiveStatuses, Session
        <2> QED
            BY <2>5, <2>6, <2>7 DEF Keeps
    <1>2. CASE ~(Expired \subseteq Requeues \cup {Outcome})
        <2>1. runStatus' = RefreshedRun(status')
            BY <1>2 DEF RecoverExpiredTasks
        <2>2. PICK t \in Expired : t # Outcome
            BY <1>2
        <2>3. t \in Active(status) \cap Session
            BY <2>2 DEF Active, Session, ActiveStatuses, Expired
        <2>4. status[Outcome] = "absent" => status'[Outcome] = "absent"
            <3>1. PICK spread \in {swept, CancelDoomed(swept)} :
                     status'[Outcome] \in
                         {spread[Outcome], CancelQueued(spread)[Outcome]}
                BY GateAssumption DEF RecoverExpiredTasks
            <3>2. swept \in [Task -> TaskStatuses]
                BY StoredTyped DEF TypeOK, TaskStatuses, TerminalStatuses
            <3>3. status[Outcome] = "absent" => swept[Outcome] = "absent"
                BY GateAssumption DEF Expired
            <3> HIDE DEF swept
            <3>4. spread \in [Task -> TaskStatuses]
                BY <3>1, <3>2, PropagationTyped
            <3> QED
                BY <3>1, <3>2, <3>3, <3>4, PropagationKeeps, GateAssumption
        <2> QED
            BY <2>1, <2>3, <2>4 DEF Judges
    <1> QED
        BY <1>1, <1>2

\* Every step treats the Run status in one of the three ways.
LEMMA StepJudged ==
    ASSUME TypeOK, VerdictInv, [Next]_vars
    PROVE  \/ Keeps \/ Judges \/ Schedules
           \/ (UNCHANGED runStatus /\ status[Schedule] = "succeeded"
                 /\ \A t \in Session : status'[t] = status[t])
    <1>1. ASSUME NEW w \in Worker, NEW t \in Task, ClaimNextTask(w, t)
          PROVE  Keeps
        <2>1. /\ status' = [status EXCEPT ![t] = "running"]
              /\ status[t] = "queued"
              /\ runStatus' = IF runStatus = "queued" THEN "running"
                                                      ELSE runStatus
            BY <1>1 DEF ClaimNextTask
        <2> QED
            BY <2>1 DEF Keeps, Active, ActiveStatuses, TypeOK, Session
    <1>2. ASSUME NEW w \in Worker, NEW t \in Task,
                 \/ HeartbeatTask(w, t)
                 \/ RecordPaperEffectIntent(w, t)
                 \/ SealStage(w, t)
          PROVE  Keeps
        BY <1>2 DEF HeartbeatTask, RecordPaperEffectIntent, SealStage, rows,
                    run, Keeps, Active
    <1>3. ASSUME NEW w \in Worker, LoseWorker(w) \/ RejectStale(w)
          PROVE  Keeps
        BY <1>3 DEF LoseWorker, RejectStale, rows, run, Keeps, Active
    <1>4. CASE EnsurePendingOutcomeWorker
        BY <1>4 DEF EnsurePendingOutcomeWorker, TypeOK, Session
    <1>5. CASE RequestRunCancel
        <2>1. status[Outcome] = "absent" => status'[Outcome] = "absent"
            BY <1>5, PropagationKeeps, GateAssumption
               DEF RequestRunCancel, TypeOK
        <2>2. status'[Outcome] = "failed" => status[Outcome] = "failed"
            BY <1>5, GateAssumption DEF RequestRunCancel, CancelQueued
        <2> QED
            BY <1>5, <2>1, <2>2 DEF RequestRunCancel, Judges
    <1>6. CASE RecoverExpiredTasks
        BY <1>6, RecoverJudged
    <1>7. CASE Tick \/ UNCHANGED vars
        BY <1>7 DEF Tick, vars, rows, run, Keeps, Active
    <1>8. ASSUME NEW w \in Worker, NEW t \in Task, Complete(w, t)
          PROVE  Keeps \/ Judges \/ Schedules
        BY <1>8, CompleteJudged
    <1> QED
        BY <1>1, <1>2, <1>3, <1>4, <1>5, <1>6, <1>7, <1>8 DEF Next

\* A verdict once given fits the task rows for good: they are all terminal.
LEMMA VerdictLasts ==
    ASSUME TypeOK, Ran, HistoryStep, RunVerdictSound,
           runStatus \in Finals, runStatus' = runStatus
    PROVE  RunVerdictSound'
    <1>1. \A t \in Session : status[t] \in TerminalStatuses
        BY DEF RunVerdictSound, Active, Session, Ran, TypeOK, TaskStatuses,
               ActiveStatuses, TerminalStatuses
    <1>2. \A t \in Session : status'[t] = status[t]
        BY <1>1 DEF HistoryStep, Session
    <1>3. Active(status') \cap Session = {}
        BY <1>2 DEF RunVerdictSound, Active, Session
    <1>4. \A t \in Task : status[t] = "failed" => status'[t] = "failed"
        BY DEF HistoryStep, TerminalStatuses
    <1> QED
        BY <1>2, <1>3, <1>4 DEF RunVerdictSound

\* A Run with an active task of its graph has no final verdict.
LEMMA OpenStays ==
    ASSUME TypeOK, RunVerdictSound, runStatus \notin Finals,
           runStatus' \notin Finals, Active(status') \cap Session # {}
    PROVE  RunVerdictSound'
    BY DEF RunVerdictSound, Finals

\* The outcome worker is added to a graph that is done, which stays so.
LEMMA OutcomeLastStep ==
    ASSUME TypeOK, StartedAfterDeps, AttemptRowsAgree, VerdictInv, HistoryStep,
           Keeps \/ Judges \/ Schedules \/ status[Schedule] = "succeeded"
    PROVE  OutcomeLast'
    <1>1. ASSUME NEW t \in Session, status[t] \in DoneStatuses
          PROVE  status'[t] \in DoneStatuses
        BY <1>1 DEF HistoryStep, Session, DoneStatuses, TerminalStatuses
    <1>2. CASE status[Outcome] # "absent"
        BY <1>1, <1>2 DEF VerdictInv, OutcomeLast
    <1>3. CASE status[Schedule] = "succeeded"
        <2>1. epoch[Schedule] > 0
            BY <1>3, GateAssumption DEF VerdictInv, Ran, DoneStatuses
        <2>2. \A t \in Session : status[t] \in DoneStatuses
            BY <1>3, <2>1, GraphDone DEF VerdictInv, DoneStatuses
        <2> QED
            BY <1>1, <2>2 DEF OutcomeLast
    <1>4. CASE Schedules
        <2>1. PICK st \in [Task -> TaskStatuses] :
                 /\ status[Schedule] = "running"
                 /\ st[Schedule] = "succeeded"
                 /\ \A t \in Session \ {Schedule} :
                       status[t] \in DoneStatuses => st[t] = status[t]
                 /\ status' = [st EXCEPT ![Outcome] = "queued"]
            BY <1>4 DEF Schedules
        <2>2. epoch[Schedule] > 0
            BY <2>1, GateAssumption DEF AttemptRowsAgree
        <2>3. \A t \in Session \ {Schedule} : status[t] \in DoneStatuses
            BY <2>2, GraphDone DEF VerdictInv
        <2>4. \A t \in Session : st[t] \in DoneStatuses
            BY <2>1, <2>3 DEF DoneStatuses
        <2>5. \A t \in Session : status'[t] = st[t]
            BY <2>1 DEF Session
        <2> QED
            BY <2>4, <2>5 DEF OutcomeLast
    <1>5. CASE (Keeps \/ Judges) /\ status[Outcome] = "absent"
        BY <1>5 DEF Keeps, Judges, OutcomeLast
    <1> QED
        BY <1>2, <1>3, <1>4, <1>5

\* A step that keeps the Run status.
LEMMA KeepsVerdict ==
    ASSUME TypeOK, VerdictInv, HistoryStep, Keeps
    PROVE  RunVerdictSound'
    <1>1. CASE runStatus \in Finals
        BY <1>1, VerdictLasts DEF VerdictInv, Keeps, Finals
    <1>2. CASE runStatus \notin Finals
        <2>1. runStatus' \notin Finals
            BY <1>2 DEF Keeps, Finals
        <2>2. Active(status) \cap Session # {}
            BY <1>2 DEF VerdictInv, RunVerdictSound
        <2>3. Active(status') \cap Session # {}
            BY <2>2 DEF Keeps
        <2> QED
            BY <1>2, <2>1, <2>3, OpenStays DEF VerdictInv
    <1> QED
        BY <1>1, <1>2

\* A step that judges the rows it leaves.
LEMMA JudgesVerdict ==
    ASSUME TypeOK, TypeOK', VerdictInv, Ran', OutcomeLast', HistoryStep, Judges
    PROVE  RunVerdictSound'
    <1>1. CASE Active(status') = {}
        <2>1. runStatus' = IF \E t \in Task : status'[t] = "failed" THEN "failed"
                           ELSE IF \A t \in Task :
                                      status'[t] \in {"absent", "cancelled"}
                           THEN "cancelled" ELSE "completed"
            BY <1>1 DEF Judges, RefreshedRun
        <2>2. \A t \in Session : status'[t] # "absent"
            BY DEF Ran, Session
        <2>3. ASSUME runStatus' = "completed"
              PROVE  \E t \in Session : status'[t] \in DoneStatuses
            <3>1. PICK t \in Task : status'[t] \notin {"absent", "cancelled"}
                BY <2>1, <2>3
            <3>2. status'[t] \in DoneStatuses
                BY <1>1, <2>1, <2>3, <3>1 DEF Active, ActiveStatuses, TypeOK,
                   TaskStatuses, DoneStatuses
            <3>3. CASE t = Outcome
                BY <3>1, <3>3, GateAssumption DEF OutcomeLast, Session
            <3> QED
                BY <3>2, <3>3 DEF Session
        <2>4. \/ runStatus' = "failed" /\ \E t \in Task : status'[t] = "failed"
              \/ /\ runStatus' \in {"cancelled", "completed"}
                 /\ \A t \in Task : status'[t] # "failed"
            BY <2>1
        <2>5. runStatus' = "cancelled" => \A t \in Session : status'[t] = "cancelled"
            BY <2>1, <2>2 DEF Session
        <2> QED
            BY <1>1, <2>3, <2>4, <2>5 DEF RunVerdictSound, Finals, Session
    <1>2. CASE Active(status') # {}
        <2>1. runStatus' = runStatus
            BY <1>2 DEF Judges, RefreshedRun
        <2>2. CASE runStatus \in Finals
            BY <2>1, <2>2, VerdictLasts DEF VerdictInv
        <2>3. CASE runStatus \notin Finals
            <3>1. PICK t \in Session : t \in Active(status)
                BY <2>3 DEF VerdictInv, RunVerdictSound
            <3>2. status[t] \notin DoneStatuses
                BY <3>1 DEF Active, ActiveStatuses, DoneStatuses
            <3>3. status'[Outcome] = "absent"
                BY <3>1, <3>2 DEF VerdictInv, OutcomeLast, Judges
            <3>4. Outcome \notin Active(status')
                BY <3>3 DEF Active, ActiveStatuses
            <3>5. Active(status') \cap Session # {}
                BY <1>2, <3>4 DEF Active, Session
            <3> QED
                BY <2>1, <2>3, <3>5, OpenStays DEF VerdictInv
        <2> QED
            BY <2>2, <2>3
    <1> QED
        BY <1>1, <1>2

\* The commit of the schedule completes the Run.
LEMMA SchedulesVerdict ==
    ASSUME TypeOK, StartedAfterDeps, AttemptRowsAgree, VerdictInv, Schedules
    PROVE  RunVerdictSound'
    <1>1. PICK st \in [Task -> TaskStatuses] :
             /\ status[Schedule] = "running"
             /\ st[Schedule] = "succeeded"
             /\ \A t \in Session \ {Schedule} :
                   status[t] \in DoneStatuses => st[t] = status[t]
             /\ st[Outcome] = "absent"
             /\ status' = [st EXCEPT ![Outcome] = "queued"]
             /\ runStatus' = RefreshedRun(st)
        BY DEF Schedules
    <1>2. epoch[Schedule] > 0
        BY <1>1, GateAssumption DEF AttemptRowsAgree
    <1>3. \A t \in Session \ {Schedule} : status[t] \in DoneStatuses
        BY <1>2, GraphDone DEF VerdictInv
    <1>4. \A t \in Session : st[t] \in DoneStatuses
        BY <1>1, <1>3 DEF DoneStatuses
    <1>5. runStatus' = "completed"
        BY <1>1, <1>4, DoneVerdict
    <1>6. \A t \in Session : status'[t] \in DoneStatuses
        BY <1>1, <1>4 DEF Session
    <1>7. Schedule \in Session
        BY GateAssumption DEF Session
    <1> QED
        BY <1>5, <1>6, <1>7
           DEF RunVerdictSound, Finals, Active, ActiveStatuses, DoneStatuses,
               Session

\* The verdict invariant is kept by every step.
LEMMA VerdictStep ==
    ASSUME TypeOK, TypeOK', StartedAfterDeps, AttemptRowsAgree, VerdictInv,
           HistoryStep, [Next]_vars
    PROVE  VerdictInv'
    <1>1. Ran'
        BY RanStep DEF VerdictInv
    <1>2. \/ Keeps \/ Judges \/ Schedules
          \/ (UNCHANGED runStatus /\ status[Schedule] = "succeeded"
                /\ \A t \in Session : status'[t] = status[t])
        BY StepJudged
    <1>3. OutcomeLast'
        BY <1>2, OutcomeLastStep
    <1> SUFFICES RunVerdictSound'
        BY <1>1, <1>3 DEF VerdictInv
    <1>4. CASE Keeps
        BY <1>4, KeepsVerdict
    <1>5. CASE Judges
        BY <1>1, <1>3, <1>5, JudgesVerdict
    <1>6. CASE Schedules
        BY <1>6, SchedulesVerdict
    <1>7. CASE /\ UNCHANGED runStatus /\ status[Schedule] = "succeeded"
               /\ \A t \in Session : status'[t] = status[t]
        <2>1. epoch[Schedule] > 0
            BY <1>7, GateAssumption DEF VerdictInv, Ran, DoneStatuses
        <2>2. \A t \in Session : status[t] \in DoneStatuses
            BY <1>7, <2>1, GraphDone DEF VerdictInv, DoneStatuses
        <2>3. Active(status) \cap Session = {}
            BY <2>2 DEF Active, ActiveStatuses, DoneStatuses
        <2> QED
            BY <1>7, <2>3, VerdictLasts DEF VerdictInv, RunVerdictSound
    <1> QED
        BY <1>2, <1>4, <1>5, <1>6, <1>7

\* No step changes a task row that is terminal.
LEMMA StepKeepsHistory ==
    ASSUME TypeOK, [Next]_vars
    PROVE  HistoryStep
    <1> SUFFICES ASSUME NEW t \in Task, status[t] \in TerminalStatuses
                 PROVE  status'[t] = status[t]
        BY DEF HistoryStep
    <1> QED
        BY StepOfTask DEF Untouched, Began, Ended, TerminalStatuses

\* The invariant holds in every state.
LEMMA VerdictHolds == Spec => []VerdictInv
    <1>1. Init => VerdictInv
        <2> SUFFICES ASSUME Init
                     PROVE  VerdictInv
            OBVIOUS
        <2>1. \A t \in Session : status[t] = "queued"
            BY DEF Init, Session
        <2>2. Schedule \in Active(status) \cap Session
            BY <2>1, GateAssumption DEF Active, ActiveStatuses, Session
        <2>3. runStatus = "queued" /\ status[Outcome] = "absent"
            BY GateAssumption DEF Init
        <2> QED
            BY <2>1, <2>2, <2>3 DEF VerdictInv, Ran, OutcomeLast,
               RunVerdictSound, Finals, Session, DoneStatuses
    <1>2. TypeOK /\ TypeOK' /\ StartedAfterDeps /\ AttemptRowsAgree
             /\ VerdictInv /\ HistoryStep /\ [Next]_vars => VerdictInv'
        BY VerdictStep
    <1>3. TypeOK /\ [Next]_vars => HistoryStep
        BY StepKeepsHistory
    <1> QED
        BY <1>1, <1>2, <1>3, TypeCorrect, DepsFirst, RowsAgree, PTL DEF Spec

\* The Run status is final exactly when no task of the graph is left to run,
\* and it is the verdict refresh_run_status promises, for every graph whose
\* last task commits the schedule.
THEOREM VerdictSound == Spec => []RunVerdictSound
    <1>1. VerdictInv => RunVerdictSound
        BY DEF VerdictInv
    <1> QED
        BY <1>1, VerdictHolds, PTL

\* A judgement of the first cancel request, whose graph is done: it can only
\* make a completed Run failed, for its outcome worker.
LEMMA JudgedAgain ==
    ASSUME TypeOK, VerdictInv, HistoryStep, Judges,
           runStatus \in Finals, runStatus' # runStatus
    PROVE  FailedByFirstCancel
    <1>1. Active(status) \cap Session = {}
        BY DEF VerdictInv, RunVerdictSound
    <1>2. /\ ~cancelled /\ cancelled'
          /\ status'[Outcome] = "failed" => status[Outcome] = "failed"
        BY <1>1 DEF Judges
    <1>3. \A t \in Session : status'[t] = status[t]
        <2>1. \A t \in Session : status[t] \in TerminalStatuses
            BY <1>1 DEF Active, Session, VerdictInv, Ran, TypeOK,
               TaskStatuses, ActiveStatuses, TerminalStatuses
        <2> QED
            BY <2>1 DEF HistoryStep, Session
    <1>4. runStatus' = IF \E t \in Task : status'[t] = "failed" THEN "failed"
                       ELSE IF \A t \in Task :
                                  status'[t] \in {"absent", "cancelled"}
                       THEN "cancelled" ELSE "completed"
        BY DEF Judges, RefreshedRun
    <1>5. runStatus # "failed"
        <2>1. \A t \in Task : status[t] = "failed" => status'[t] = "failed"
            BY DEF HistoryStep, TerminalStatuses
        <2> QED
            BY <1>4, <2>1 DEF VerdictInv, RunVerdictSound
    <1>6. runStatus # "cancelled"
        <2> SUFFICES ASSUME runStatus = "cancelled"
                     PROVE  FALSE
            OBVIOUS
        <2>1. \A t \in Session : status[t] = "cancelled"
            BY DEF VerdictInv, RunVerdictSound
        <2>2. Schedule \in Session
            BY GateAssumption DEF Session
        <2>3. status'[Outcome] = "absent"
            BY <2>1, <2>2 DEF VerdictInv, OutcomeLast, DoneStatuses, Judges
        <2>4. \A t \in Task : status'[t] \in {"absent", "cancelled"}
            BY <1>3, <2>1, <2>3 DEF Session
        <2> QED
            BY <1>4, <2>4
    <1>7. runStatus = "completed"
        BY <1>5, <1>6 DEF Finals
    <1>8. /\ \A t \in Session : status'[t] # "failed"
          /\ \E t \in Session : status'[t] \in DoneStatuses
        BY <1>3, <1>7 DEF VerdictInv, RunVerdictSound
    <1>9. runStatus' = "failed"
        BY <1>4, <1>7, <1>8 DEF Session, DoneStatuses
    <1>10. status'[Outcome] = "failed"
        BY <1>4, <1>8, <1>9 DEF Session
    <1> QED
        BY <1>2, <1>7, <1>9, <1>10 DEF FailedByFirstCancel

\* A final Run status stays whatever the outcome worker, its retries and its
\* failure do; only the first cancel request of a completed Run whose outcome
\* worker failed changes it, to failed.
THEOREM VerdictStands == Spec => VerdictSurvivesOutcome
    <1> DEFINE A == (runStatus \in Finals /\ runStatus' # runStatus)
                       => FailedByFirstCancel
    <1>1. TypeOK /\ AttemptRowsAgree /\ StartedAfterDeps /\ VerdictInv
             /\ [Next]_vars => A
        <2> SUFFICES ASSUME TypeOK, AttemptRowsAgree, StartedAfterDeps,
                            VerdictInv, [Next]_vars,
                            runStatus \in Finals, runStatus' # runStatus
                     PROVE  FailedByFirstCancel
            OBVIOUS
        <2>1. HistoryStep
            BY StepKeepsHistory
        <2>2. ~Keeps
            BY DEF Keeps, Finals
        <2>3. ~Schedules
            <3>1. Active(status) \cap Session = {}
                BY DEF VerdictInv, RunVerdictSound
            <3>2. status[Schedule] # "running"
                BY <3>1, GateAssumption DEF Active, ActiveStatuses, Session
            <3> QED
                BY <3>2 DEF Schedules
        <2>4. Judges
            BY <2>2, <2>3, StepJudged
        <2> QED
            BY <2>1, <2>4, JudgedAgain
    <1>2. TypeOK /\ AttemptRowsAgree /\ StartedAfterDeps /\ VerdictInv
             /\ [Next]_vars => [A]_vars
        BY <1>1
    <1> QED
        BY <1>2, TypeCorrect, RowsAgree, DepsFirst, VerdictHolds, PTL
           DEF Spec, VerdictSurvivesOutcome
------------------------------------------------------------------------------
(***************************************************************************)
(* The failure budget.                                                     *)
(***************************************************************************)
\* The attempt rows of q after position k that spent budget.
Spent(q, k) == {i \in DOMAIN q : i > k /\ q[i] \in SpentStatuses}

\* They are finitely many, and none when the history ends at k.
LEMMA SpentFinite ==
    ASSUME NEW S, NEW q \in Seq(S), NEW k \in Nat
    PROVE  /\ IsFiniteSet(Spent(q, k))
           /\ Cardinality(Spent(q, k)) \in Nat
           /\ Len(q) <= k => Cardinality(Spent(q, k)) = 0
    <1>1. DOMAIN q = 1..Len(q) /\ Len(q) \in Nat
        BY LenProperties
    <1>2. Spent(q, k) \in SUBSET (1..Len(q))
        BY <1>1 DEF Spent
    <1>3. IsFiniteSet(1..Len(q))
        BY <1>1, FS_Interval
    <1>4. IsFiniteSet(Spent(q, k))
        BY <1>2, <1>3, FS_Subset
    <1>5. Len(q) <= k => Spent(q, k) = {}
        BY <1>1 DEF Spent
    <1> QED
        BY <1>4, <1>5, FS_CardinalityType, FS_EmptySet

\* A new row spends at most one attempt.
LEMMA SpentAppend ==
    ASSUME NEW S, NEW q \in Seq(S), NEW x \in S, NEW k \in Nat
    PROVE  Cardinality(Spent(Append(q, x), k)) <= Cardinality(Spent(q, k)) + 1
    <1> DEFINE n == Len(q) + 1
               U == Spent(q, k) \cup {n}
    <1>1. /\ Append(q, x) \in Seq(S)
          /\ DOMAIN Append(q, x) = 1..n
          /\ DOMAIN q = 1..Len(q) /\ Len(q) \in Nat
          /\ \A i \in 1..Len(q) : Append(q, x)[i] = q[i]
        BY AppendProperties, LenProperties
    <1>2. Spent(Append(q, x), k) \in SUBSET U
        BY <1>1 DEF Spent
    <1>3. /\ IsFiniteSet(Spent(q, k))
          /\ Cardinality(Spent(q, k)) \in Nat
        BY SpentFinite
    <1>4. /\ IsFiniteSet(U)
          /\ Cardinality(U) <= Cardinality(Spent(q, k)) + 1
        <2>1. ASSUME NEW Q, NEW y, IsFiniteSet(Q)
              PROVE  /\ IsFiniteSet(Q \cup {y})
                     /\ Cardinality(Q \cup {y}) <= Cardinality(Q) + 1
            <3>1. Cardinality(Q) \in Nat
                BY <2>1, FS_CardinalityType
            <3>2. /\ IsFiniteSet(Q \cup {y})
                  /\ Cardinality(Q \cup {y}) = IF y \in Q THEN Cardinality(Q)
                                               ELSE Cardinality(Q) + 1
                BY <2>1, FS_AddElement, Zenon
            <3> QED
                BY <3>1, <3>2
        <2> QED
            BY <1>3, <2>1
    <1>5. /\ Cardinality(Spent(Append(q, x), k)) <= Cardinality(U)
          /\ Cardinality(Spent(Append(q, x), k)) \in Nat
          /\ Cardinality(U) \in Nat
        BY <1>1, <1>2, <1>4, FS_Subset, FS_CardinalityType, SpentFinite
    <1> QED
        BY <1>3, <1>4, <1>5

\* Closing the last, running row never spends more; closing it as a deferral
\* gives its attempt back, if it counted at all.
LEMMA SpentClose ==
    ASSUME NEW S, NEW q \in Seq(S), NEW x \in S, NEW k \in Nat, Len(q) > 0,
           q[Len(q)] = "running"
    PROVE  LET p == [q EXCEPT ![Len(q)] = x]
           IN  /\ Cardinality(Spent(p, k)) <= Cardinality(Spent(q, k))
               /\ x \notin SpentStatuses =>
                    \/ Cardinality(Spent(p, k)) = 0
                    \/ Cardinality(Spent(p, k)) < Cardinality(Spent(q, k))
    <1> DEFINE n == Len(q)
               p == [q EXCEPT ![n] = x]
    <1>1. /\ DOMAIN q = 1..n /\ n \in Nat /\ n \in 1..n
          /\ p \in Seq(S) /\ Len(p) = n /\ DOMAIN p = 1..n
          /\ p[n] = x
          /\ \A i \in 1..n : i # n => p[i] = q[i]
        BY LenProperties, OverwriteTyped
    <1>2. q[n] \in SpentStatuses
        BY DEF SpentStatuses
    <1> HIDE DEF p
    <1>3. Spent(p, k) \in SUBSET Spent(q, k)
        BY <1>1, <1>2 DEF Spent
    <1>4. /\ IsFiniteSet(Spent(q, k))
          /\ Cardinality(Spent(q, k)) \in Nat
          /\ Cardinality(Spent(p, k)) \in Nat
          /\ Cardinality(Spent(p, k)) <= Cardinality(Spent(q, k))
        BY <1>1, <1>3, SpentFinite, FS_Subset
    <1>5. ASSUME x \notin SpentStatuses, n > k
          PROVE  Cardinality(Spent(p, k)) < Cardinality(Spent(q, k))
        <2>1. n \in Spent(q, k) /\ n \notin Spent(p, k)
            BY <1>1, <1>2, <1>5 DEF Spent
        <2>2. Cardinality(Spent(p, k)) # Cardinality(Spent(q, k))
            BY <1>3, <1>4, <2>1, FS_Subset
        <2> QED
            BY <1>4, <2>2
    <1>6. ASSUME ~(n > k)
          PROVE  Cardinality(Spent(p, k)) = 0
        <2>1. Len(p) = n /\ n \in Nat
            BY <1>1
        <2>2. Len(p) <= k
            BY <1>6, <2>1
        <2> QED
            BY <1>1, <2>2, SpentFinite
    <1>7. /\ Cardinality(Spent(p, k)) <= Cardinality(Spent(q, k))
          /\ x \notin SpentStatuses =>
               \/ Cardinality(Spent(p, k)) = 0
               \/ Cardinality(Spent(p, k)) < Cardinality(Spent(q, k))
        BY <1>4, <1>5, <1>6
    <1> QED
        BY <1>7 DEF p

\* The budget of one task: not exceeded, and not used up while it waits.
BudgetOf(t) ==
    ~Protected(t) =>
        /\ FailureAttempts(t) <= MaxAttempts[t]
        /\ status[t] \in {"queued", "absent"} =>
              FailureAttempts(t) < MaxAttempts[t]

\* A running attempt goes back to the queue as a deferral, or with budget left,
\* or as the reconcile of a recorded effect.
MayRequeue(t) ==
    \/ Protected(t)
    \/ FailureAttempts(t) < MaxAttempts[t]
    \/ attempts'[t] = [attempts[t] EXCEPT ![epoch[t]] = "deferred"]

\* What a sweep does to a running task.
LEMMA RecoverRequeues ==
    ASSUME TypeOK, RecoverExpiredTasks, NEW u \in Task,
           status[u] = "running", status'[u] = "queued"
    PROVE  MayRequeue(u)
    <1> DEFINE fate(t) == IF t \in Cancels THEN "cancelled"
                          ELSE IF t \in Requeues THEN "queued"
                          ELSE Stored(t, "failed")
               swept == [t \in Task |-> IF t \in Expired THEN fate(t)
                                                         ELSE status[t]]
    <1>1. swept \in [Task -> TaskStatuses]
        BY StoredTyped DEF TypeOK, TaskStatuses, TerminalStatuses
    <1>2. PICK spread \in {swept, CancelDoomed(swept)} :
             status'[u] \in {spread[u], CancelQueued(spread)[u]}
        BY DEF RecoverExpiredTasks
    <1>3. spread \in [Task -> TaskStatuses]
        BY <1>1, <1>2, PropagationTyped
    <1> HIDE DEF swept
    <1>4. /\ spread[u] \in {swept[u], "cancelled"}
          /\ CancelQueued(spread)[u] \in {spread[u], "cancelled"}
        BY <1>1, <1>2, <1>3, PropagationCancels
    <1>5. swept[u] = "queued"
        BY <1>2, <1>4
    <1>6. u \in Requeues
        BY <1>5 DEF swept, Stored
    <1> QED
        BY <1>6 DEF Requeues, MayRequeue

\* So does every other step.
LEMMA StepRequeues ==
    ASSUME TypeOK, [Next]_vars, NEW u \in Task,
           status[u] = "running", status'[u] = "queued"
    PROVE  MayRequeue(u)
    <1>1. ASSUME NEW w \in Worker, NEW t \in Task, ClaimNextTask(w, t)
          PROVE  FALSE
        BY <1>1 DEF ClaimNextTask, TypeOK
    <1>2. ASSUME NEW w \in Worker, NEW t \in Task,
                 \/ HeartbeatTask(w, t)
                 \/ RecordPaperEffectIntent(w, t)
                 \/ SealStage(w, t)
          PROVE  FALSE
        BY <1>2 DEF HeartbeatTask, RecordPaperEffectIntent, SealStage, rows
    <1>3. ASSUME NEW w \in Worker, LoseWorker(w) \/ RejectStale(w)
          PROVE  FALSE
        BY <1>3 DEF LoseWorker, RejectStale, rows
    <1>4. CASE EnsurePendingOutcomeWorker
        BY <1>4 DEF EnsurePendingOutcomeWorker, TypeOK
    <1>5. CASE RequestRunCancel
        BY <1>5, PropagationKeeps DEF RequestRunCancel, TypeOK
    <1>6. CASE RecoverExpiredTasks
        BY <1>6, RecoverRequeues
    <1>7. CASE Tick \/ UNCHANGED vars
        BY <1>7 DEF Tick, vars, rows
    <1>8. ASSUME NEW w \in Worker, NEW t \in Task, Complete(w, t)
          PROVE  MayRequeue(u)
        <2>1. Valid(w, t) /\ status[t] = "running"
            BY <1>8
               DEF Complete, CommitAttempt, SkipAttempt, FailAttempt,
                   CancelAttempt, DeferTask, RetryTask, CommitAttemptWithEffect,
                   CommitOutcomeSchedule, CompleteOutcome, Valid
        <2>2. ASSUME NEW final \in TerminalStatuses,
                     status'[u] = AfterFinish(t, final)[u]
              PROVE  FALSE
            <3>1. Stored(t, final) # "queued"
                BY StoredTyped DEF TerminalStatuses
            <3> QED
                BY <2>1, <2>2, <3>1, FinishEffect
        <2>3. ASSUME NEW final \in TerminalStatuses,
                     FinishPermittedTask(w, t, final)
              PROVE  FALSE
            BY <2>2, <2>3 DEF FinishPermittedTask
        <2>4. ASSUME NEW delay, NEW row, Requeue(w, t, delay, row)
              PROVE  u = t /\ attempts' = Closed(t, row)
            BY <2>4 DEF Requeue, TypeOK
        <2>5. CASE DeferTask(w, t)
            <3>1. u = t /\ attempts' = Closed(t, "deferred")
                BY <2>4, <2>5 DEF DeferTask
            <3>2. Closed(t, "deferred")[t]
                    = [attempts[t] EXCEPT ![epoch[t]] = "deferred"]
                BY ClosedEffect DEF AttemptStatuses
            <3> QED
                BY <3>1, <3>2 DEF MayRequeue
        <2>6. "failed" \in TerminalStatuses
            BY DEF TerminalStatuses
        <2>7. CASE RetryTask(w, t)
            BY <2>3, <2>4, <2>6, <2>7 DEF RetryTask, MayRequeue
        <2>8. "succeeded" \in TerminalStatuses
            BY DEF TerminalStatuses
        <2>9. CASE CommitOutcomeSchedule(w, t)
            <3> DEFINE st == AfterFinish(t, "succeeded")
            <3>1. /\ status' = [st EXCEPT ![Outcome] = "queued"]
                  /\ status[Outcome] = "absent"
                BY <2>9 DEF CommitOutcomeSchedule
            <3>2. st \in [Task -> TaskStatuses]
                BY <2>8, AfterFinishTyped
            <3>3. status'[u] = st[u]
                BY <3>1, <3>2
            <3> QED
                BY <2>2, <2>8, <3>3
        <2>10. {"succeeded", "skipped", "failed", "cancelled"}
                  \subseteq TerminalStatuses
            BY DEF TerminalStatuses
        <2> QED
            BY <1>8, <2>3, <2>5, <2>7, <2>9, <2>10
               DEF Complete, CommitAttempt, SkipAttempt, FailAttempt,
                   CancelAttempt, CommitAttemptWithEffect, CompleteOutcome
    <1> QED
        BY <1>1, <1>2, <1>3, <1>4, <1>5, <1>6, <1>7, <1>8 DEF Next

\* A new stage's budget starts after the attempt that sealed the last one.
LEMMA SealMoves ==
    ASSUME TypeOK, [Next]_vars
    PROVE  \/ sealed' = sealed
           \/ sealed' = epoch[Outcome] /\ epoch'[Outcome] = epoch[Outcome]
    <1> DEFINE P == \/ sealed' = sealed
                    \/ /\ sealed' = epoch[Outcome]
                       /\ epoch'[Outcome] = epoch[Outcome]
    <1>1. ASSUME NEW w \in Worker, NEW t \in Task, Complete(w, t)
          PROVE  P
        BY <1>1 DEF Complete, CommitAttempt, SkipAttempt, FailAttempt,
           CancelAttempt, DeferTask, RetryTask, CommitAttemptWithEffect,
           CommitOutcomeSchedule, CompleteOutcome, FinishPermittedTask, learning
    <1>2. ASSUME NEW w \in Worker, NEW t \in Task,
                 \/ ClaimNextTask(w, t)
                 \/ HeartbeatTask(w, t)
                 \/ RecordPaperEffectIntent(w, t)
                 \/ SealStage(w, t)
          PROVE  P
        BY <1>2 DEF ClaimNextTask, HeartbeatTask, RecordPaperEffectIntent,
           SealStage, rows, learning
    <1>3. ASSUME NEW w \in Worker, LoseWorker(w) \/ RejectStale(w)
          PROVE  P
        BY <1>3 DEF LoseWorker, RejectStale, learning
    <1>4. CASE EnsurePendingOutcomeWorker \/ RequestRunCancel
                 \/ RecoverExpiredTasks \/ Tick \/ UNCHANGED vars
        BY <1>4 DEF EnsurePendingOutcomeWorker, RequestRunCancel,
           RecoverExpiredTasks, Tick, vars, learning
    <1> QED
        BY <1>1, <1>2, <1>3, <1>4 DEF Next

\* What a step does to the budget of one task.
LEMMA BudgetStep ==
    ASSUME TypeOK, TypeOK', AttemptRowsAgree, AttemptRowsAgree', [Next]_vars,
           NEW t \in Task, BudgetOf(t)
    PROVE  BudgetOf(t)'
    <1> DEFINE k == StageStart(t)
               q == attempts[t]
    <1>1. /\ q \in Seq(AttemptStatuses) /\ q' \in Seq(AttemptStatuses)
          /\ k \in Nat /\ k' \in Nat
          /\ Len(q) = epoch[t] /\ Len(q') = epoch'[t]
          /\ epoch[t] \in Nat /\ epoch'[t] \in Nat
          /\ MaxAttempts[t] \in Nat /\ MaxAttempts[t] > 0
        BY GraphAssumption DEF TypeOK, AttemptRowsAgree, StageStart
    <1>2. /\ FailureAttempts(t) = Cardinality(Spent(q, k))
          /\ FailureAttempts(t)' = Cardinality(Spent(q', k'))
        BY DEF FailureAttempts, Spent
    <1>3. /\ Cardinality(Spent(q, k)) \in Nat
          /\ Cardinality(Spent(q', k')) \in Nat
          /\ Len(q') <= k' => Cardinality(Spent(q', k')) = 0
        BY <1>1, SpentFinite
    <1>4. ~Protected(t)' => ~Protected(t)
        BY EffectMoves DEF Protected
    <1>5. k' = k \/ Len(q') <= k'
        BY <1>1, SealMoves DEF StageStart
    <1> HIDE DEF k, q
    <1>6. CASE Len(q') <= k'
        BY <1>1, <1>2, <1>3, <1>6 DEF BudgetOf
    <1> SUFFICES ASSUME k' = k, ~Protected(t)', ~Protected(t)
                 PROVE  /\ Cardinality(Spent(q', k)) <= MaxAttempts[t]
                        /\ status'[t] \in {"queued", "absent"} =>
                              Cardinality(Spent(q', k)) < MaxAttempts[t]
        BY <1>2, <1>4, <1>5, <1>6 DEF BudgetOf
    <1>7. /\ Cardinality(Spent(q, k)) <= MaxAttempts[t]
          /\ status[t] \in {"queued", "absent"} =>
                Cardinality(Spent(q, k)) < MaxAttempts[t]
        BY <1>2 DEF BudgetOf
    <1>8. CASE Untouched(t)
        <2>1. q' = q
            BY <1>8 DEF Untouched, q
        <2>2. status'[t] \in {"queued", "absent"} =>
                 status[t] \in {"queued", "absent"}
            BY <1>8 DEF Untouched, TypeOK, TaskStatuses, TerminalStatuses
        <2> QED
            BY <1>7, <2>1, <2>2
    <1>9. CASE Began(t)
        <2>1. /\ q' = Append(q, "running")
              /\ status[t] = "queued" /\ status'[t] = "running"
            BY <1>9 DEF Began, q
        <2>2. Cardinality(Spent(q', k)) <= Cardinality(Spent(q, k)) + 1
            BY <1>1, <2>1, SpentAppend DEF AttemptStatuses
        <2>3. Cardinality(Spent(q', k)) \in Nat
            BY <1>3
        <2> QED
            BY <1>1, <1>3, <1>7, <2>1, <2>2, <2>3
    <1>10. CASE Ended(t)
        <2>1. /\ status[t] = "running"
              /\ status'[t] # "absent"
              /\ q[epoch[t]] = "running" /\ epoch[t] > 0
            BY <1>1, <1>10
               DEF Ended, AttemptRowsAgree, TerminalStatuses, q
        <2>2. PICK s \in AttemptStatuses \ {"running"} :
                 q' = [q EXCEPT ![epoch[t]] = s]
            BY <1>10 DEF Ended, q
        <2>3. /\ Cardinality(Spent(q', k)) <= Cardinality(Spent(q, k))
              /\ s \notin SpentStatuses =>
                   \/ Cardinality(Spent(q', k)) = 0
                   \/ Cardinality(Spent(q', k)) < Cardinality(Spent(q, k))
            BY <1>1, <2>1, <2>2, SpentClose
        <2>4. Cardinality(Spent(q', k)) \in Nat
            BY <1>3
        <2>5. CASE status'[t] # "queued"
            BY <1>1, <1>3, <1>7, <2>1, <2>3, <2>4, <2>5
        <2>6. CASE status'[t] = "queued"
            <3>1. MayRequeue(t)
                BY <2>1, <2>6, StepRequeues
            <3>2. CASE Cardinality(Spent(q, k)) < MaxAttempts[t]
                BY <1>1, <1>3, <2>3, <2>4, <3>2
            <3>3. CASE q' = [q EXCEPT ![epoch[t]] = "deferred"]
                <4>1. q'[epoch[t]] = "deferred" /\ q'[epoch[t]] = s
                    BY <1>1, <2>1, <2>2, <3>3, LenProperties
                <4>2. s \notin SpentStatuses
                    BY <4>1 DEF SpentStatuses
                <4> QED
                    BY <1>1, <1>3, <1>7, <2>3, <2>4, <4>2
            <3> QED
                BY <1>2, <3>1, <3>2, <3>3 DEF MayRequeue, q
        <2> QED
            BY <2>5, <2>6
    <1> QED
        BY <1>8, <1>9, <1>10, StepOfTask

\* The durable failure budget is never exceeded, for any graph, policy and
\* number of stages: deferrals are free, a sealed stage starts a new budget,
\* and only a reconcile with a recorded effect goes on without one.
THEOREM BudgetHolds == Spec => []BudgetRespected
    <1> DEFINE Budgets == \A t \in Task : BudgetOf(t)
    <1>1. Init => Budgets
        <2> SUFFICES ASSUME Init, NEW t \in Task
                     PROVE  BudgetOf(t)
            OBVIOUS
        <2>1. /\ attempts[t] = << >> /\ StageStart(t) = 0
            BY DEF Init, StageStart
        <2>2. DOMAIN attempts[t] = {}
            BY <2>1
        <2>3. FailureAttempts(t) = 0
            BY <2>2, FS_EmptySet DEF FailureAttempts
        <2> QED
            BY <2>3, GraphAssumption DEF BudgetOf
    <1>2. TypeOK /\ TypeOK' /\ AttemptRowsAgree /\ AttemptRowsAgree' /\ Budgets
             /\ [Next]_vars => Budgets'
        BY BudgetStep
    <1>3. Budgets => BudgetRespected
        BY DEF BudgetOf, BudgetRespected
    <1> HIDE DEF Budgets
    <1> QED
        BY <1>1, <1>2, <1>3, TypeCorrect, RowsAgree, PTL DEF Spec
================================================================================
