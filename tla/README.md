# TLA+ verification of Akzio Signal Intelligence v2

Akzio is a local daemon. Once per broker session it runs one Paper workflow: a
graph of research tasks, two gates, at most one committed plan of orders at the
Alpaca Paper API, and, one, three and five trading days later, an evaluation of
the outcome. Everything it knows is in one SQLite store and the private logs of
its Runs; everything it does to the world goes through one broker adapter and
one model client. This directory holds TLA+ models of the parts whose
correctness depends on order, time and failure, the TLC configurations that
check them, and the TLAPS proofs. Every definition is a translation of the Rust
source under `src/`; `PROJECT.json` maps each to its lines.

    tlc -workers 2 -config TaskPaper.cfg MCTaskStore.tla
    tlapm TaskStoreProofs.tla

## 1. Inventory

| Component (crate) | State | Operations | Talks to |
|---|---|---|---|
| Task store (`akzio-store/workflow`, `free_*`, `run_control`) | task, attempt, Run, control and cancellation rows; event log | claim, heartbeat, commit, finish, defer, retry, cancel a Run, recover expired attempts, add the outcome worker | called by everything; one IMMEDIATE transaction per call |
| Task runtime and worker pool (`akzio-runtime/task`, `akzio-daemon/worker`, `dispatch`) | a permit and a future per slot; reservations per workload | poll, run a handler under a monitor and a wall-time limit, report | task store, handlers |
| Paper dispatch (`akzio-execution/paper*`, `reconciliation`; `akzio-daemon/audited_broker`) | effect intents and settlements, reprice and cancel intents, receipts; the broker's orders | submit, look up, reprice once, cancel, evaluate, settle | task store (fenced writes), broker over HTTP |
| Daemon lease, session slots, scheduler (`akzio-store/lease`, `akzio-daemon/scheduler`) | lease rows, slot rows; a cached lease per process | acquire, heartbeat, re-read, release, tick, reserve a session | task store, broker clock |
| StoreExecutor and maintenance (`akzio-runtime/store_executor`, `akzio-store/maintenance`) | one-at-a-time queue, maintenance state | execute, execute_maintenance, defer leases | task store; delays every other component |
| Workflow compilation, reducer, replay (`akzio-runtime`) | the frozen graph | compile a proposal, reduce events, replay a Run | task store |
| Outcome stages (`akzio-daemon/outcome`, `akzio-learning`) | Retrospectives T1/T3/T5, the sealed Outcome, an outcome lease per Run | collect, record a partial stage, seal, evaluate, repair the narrative | task store, lease rows, model |
| Decision policy head (`akzio-store/decision_policy`, `learning/policy`) | the one active policy per subject, its history | evaluate, activate, roll back | outcome stages, scheduler |
| Canary campaign (`akzio-store/canary`, `akzio-daemon/outcome/canary`) | a campaign, its sessions and Shadow Runs, pairs and observations | reserve, pair, observe, judge, evaluate, move | slots, outcome stages |
| Research agent turns (`akzio-research/agent`) | the events of a model Task, a ledger in memory | turn, governed read, submission, rejection, recovery | task store, model client |
| Research review and supplements (`akzio-daemon/application/research_*`) | node outputs, durable starts and dispositions of one supplemental round | claim, criticise, supplement, propose, review, decide | task store, sources |
| Run log (`akzio-daemon/run_log`, `orchestration/run_log`) | a segment per stage and session: plaintext, ZIP, temporary; what the Store confirms | record, seal, link, confirm, clean, recover | workers, model client, Store; holds a Run back while it is in doubt |
| Gates and allocation (`akzio-execution`) | none; the account they read | size, cap, scale, allocate, limit | artifacts, account, quotes |
| Lesson lifecycle (`akzio-store/lesson`) | lesson rows and evidence | propose, activate, retire | outcome stages, research |
| Context broker, ingestion, model client | caches, blobs | select, fetch, call | network |
| Blobs, doctor, migration, debug bundles | files, schema | store, verify, upgrade | file system |
| HTTP API, observer, CLI | none of its own | read, send commands | all |

Hard behaviours, and where they meet:

- *Several actors on one row.* Worker slots, the recovery loop, cancel requests
  and processes of an earlier incarnation all write task rows; what keeps them
  apart is a permit (epoch, attempt and lease time) checked inside each
  transaction. The comparisons of the lease time differ (`assert_permit`
  rejects `lease_until <= now`, recovery takes `lease_until < now`).
- *State outside the database.* A broker write and a provider call cannot be in
  a transaction. An intent (or a log line) is durable first; a later attempt, or
  a later Core, finds out what became of it.
- *Old time.* `now` is read once at the beginning of a tick or a handler and
  used after awaits, queues and maintenance windows.
- *Leases nobody releases.* The scheduler's lease ends only by expiry, while
  tasks of a dead leader may still renew it and maintenance extends it; the
  outcome's guard is never renewed.
- *Work after the end.* The outcome worker is a task that is inserted after its
  Run completed and must neither be lost nor change the Run's verdict.
- *Memory rebuilt from records.* Agent ledgers, supplements, archives in the
  making and Canary verdicts are taken up by an attempt that knows only what was
  written, in the order it was written.

What makes each component correct is stated as the properties of section 3;
`PROJECT.json` lists every hazard at its line with the properties that cover it.

## 2. Plan

Done, in this order: `TaskStore`; `PaperDispatch`; `SchedulerLease` over the
abstract `SessionSlots`; `OutcomeStages`; `CanaryCampaign`; `ResearchTurns`;
`RunLog`; `ResearchLoop`; `PositionSizing`; the proofs of all of them.

Next: `LessonLifecycle`; the StoreExecutor's queue and shutdown with the leases
of tasks under maintenance; the validation of a compiled graph, which would
discharge the assumptions on `Deps` and `OnFailure`; the order of refusals in
the gates; `TaskStore`'s view of gate.reconcile as an abstract specification
that `PaperDispatch` implements.

## 3. The modules

The run table of each module says what a run asks and within which bounds.
Operators marked "Mutant" stand before the definition they change; the mutation
tests of `PROJECT.json` use them, the specifications never do.

Two runs carry a second module beside the first, because the two answer one
question about one Run (`MCRunDecision`: from Claims to the Decision and from
forecasts to orders; `MCModelCalls`: the two records of a model call). The
variable `part` chooses at the start which of the two moves, so that their
states add up and do not multiply.

### TaskStore

One formal Run with its task graph (`Deps`, `OnFailure`, `MaxAttempts` are
constants). A variable is a column: `status`, `readyIn`, `leaseLeft`, `epoch`
and `attempts` (rebuild_tasks, rebuild_attempts), `runStatus`, `control`,
`cancelled` (Run, control head, cancellation row), `effect` (the effect events
of the commitment), `stage` and `sealed` (Retrospectives), and `permit`, what
each worker slot holds. One action is one transaction with everything the code
does in it: `FinishPermittedTask` is finish_permitted_task with the propagation
of a failure, refresh_run_status and settle_continuous;
`RecoverExpiredTasks` is one sweep over all expired rows. The fixpoint of
cancel_failed_dependents is the least set closed under "a parent failed", not
its rounds. The order of a sweep is the order of random task ids; it shows only
when a FailRun task is exhausted in the same sweep, and there `kept` chooses.

Time is relative to now: `readyIn = ready_at - now`, `leaseLeft = lease_until -
now`, stopped at 0 and -1, the last values the code can tell apart.

| Run | Question | Bounds |
|---|---|---|
| TaskPaper | Do permits, budget, the Run's verdict and the recorded effect survive claims, lost workers, deferral, cancellation and sweeps? | research -> reconcile -> evaluate and the outcome worker; two shared slots (interchangeable); two lost attempts, one deferral; 299,702 states |
| TaskFork | Do failures respect dependencies and give the Run its verdict, is each lost attempt recovered, and is each Run that is not cancelled settled? | two parallel parents, FailTask and SkipTask; three workers (session, outcome, any); one lost attempt, no deferral; fairness; 72,362 states |
| TaskCancelStrands | (violated) Does a cancelled Run settle? | fairness |

`LiveAttemptExclusive` is fencing as a worker sees it: no other transaction ends
an attempt whose permit is valid, also at the instant at which both lease
comparisons are false. `EffectKeepsReconcile` ties the effect events to the task
row in five operations that could forget it. `BudgetRespected` counts failed
attempts as the rows have them, while recovery, retry and a sealed stage all
move the count. `RunVerdictSound` ties the Run's status to its tasks'.
`VerdictSurvivesOutcome` holds a final status against every later step, with the
one exception the code has: the first cancel request of a completed Run judges
the outcome worker with the graph (commits.rs:59), so that a failed one turns
completed into failed. It can do nothing else: a completed Run never becomes
cancelled, whatever the request cancels.

Two lost attempts are enough for a budget of two to be exhausted, for a late
worker to meet its successor, and for both expired tasks of a sweep; a lease of
two ticks distinguishes valid, equal and past.

### PaperDispatch

The attempts of gate.reconcile of one committed plan. `task` and `owner` are the
part of TaskStore it needs; `effect`, `reprice` and `cancel` the intents and
settlements of the store; `broker` the state of each order under its two client
ids, `wire` the requests under way; `pc`, `phase`, `pos` and `seen` the future
of an attempt, which `Drop` forgets. A step is one HTTP request, its delivery,
or a transaction with the code up to the next await.

An attempt that lost its lease goes on (`Fenced` is asked only where a
transaction asks it): its POST and PATCH may arrive after its successor's. A
check of the daemon lease alone lets a stalled attempt of the same process pass;
where it would fail, `Crash` and `Fails` end the attempt. An attempt that finds
the run log unavailable only observes a recorded effect (`BeginUnlogged`), and
an end that the log does not take is a deferral (`PutOff`). Errors, lost
answers, crashes, lost leases and log failures are counted by `MaxFaults`: while
the log stays down, a reconcile whose observation fails each time is deferred
each time (`dispatch.rs:64`), which the liveness property leaves out. The GETs of one
refresh are one step: nothing depends on their order, each receipt is judged on
its own.

| Run | Question | Bounds |
|---|---|---|
| DispatchRaces | Do write-ahead, settlement and the cancellation guard hold under a stalled attempt? | one order with reprice and cancel, two interchangeable attempts, two faults; 992,581 states |
| DispatchSettles | Is a plan that reached the broker settled or failed, and one with an order never sent not settled? | two orders, one attempt at a time, one fault, fairness; 602,361 states |
| DispatchAbandons | (violated) Is a live order never left without a dispatch to come? | one fault |

`SettledMeansClosed` relates the store's last word to the broker's truth and to
every request still under way. `HandedOverSettles` excludes, with `Resolvable`,
the plans the code documents to wait for: an order never sent because the
window ended, and a durable reprice without a successor.

### SchedulerLease and SessionSlots

`SessionSlots` is the promise: leaders one after the other, each session given
once, to a Run of its own, by the leader of the moment. `SchedulerLease` is how:
several incarnations of the daemon (`Owner`) with a cached lease (`held`, behind
a mutex: `call` is the call that holds it), the three transactions of
acquire_or_renew (`Renew`, `Acquire`, `Reread`), the scheduler's tick with its
awaits (`StartTick`, `LookUp`, `TickLease`, `Reserve`), tasks that renew with the
`now` of their claim (`ActiveLease`), maintenance windows, crashes and restarts.
`left` is the deadline relative to now, `age` how old a `now` has become.

| Run | Question | Bounds |
|---|---|---|
| LeaseRaces | One leader at a time, in the row and in what processes believe? And is an open, ready session reserved although leaders die? | two processes, one session, ages up to the lease time, one maintenance window; fairness, with two more takeovers per process after `MaxEpoch`; 156,046 states |

`CacheMeansLeader` says a cached lease with time left is the row's: code that
trusts the cache between heartbeats is right. `SessionSlotsSpec` is the abstract
specification as a property. The run has one session; that several sessions get
a Run each is proved (`Implements`), for any number of them.

### OutcomeStages

The attempts of the outcome worker and of the narrative repair after a Run.
`Procs` are the threads an attempt may be on and `proc` what each holds: its
task, whether its permit stands, the lease epoch it was given, the stage and the
draft it works on. `task` and `wait` are the part of TaskStore they need, `row`
the outcome's daemon lease (its epoch, and whether it is unexpired). The Store
keeps `retro` (the retrospective of each stage), `sealed` (the Outcome's
author), `narr` (the T+5 narrative's), `memory` and `compared` (the narrative
each evaluation was made with) and `lessons`. A guard that lapses leaves an
attempt that wakes up beside its successor; `Claim`, `Wake` and the steps
between two awaits are the actions. `HolderAlone` leaves the lessons out, as
their transactions assert neither the lease nor the permit.

| Run | Question | Bounds |
|---|---|---|
| OutcomeStages | Are stages written once and in order, is everything learnt from one narrative, do attempts exclude each other, and does the work end? | two threads, one repair, one fault, fairness; 590,118 states |

### CanaryCampaign

A campaign over its levels: sessions are reserved at the campaign's level, and
the outcome attempt of each pairs, observes, judges the cohort, evaluates three
policy subjects in three transactions and moves the campaign in another one.
Attempts of different sessions hold different leases and interleave freely.

| Run | Question | Bounds |
|---|---|---|
| CanaryCampaign | Do stages, evaluations, heads and pairs stay consistent while two sessions climb at once? | two interchangeable sessions, two levels, one required pair and sample, one lost attempt; 1,813,101 states |
| CanaryDefers | (violated) Does a session go on that is judged Defer again? | two sessions, one level, two samples, no fault |

### ResearchTurns and RunLog

`ResearchTurns` is one model Task over all of its attempts: `log` has its events
in the order of their cursors, `ag` is what the live attempt holds in memory,
`late` a rejection of a superseded attempt that is still to be written. Recovery
is a fold of the events (`Replayed`), as in the code: attempt by attempt, and in
the order of the cursors within an attempt (`Newest` is the event that the fold
takes last).

`RunLog` is the private log of one Run. A segment is what one stage writes in
one session of the Core: the plaintext's lines (`log`, kept as sets of attempts
and calls), the source, the temporary and the ZIP as files, and what the ZIP was
written from (`frozen`, `before`). `archived`, `blocked`, `opened` and
`accounted` are what the Store knows. The archiver's steps are those of
seal_segment and the caller: choose, temporary, ZIP, hard link, temporary
removed, confirmed, plaintext removed; `Inspect`, `Mark`, `SealInterrupted`,
`RecordBlocked`, `OpenRequired` and `Serve` are recover_orphans at startup. Two
pairs of writes are merged, a segment's first line with the Store's "opened" and
a dropped call's line with the Store's "blocked": recovery derives the second of
each pair again from the first.

| Run | Question | Bounds |
|---|---|---|
| ModelCalls | Do the two records of a model call hold what a later attempt or Core needs? | ResearchTurns: two attempts, four output tokens, two governed reads, two faults, interchangeable results. RunLog: a decision and its outcome worker, two attempts each, two faults. 979,034 states |

RunLog was also checked, by itself, with three tasks: attempts 1/2/1 of
decision, outcome and repair (2,303,280 states) and 2/1/1 (3,275,254 states),
without error.

### ResearchLoop

The frozen research graph from the Claims to the Decision. `st` and `out` are a
node's status and output; a node reads settled nodes and publishes in one
transaction, so it is one step. The supplemental round writes as it goes:
`started` and `done` are its durable starts and dispositions, `live` the memory
of its attempt, `asked` how often a source was asked. By itself it was also
checked with three resources and a budget of two (1,856,377 states), with two
put-offs (1,706,593), and with claims and critiques that ask for different
resources (272,601), without error.

### PositionSizing

The arithmetic from forecasts to weights to orders, with every division of the
code, and the account over several Runs: orders fill wholly, by half or not at
all, in any combination, and the next Run reads what is left.

| Run | Question | Bounds |
|---|---|---|
| RunDecision | Are resources asked for once, do revisions end, and does the Decision rest on what the new facts changed? And do risk, decision and credit hold through every division and every fill? | ResearchLoop: two horizons, two resources with a budget of one, two revisions, one put-off, interchangeable contents. PositionSizing: a daily-reset fund and its index, two horizons, every combination of four forecasts, two quote sets, a price tick of two, two approvals, two Runs; `Scale` 100, cash 100, credit 5. 931,046 states |

`NoBuyAgainstAHorizon` is about a horizon that a fund's mean leaves out;
`NeverOverdrawn` about buys that count on the proceeds of sells;
`BoughtWithinDecision` about orders of an earlier plan that fill beside those of
the next; `PlannedRiskHeld` about what four scalings and the sharing out of a
limit make of weights that were measured before them. The instance shows each on
one policy and one risk model; section 5 proves them for all.

## 4. Fairness

- `Tick`, `Pass`: time goes on.
- Handlers return: `max_wall_time_secs` bounds every one (task.rs). `Complete`
  as a whole is weakly fair, no single outcome is.
- The recovery loop runs every third of a lease (worker.rs): weak.
- A claim of each task is strongly fair: `ORDER BY ready_at` never overtakes a
  due task for ever, although the slot may be taken in between.
- Dispatch: the executor polls each future (weak per attempt), HTTP requests end
  by timeout, the broker brings orders to an end (day orders), a claim is
  strongly fair as above. No fault is fair.
- Scheduler: a living process ticks every 30 seconds and its call gets the
  mutex in the end (strong, as other callers come between); the claim about
  reservation needs the market and readiness to calm down (`MaxEpoch`).
- Outcome worker: its steps, a claim and the sweep are weakly fair, a deferred
  task wakes (strong: the market may close a horizon in between), and a lease
  whose guard is gone runs out. Nobody has to ask for a repair.

`CHECK_DEADLOCK FALSE` everywhere: a finished Run, a settled plan, a refused
start or the end of a bound lets each of these systems stop.

## 5. Proofs

A theorem holds for every value of the constants that the named assumptions
allow; the runs show the same formula on the instances above. Every inductive
invariant below was first checked by TLC, on the run's instance or a smaller
one. `PROJECT.json` lists the theorems with the property each one states.

**TaskStoreProofs** (any graph, pool, budgets and bounds).

- `TypeCorrect`; `Fencing`: no permit is issued twice and none runs ahead of its
  task's epoch, the inductive form of `OneWriter` (which by itself says nothing
  of permits that are no longer valid).
- One lemma carries the history, `StepOfTask`: whatever the step, a task sees
  nothing its attempt rows record (`Untouched`), a claim (`Began`), or the end
  of its attempt by the valid permit or by expiry (`Ended`). From it follow
  `RowsAgree`, `HistoryFinal`, `DepsFirst` and, with `OneWriter` and the
  disjointness of the two lease comparisons, `Exclusive`; `HeadAgrees` by the
  three ways an operation leaves the control head.
- `EffectKept`: the reconcile of a recorded effect was claimed, hence its
  dependencies are done, hence it is in no failure-closed set, and `Protected`
  keeps it from the rest.
- `VerdictSound`, `VerdictStands`: `VerdictInv` adds that what was finished was
  claimed before (`Ran`) and that the outcome worker comes to a graph that is
  done (`OutcomeLast`). A transaction keeps the verdict and the active tasks
  (`Keeps`), judges the rows it leaves (`Judges`), or commits the schedule and
  judges before it adds the worker (`Schedules`). `JudgedAgain` is the one
  judgement of a final Run, the first cancel request's. This is where `LastAssumption`
  is needed: the task that commits the schedule comes last. The compiler gives
  that: decision waits for every research leaf, the gates follow one by one and
  evaluate ends the chain (`compilation/evidence.rs:121-200`,
  `validation.rs:110-160`).
- `BudgetHolds`: `BudgetOf` counts the rows that spent budget after the latest
  Retrospective, also for a task that waits; `MayRequeue` says how a running
  attempt may come back.

**SchedulerLeaseProofs** (any processes, sessions and durations). The inductive
invariant adds to the properties that a cache never promises more time than the
row (`CacheBehind`), that a waiting tick is at the step that called
(`CallsServe`), that a tick under way has a session and from the grant on a Run
(`TicksComplete`), and that a staged Run is nowhere else (`RunsApart`).
`CacheIsLeader`, `EpochsUnique`, `DeadlinesKept`; `Implements`: every step is an
election, a reservation or a stutter of `SessionSlots`.

**PaperDispatchProofs** (any attempts, orders and faults): `Announced`,
`SettledIsClosed`, `CancelSparesOrders`, `CancelStopsExposure`. None is
inductive: what an attempt may still send depends on where its future waits and
on what it saw before it stalled. `IInv` says for each attempt which pass it is
in (`PassOf`), where its loop is (`PlaceOf`), what the Store has for it
(`Audited`) and what of it is final (`Sighted`); for each request, where its
sender waits (`Requested`); for each order, that a replacement exists only
behind an original that no longer trades (`Succession`); and `Held` for the
task. What is final at the broker stays final, so a receipt that was seen once
can be settled by an attempt that has been overtaken.

**OutcomeProofs** (any threads, faults and repairs): `InOrder`, `SettledLearnt`,
`SealedFactsStay`, `OneHolderWrites`. `IInv`: one outcome task at a time
(`OneTask`) has one owner (`OneOwner`) that runs it (`OwnerRuns`); every attempt
is on a path through the handler (`Paths`); each epoch of the lease was granted
once (`EpochsOnce`); what an attempt has seen is behind what is recorded
(`SeenBehind`); its draft is the one narrative there is (`DraftCurrent`); what
was learnt, task by task (`LearntSoFar`). The argument: every fenced write is by
the unique owner of the unique running task, and lease epochs are unique.

**CanaryProofs** (any sessions, levels and required numbers): `StagesStand`,
`HeadsFollow`, `EveryStageEarned`, `PairsOnce`. After `Judge` an attempt carries a set of
recorded observations and their worth (`JudgedRight`), it aims at a level the
campaign has reached (`TargetsReached`), and the campaign moves only by a
compare-and-set on exactly the cohort of its level. `PairsOnce` is an equation
between a sum over the sessions and the size of a set; `PInv` adds that what is
used of a session was recorded for it, in the order of its reads.

**RunDecisionProofs**, ResearchLoop (any horizons, resources, revisions): `TypesHold`,
`AskedAtMostOnce`, `AcceptedEnds`, `FactsAreDecided`. `Asking`: a resource is
asked for between its durable start and its disposition. `Layered`: what is
settled has everything before it settled. `RevisionsInv`: nothing has output
behind a review that ends the revisions (`NothingAfter`), however many skipped
nodes are between them. `Collecting`: what the attempt at work holds is what the
rows it passed have brought. `PairsInv`, `ProposalsInv`: which Claims and
Critiques exist, and which of them a proposal takes.

**RunDecisionProofs**, PositionSizing (any assets, horizons, forecasts, quotes,
approvals, policy and risk model that the validations let through): `CashHolds`,
`BuysHold`, `RiskHolds`, `NoBuyAgainst`. First the operators, each lemma from
what a division is (`Division`, `QuotientAtMost`, `QuotientAtLeast`):
`WithinGross` brings the gross weight to its limit (`GrossHeld`); `RiskFactor`
is the least of four fractions (`FactorBounds`) and `WithinRisk` brings each
measure to its ceiling although it is measured again after the rounding
(`ScaledBelow`, `RiskHeld`); of a shared limit at most what the divisions left
over is handed out one unit each, and no buy gets more than it wants (`PartsFit`,
`FirstFew`, `SharedHeld`); so what a plan would hold is in no asset above the
decision (`AchievedBelow`). Then the state, `SizingInv`: one order for an asset,
and none for one whose intent is not yet sent (`OneEach`); some assignment of
the cash and the credit to the assets that covers what every buy may still cost
(`Covered`, an existential: which cash is whose is nowhere in the state);
and what was bought of an asset and may still be costs no more than its notional
(`AsDecided`). `NoBuyAgainst` needs `Policy.minEdge > 0`, which
`DecisionPolicy::validate` does not ask for: with an edge of zero a mean of small
losses is cut to zero and passes, so such a policy may buy an asset that every
horizon expects to fall a little.

**SumTheorems** (any finite set and function of integers): the library's sum is
a recursion over subsets, of which nothing can be proved until it is known that
a solution exists (`SolutionExists`, by a smallest subset without one). Then sums
with and without an element, over parts, of equal, smaller, added and multiplied
terms, and a sum of ones as a cardinality; and greatest elements of sets.
CanaryProofs, RunDecisionProofs and ModelCallProofs rest on it.

**ModelCallProofs**, RunLog (any tasks, stages, attempts, faults): `TypesHold`,
`NothingGoesMissing`, `CompleteArchives`, `DoubtsAreKept`, `NothingIsReplayed`.
`LogInv` is their common invariant. Lines go to the live segment of a stage and
never while a seal holds the lock, so a ZIP keeps the lines of its source
(`SourcesInv`, `LiveInv`), and a restarted Core takes a segment up at the step
that its files show (`ArchiveInv`); the archives of a stage form a chain
(`ChainInv`). A seal needs an end, or a doubt, for each call, so an archive
without a doubt has settled calls only (`CompleteInv`). A restarted Core knows
the doubts of a segment that is gone from the Store, those of any other once it
has archived it, and serves when none is left (`DoubtInv`); a call that is about
to be made is new to every log (`CallsInv`). The steps of the Core are split by
what they do to the files (`CoreMovesQuiet`) and to memory (`CoreMovesMemory`),
those of a task all have one form (`TaskStep`).

**ModelCallProofs**, ResearchTurns (any contract, batch of reads, results and
number of faults): `AllowanceAlways`, `UnknownStops`, `OneLine`, `FrozenResult`. First the
replay: the fold has one value (`ReplayExists`, `ReplayEquation`), which is that
of the event replayed last applied to the replay of the others; it stays what it
is when the log grows (`ReplayGrows`). What each event does to a checkpoint is
one of a few cases (`Hears`), so whatever checkpoint the replay of a part of the
log ends in, if nothing in it was broken, agrees with that part on calls, tokens,
reads, submissions, turns and answers (`Ledger`, `LedgerHolds`: by a smallest
part that would not). Hence an attempt that may go on at all begins where the
log stopped (`BeginRecalls`), also when recovery fell back on counting calls
(`FallbackRecalls`). Then the steps, each of which writes at most one event and
moves the agent accordingly (`NextMovesTurn`), keep the two together: `TokensInv`,
`ToolsInv` and `SubsInv` for the allowance, `UnknownInv` for the answers (every
call but the one under way has one), `ConversationInv` for the turns (the reads
asked for are those answered and those the agent still has to make).

`FrozenResult` proves `ResultFrozen`, about attempts that agree on a result and
never meet. A replay hears the rejections that no later submission answers
(`Voice`, `VoiceHolds`), so the attempt after a crash repairs under the very one
it was left with. A rejection that is written late, when a later attempt has
submitted, is replayed before the turns of that attempt, the first of which asked
as if nothing had been rejected (`Unheard`): the replay fails, and no attempt
starts from such a log (`OvertakenBreaks`, `OvertakenInv`). An attempt that does
submit and could know of the rejection hence repairs (`RejectionsInv`,
`KnowsInv`), is bound to the result that the log proposed last (`BoundInv`), and
what it commits is that one (`FrozenInv`). The five together, `ReviewInv`, were
checked by TLC before they were proved.

Assumptions: sizes and disjointness of sentinels, and in TaskStore the shape of
the gate catalogue (gate.reconcile is FailRun; nothing depends on the outcome
worker; the schedule comes last). TLC evaluates them in every run of the module;
`ResearchLoopAssumption`, `SizingAssumption`, `RunLogAssumption` and
`ResearchTurnsAssumption` are hypotheses of their theorems and assumed by
`MCRunDecision` and `MCModelCalls`.

Proved although no run checks them: `AttemptRowsAgree`, `HistoryIsFinal`,
`StartedAfterDeps`, `ControlAgrees`, `SingleWriter` of TaskStore, `EpochsApart`
of SchedulerLease.

Only model-checked, and why:

- liveness (`LostAttemptRecovered`, `RunSettles`, `HandedOverSettles`,
  `OpenSessionReserved`, `WorkerSettles`): out of the prover's reach. Every safety
  property and action property of a passing run is stated by a theorem.

## 6. Findings

- A cancelled Run may never settle: defer_task and retry_task requeue without
  reading the cancellation, and claims refuse the task for ever
  (TaskCancelStrands; `commits.rs:94`).
- The lost answer of a POST fails gate.reconcile and with it the Run, so the
  lookup by client id that the adapter's comment relies on never happens
  (DispatchAbandons; `dispatch.rs:248`, `execute.rs:157`).
- From the second session of a Canary level on, a verdict Defer that follows
  Defer is taken for a repetition and refused, after its observation and its
  evaluations were recorded (CanaryDefers; `cohort.rs:185`).

## 7. Seen while modelling, not checked by a run

Task store and outcome
- The first cancel request for a Run that has completed refreshes its status
  over all tasks, the failed outcome worker's included: completed becomes failed
  (`commits.rs:60`; `free_policy_helpers.rs:73` says it does not).
- Lessons are written after the evaluation's commit; a crash between them loses
  them (`materialization.rs:515`).

Canary
- The contract is activated before the campaign is completed: a crash at the
  last level strands the campaign (`outcome/canary.rs:112`).
- With more than one required pair the heads stop while the campaign goes on
  (`canary.rs:134`); a degraded parent and a concurrent Defer raise a head again
  (`canary.rs:315`).

Run log
- A crash between an archive's confirmation and the removal of its plaintext
  makes the next start compare the archive's predecessor with the latest
  archive, which is the segment itself, and refuse (`run_log.rs:548-575`);
  `docs/run-log.md:19` expects a start. A segment opened between a seal and its
  confirmation ends the same way if it is cut before its own confirmation. The
  model has this (`Verifies`); no run claims that a start succeeds.
- A dropped task future leaks an active attempt, so its segment waits for the
  stop. With the Run uncertain, the answer of another worker's call is refused
  and stays pending, so the seal at the stop fails.
- A second Core on the same store seals the first one's open segments.
- The flow window begins at `start_event_cursor - 1` and may miss an event
  (`run_log.rs:70-82`); an empty source refuses the start.

Research
- A legacy contract runs the Analyst twice with one budget, and the second one's
  recovery overwrites the first one's usage (`research_run.rs:155`).
- A supplement that was put off by a lost run log after it collected evidence
  can never commit (`dispatch.rs:104`, `free_events.rs:270`).
- A submission that was accepted and not committed costs another call.

Gates
- A full exit sells the market value at the last price divided by the protected
  sell limit, so it asks for more units than are held (`protocol.rs:193`,
  `execution/lib.rs:216`); a short position is an error to `allocation.rs:159`.
- Turnover is judged by notionals, although sells that fill better make it
  larger; a reprice keeps the frozen limit; the final risk after scaling is
  recorded and not compared again; covariances are only checked pair by pair.
- The account's parts come from four concurrent requests.

Blobs
- restore_from verifies a live file and copies it then; put_bytes without an
  artifact leaves a blob that nothing references.

## 8. Not modelled

Hazards without a property, because the part they are in is left out: the order
of RFC 3339 texts in maintenance (`maintenance.rs:48`), approvals in
reservations (`impl_workflow.rs:94`), the release of the outcome guard by an
older epoch (`lease.rs:104`), the submission window's edge
(`paper/execute.rs:142`), the reprice's settlement order
(`paper_dispatch.rs:478`), the recomputed verdict of a read
(`free_reads.rs:102`).

Left out of modelled parts: quantities, prices and artifact contents outside
PositionSizing; the continuous mode's control slices; task leases under
maintenance; the freeze; Canary sessions in reservations; the fitting of the
calibration; observers and exports of the run log; prompts and schemas.

Where a module differs from the code it models:

- `ResearchTurns`: the repair request of an outcome task is written in another
  format (`runtime_run.rs:1016`) than recovery reads (`recovery.rs:426`), so the
  code refuses some recoveries that `Continues` allows. Default contracts leave
  the limits on model and tool calls open (`budget.rs`); the instances take
  finite ones. `CompleteTurn` always has a usage to compare with the cap:
  the OpenAI adapter refuses an answer without totals
  (`model_types.rs`, ProviderUsageMissing), only offline fixtures have none.
- `CanaryCampaign`: what the manifest freezes among a verdict's inputs
  (`campaign.rs:172`) is not a variable.
- `PositionSizing`: `WithinCapacity` has neither the homogeneous-agent factor
  nor the bound on slippage (`market_safety.rs:378`), and of the gate's blockers
  `Acceptable` keeps those that its properties tell apart; both let more through
  than the code. Open orders are refused by the snapshot step
  (`execution_gate/snapshots.rs:99`), which `Acceptable` includes.

Not modelled at all: lessons, context selection, ingestion, blobs, doctor and
migration, HTTP, observer and CLI (`PROJECT.json` gives each reason). Out of
scope for good: formats, HTTP decoding, statistics over reals, prompts, file
layout, migration and the read-only API.
