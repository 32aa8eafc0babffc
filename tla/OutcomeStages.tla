--------------------------- MODULE OutcomeStages ---------------------------
(***************************************************************************)
(* The post-terminal work on one Paper run: the outcome worker of          *)
(* akzio-daemon/src/outcome/worker.rs and the narrative repairs that may   *)
(* follow it.  Attempts write the retrospectives of T+1, T+3 and T+5 in    *)
(* turn, the last one with the sealed Outcome, and feed it to the policy   *)
(* evaluation or, for a run of a Canary session, to the comparison with    *)
(* its three Shadow runs.  Every attempt holds a task permit and the       *)
(* daemon lease of the outcome, whose guard releases it early and never    *)
(* renews it.                                                              *)
(*                                                                         *)
(* A narrative, an Outcome and an evaluation are named by the epoch of the *)
(* lease their author held, which no other attempt can hold (EpochsApart). *)
(* 0 stands for none.                                                      *)
(***************************************************************************)
EXTENDS Integers

CONSTANTS Procs,      \* worker threads, of one daemon or of several
          MaxFaults,  \* bound on crashes, suspensions and errors
          MaxRepairs  \* narrative repairs of one Outcome; two in the code

ASSUME StagesAssumption == MaxFaults \in Nat /\ MaxRepairs \in Nat

T5 == 3
Stages == 1 .. T5          \* OutcomeHorizon::ALL: T+1, T+3, T+5
Subjects == 1 .. 3         \* a Canary comparison: contract, topology, bundle
Worker == 0
Repairs == 1 .. MaxRepairs
Tasks == {Worker} \cup Repairs
Kinds == {"paper", "canary", "debug"}
TaskStatus == {"absent", "queued", "running", "succeeded", "failed"}
Verdicts == {"none", "no_output", "committed", "again", "poll", "lease", "failed"}
Steps == {"idle", "look", "acquire", "collect", "narrate", "write", "evaluate",
          "lessons", "compare", "subjects", "apply", "leave", "finish"}

VARIABLES
  kind,     \* what the run is to the Store
  due,      \* how many horizons have their common sessions closed
  shadows,  \* are the three Shadow outcomes sealed?
  level,    \* does the Canary campaign still stand at the session's level?
  task,     \* the status of the worker's and the repairs' tasks
  wait,     \* why a queued task is not ready yet
  row,      \* the daemon lease of the outcome: its epoch, and is it unexpired?
  proc,     \* the attempt each thread runs
  retro,    \* the retrospective of each stage
  sealed,   \* the Outcome's author
  narr,     \* the author of the T+5 narrative
  memory,   \* the narrative the memory subject was evaluated with
  compared, \* the narrative each Canary subject was evaluated with
  lessons,  \* are the narrative's proposals Draft lessons?
  faults    \* how many faults have happened

world == <<kind, due, shadows, level>>
queue == <<task, wait>>
record == <<retro, sealed, narr, memory, compared, lessons>>
vars == <<world, queue, row, proc, record, faults>>

\* An attempt that has done nothing yet.
Fresh(t, permit, pc) ==
  [task |-> t, permit |-> permit, slow |-> FALSE, pc |-> pc, lease |-> 0,
   seen |-> "none", stage |-> 0, draft |-> 0, verdict |-> "none"]
Idle == Fresh(Worker, FALSE, "idle")

Attempts == [task : Tasks, permit : BOOLEAN, slow : BOOLEAN, pc : Steps, lease : Nat,
             seen : {"none", "unavailable", "complete"}, stage : 0 .. T5, draft : Nat,
             verdict : Verdicts]

TypeOK ==
  /\ kind \in Kinds /\ due \in 0 .. T5 /\ shadows \in BOOLEAN /\ level \in BOOLEAN
  /\ task \in [Tasks -> TaskStatus] /\ wait \in [Tasks -> {"ready", "poll", "lease"}]
  /\ row \in [epoch : Nat, live : BOOLEAN]
  /\ proc \in [Procs -> Attempts]
  /\ retro \in [Stages -> {"none", "unavailable", "complete"}]
  /\ sealed \in Nat /\ narr \in Nat /\ memory \in Nat /\ lessons \in BOOLEAN
  /\ compared \in [Subjects -> Nat]
  /\ faults \in 0 .. MaxFaults

Init ==
  /\ kind \in Kinds /\ due = 0 /\ shadows = FALSE /\ level = TRUE
  /\ task = [t \in Tasks |-> IF t = Worker THEN "queued" ELSE "absent"]
  /\ wait = [t \in Tasks |-> "ready"]
  /\ row = [epoch |-> 0, live |-> FALSE]
  /\ proc = [p \in Procs |-> Idle]
  /\ retro = [h \in Stages |-> "none"]
  /\ sealed = 0 /\ narr = 0 /\ memory = 0 /\ lessons = FALSE
  /\ compared = [s \in Subjects |-> 0]
  /\ faults = 0

----------------------------------------------------------------------------
(* The steps of an attempt.                                                *)

\* p holds an epoch of the outcome's lease that is current and unexpired.
Holds(p) == row.live /\ proc[p].lease = row.epoch

\* What every fenced write of an attempt asserts in its transaction.
FencedOnce(p) == proc[p].lease # 0
Fenced(p) == Holds(p) /\ proc[p].permit

Working(p) == proc[p].pc \notin {"idle", "leave", "finish"}

Goto(p, pc) == proc' = [proc EXCEPT ![p].pc = pc]

\* The handler returns: the guard is dropped next, then the runtime finishes.
Over(a, v) == [a EXCEPT !.pc = "leave", !.verdict = v, !.stage = 0, !.draft = 0]
Return(p, v) == proc' = [proc EXCEPT ![p] = Over(proc[p], v)]

\* The Store refused a write: the error fails the task closed.
Refused(p) == Return(p, "failed") /\ UNCHANGED <<task, record>>

\* A write that also succeeds the task ends the permit.
Succeed(p) == task' = [task EXCEPT ![proc[p].task] = "succeeded"]

\* The T+5 retrospective of a narrative: a complete one is kept.
Narrate5(d) ==
  IF retro[T5] = "complete" THEN UNCHANGED <<retro, narr>>
  ELSE retro' = [retro EXCEPT ![T5] = "complete"] /\ narr' = d

\* The earliest observed horizon that has no retrospective yet.
Incomplete(h) == retro[h] # "complete"
Unwritten(h) == retro[h] = "none"
Pending(n) == {h \in 1 .. n : Unwritten(h)}
Latest(S) == CHOOSE h \in S : \A k \in S : h >= k
Earliest(S) == CHOOSE h \in S : \A k \in S : h <= k

Claim(p, t) ==
  /\ proc[p].pc = "idle" /\ task[t] = "queued" /\ wait[t] = "ready"
  /\ task' = [task EXCEPT ![t] = "running"]
  /\ proc' = [proc EXCEPT ![p] = Fresh(t, TRUE, "look")]
  /\ UNCHANGED <<world, wait, row, record, faults>>

\* What is already sealed is read before the lease is asked for.
Look(p) ==
  /\ proc[p].pc = "look"
  /\ LET over == \/ proc[p].task = Worker /\ retro[T5] # "none" /\ kind # "canary"
                 \/ proc[p].task # Worker /\ memory # 0 /\ kind # "canary"
     IN proc' = [proc EXCEPT ![p].seen = retro[T5],
                             ![p].verdict = IF over THEN "no_output" ELSE "none",
                             ![p].pc = IF over THEN "leave" ELSE "acquire"]
  /\ UNCHANGED <<world, queue, row, record, faults>>

\* Where an attempt that has the lease goes on, given what it saw.
After(p) ==
  IF proc[p].task = Worker
  THEN IF proc[p].seen = "none" THEN "collect" ELSE "compare"
  ELSE IF proc[p].seen = "complete"
       THEN IF kind = "canary" THEN "compare" ELSE "evaluate"
       ELSE "narrate"

Draft(p) == IF proc[p].seen = "complete" THEN narr ELSE 0

\* The lease is granted when the last one has been released or has run out,
\* and always with the next epoch: the row stays when a lease ends.
Acquire(p) ==
  /\ proc[p].pc = "acquire"
  /\ IF row.live
     THEN Return(p, "lease") /\ UNCHANGED row
     ELSE /\ row' = [epoch |-> row.epoch + 1, live |-> TRUE]
          /\ proc' = [proc EXCEPT ![p].lease = row.epoch + 1, ![p].seen = "none",
                                  ![p].stage = IF proc[p].seen = "none" THEN 0 ELSE T5,
                                  ![p].draft = Draft(p),
                                  ![p].pc = After(p)]
  /\ UNCHANGED <<world, queue, record, faults>>

\* Collects the common sessions and takes the earliest pending horizon; the
\* facts, prices and retrospectives of later ones are cut off.
Collect(p) ==
  /\ proc[p].pc = "collect"
  /\ IF due > 0 /\ ~Fenced(p)
     THEN Return(p, "failed")
     ELSE IF Pending(due) = {}
     THEN Return(p, "poll")
     ELSE proc' = [proc EXCEPT ![p].stage = Earliest(Pending(due)), ![p].pc = "narrate"]
  /\ UNCHANGED <<world, queue, row, record, faults>>

\* One bounded model session.  A failure leaves a stage without a draft, but
\* ends a repair; a draft is written under both fences.
Narrate(p) ==
  /\ proc[p].pc = "narrate"
  /\ LET next == IF proc[p].task = Worker THEN "write"
                 ELSE IF kind = "canary" THEN "compare" ELSE "evaluate"
     IN \/ /\ Fenced(p)
           /\ proc' = [proc EXCEPT ![p].draft = proc[p].lease, ![p].pc = next]
        \/ ~Fenced(p) /\ Return(p, "failed")
        \/ IF proc[p].task = Worker THEN Goto(p, next) ELSE Return(p, "failed")
  /\ UNCHANGED <<world, queue, row, record, faults>>

\* T+1 and T+3: a RunScoped retrospective, and the task waits for the next.
WritePartial(p) ==
  /\ proc[p].pc = "write" /\ proc[p].stage # T5
  /\ IF Fenced(p) /\ Unwritten(proc[p].stage)
     THEN /\ retro' = [retro EXCEPT ![proc[p].stage] =
                         IF proc[p].draft # 0 THEN "complete" ELSE "unavailable"]
          /\ Return(p, IF Pending(due) = {proc[p].stage} THEN "poll" ELSE "again")
          /\ UNCHANGED <<task, sealed, narr, memory, compared, lessons>>
     ELSE Refused(p)
  /\ UNCHANGED <<world, wait, row, faults>>

\* T+5: the Outcome is sealed with its retrospective.  A Canary run seals it
\* without ending the task; a Paper run with a draft evaluates it as well.
Seal(p) ==
  /\ proc[p].pc = "write" /\ proc[p].stage = T5
  /\ IF Fenced(p) /\ Unwritten(T5)
     THEN /\ sealed' = proc[p].lease
          /\ retro' = [retro EXCEPT ![T5] = IF proc[p].draft # 0 THEN "complete" ELSE "unavailable"]
          /\ narr' = proc[p].draft
          /\ memory' = IF kind = "paper" THEN proc[p].draft ELSE memory
          /\ IF kind = "canary"
             THEN Goto(p, "compare") /\ UNCHANGED task
             ELSE /\ Succeed(p)
                  /\ IF kind = "paper" /\ proc[p].draft # 0
                     THEN Goto(p, "lessons") ELSE Return(p, "committed")
          /\ UNCHANGED <<compared, lessons>>
     ELSE Refused(p)
  /\ UNCHANGED <<world, wait, row, faults>>

\* A repair of a Paper run: the evaluation that T+5 could not have.
Evaluate(p) ==
  /\ proc[p].pc = "evaluate"
  /\ IF memory # 0
     THEN Return(p, "committed") /\ UNCHANGED <<task, record>>
     ELSE IF ~Fenced(p) \/ kind = "debug"
     THEN Refused(p)
     ELSE /\ Narrate5(proc[p].draft) /\ memory' = proc[p].draft
          /\ Succeed(p) /\ Goto(p, "lessons")
          /\ UNCHANGED <<sealed, compared, lessons>>
  /\ UNCHANGED <<world, wait, row, faults>>

\* The proposals become Draft lessons in transactions of their own.
Lessons(p) ==
  /\ proc[p].pc = "lessons"
  /\ lessons' = TRUE
  /\ IF kind = "canary" THEN Goto(p, "subjects") ELSE Return(p, "committed")
  /\ UNCHANGED <<world, queue, row, retro, sealed, narr, memory, compared, faults>>

\* Nothing can be compared: no narrative, or the campaign has moved on.
UnsealedOrDone(p) == ~level \/ proc[p].draft = 0 \/ ~shadows
NothingToCompare(p) == ~level \/ proc[p].draft = 0

\* A Canary session: without a narrative, or after the campaign has moved,
\* the attempt just ends; it waits until all three Shadows are sealed.
Compare(p) ==
  /\ proc[p].pc = "compare"
  /\ IF NothingToCompare(p)
     THEN IF proc[p].permit THEN Succeed(p) /\ Return(p, "committed") /\ UNCHANGED record
          ELSE Refused(p)
     ELSE /\ IF shadows THEN Goto(p, "subjects") ELSE Return(p, "poll")
          /\ UNCHANGED <<task, record>>
  /\ UNCHANGED <<world, wait, row, faults>>

\* Each subject is evaluated in a transaction of its own; one that a former
\* attempt recorded is only read.
Subject(p) ==
  /\ proc[p].pc = "subjects"
  /\ LET left == {s \in Subjects : compared[s] = 0} IN
     IF left = {}
     THEN Goto(p, "apply") /\ UNCHANGED <<task, record>>
     ELSE IF ~Fenced(p) THEN Refused(p)
     ELSE /\ compared' = [compared EXCEPT ![Earliest(left)] = proc[p].draft]
          /\ Narrate5(proc[p].draft) /\ Goto(p, "lessons")
          /\ UNCHANGED <<task, sealed, memory, lessons>>
  /\ UNCHANGED <<world, wait, row, faults>>

\* The cohort's verdict may move the campaign; then the task succeeds.
Apply(p) ==
  /\ proc[p].pc = "apply"
  /\ IF Fenced(p)
     THEN level' \in {level, FALSE} /\ Succeed(p) /\ Return(p, "committed")
     ELSE Return(p, "failed") /\ UNCHANGED <<task, level>>
  /\ UNCHANGED <<kind, due, shadows, wait, row, record, faults>>

Released(r) == [r EXCEPT !.live = FALSE]

\* The guard is dropped: its own epoch, if it still is current, ends now.
Leave(p) ==
  /\ proc[p].pc = "leave"
  /\ row' = IF Holds(p) THEN Released(row) ELSE row
  /\ proc' = [proc EXCEPT ![p].pc = "finish", ![p].lease = 0]
  /\ UNCHANGED <<world, queue, record, faults>>

\* TaskRuntime::finish.  Without the permit the Store refuses, and a
\* "committed" verdict is only verified: the task stays as it is.
Finish(p) ==
  /\ proc[p].pc = "finish"
  /\ LET t == proc[p].task
         v == proc[p].verdict
     IN IF ~proc[p].permit \/ task[t] # "running" \/ v = "committed"
        THEN UNCHANGED queue
        ELSE /\ task' = [task EXCEPT ![t] = IF v = "no_output" THEN "succeeded"
                                            ELSE IF v = "failed" THEN "failed" ELSE "queued"]
             /\ wait' = [wait EXCEPT ![t] = IF v \in {"poll", "lease"} THEN v ELSE "ready"]
  /\ proc' = [proc EXCEPT ![p] = Idle]
  /\ UNCHANGED <<world, row, record, faults>>

Step(p) ==
  \/ Look(p) \/ Acquire(p) \/ Collect(p) \/ Narrate(p) \/ WritePartial(p) \/ Seal(p)
  \/ Evaluate(p) \/ Lessons(p) \/ Compare(p) \/ Subject(p) \/ Apply(p)
  \/ Leave(p) \/ Finish(p)

----------------------------------------------------------------------------
(* What happens around the attempts.                                       *)

\* A check of the task would find something new.
News == IF retro[T5] = "none" THEN Pending(due) # {} ELSE shadows

\* A deferred task becomes ready: the lease is free again, or the next check
\* is due.  A check that would find nothing changes nothing and is left out.
Wake(t) ==
  /\ task[t] = "queued" /\ wait[t] # "ready"
  /\ IF wait[t] = "lease" THEN ~row.live ELSE News
  /\ wait' = [wait EXCEPT ![t] = "ready"]
  /\ UNCHANGED <<world, task, row, proc, record, faults>>

MarketMoves ==
  /\ due < T5 /\ due' = due + 1
  /\ UNCHANGED <<kind, shadows, level, queue, row, proc, record, faults>>

ShadowsSeal ==
  /\ kind = "canary" /\ ~shadows /\ shadows' = TRUE
  /\ UNCHANGED <<kind, due, level, queue, row, proc, record, faults>>

\* Another session, or a stop, moves the campaign on.
CampaignMoves ==
  /\ kind = "canary" /\ level /\ level' = FALSE
  /\ UNCHANGED <<kind, due, shadows, queue, row, proc, record, faults>>

\* A client asks for a narrative repair of the sealed Outcome.
RequestRepair(r) ==
  /\ sealed # 0 /\ task[r] = "absent"
  /\ \A t \in Tasks : task[t] \notin {"queued", "running"}
  /\ \A k \in Repairs : k < r => task[k] # "absent"
  /\ task' = [task EXCEPT ![r] = "queued"]
  /\ UNCHANGED <<world, wait, row, proc, record, faults>>

Fault == faults < MaxFaults /\ faults' = faults + 1

\* A thread dies with its attempt: nobody drops the guard.
Crash(p) ==
  /\ proc[p].pc # "idle" /\ Fault
  /\ proc' = [proc EXCEPT ![p] = Idle]
  /\ UNCHANGED <<world, queue, row, record>>

\* An error, a timeout or a dropped future ends the handler early; what may
\* be retried uses up one of the task's attempts.
Break(p) ==
  /\ Working(p) /\ Fault
  /\ \E v \in {"again", "failed"} : Return(p, v)
  /\ UNCHANGED <<world, queue, row, record>>

\* A thread is suspended for longer than its task's lease and its guard last.
Suspend(p) ==
  /\ Working(p) /\ ~proc[p].slow /\ Fault
  /\ proc' = [proc EXCEPT ![p].slow = TRUE]
  /\ UNCHANGED <<world, queue, row, record>>

Owner(t) == {p \in Procs : proc[p].task = t /\ proc[p].permit /\ proc[p].pc # "idle"}
Awake(p) == proc[p].pc # "idle" /\ ~proc[p].slow

\* The task's lease ran out: the sweep requeues the task, or fails it when
\* its attempts are used up, and the old permit is worthless.
Recover(t) ==
  /\ task[t] = "running" /\ \A p \in Owner(t) : ~Awake(p)
  /\ \E s \in {"queued", "failed"} : task' = [task EXCEPT ![t] = s]
  /\ wait' = [wait EXCEPT ![t] = "ready"]
  /\ proc' = [p \in Procs |-> IF p \in Owner(t) THEN [proc[p] EXCEPT !.permit = FALSE] ELSE proc[p]]
  /\ UNCHANGED <<world, row, record, faults>>

\* The guard of the outcome's lease runs out.
LapseInUse ==
  /\ row.live /\ \E p \in Procs : Holds(p) /\ ~Awake(p)
  /\ row' = Released(row)
  /\ UNCHANGED <<world, queue, proc, record, faults>>

Lapse ==
  /\ row.live /\ \A p \in Procs : Holds(p) => ~Awake(p)
  /\ row' = Released(row)
  /\ UNCHANGED <<world, queue, proc, record, faults>>

Next ==
  \/ \E p \in Procs : Step(p) \/ Crash(p) \/ Break(p) \/ Suspend(p) \/ \E t \in Tasks : Claim(p, t)
  \/ \E t \in Tasks : Wake(t) \/ Recover(t)
  \/ \E r \in Repairs : RequestRepair(r)
  \/ MarketMoves \/ ShadowsSeal \/ CampaignMoves \/ Lapse

\* The pool polls its handlers, the sweep and the clock go on, and a ready
\* task is claimed; nobody has to ask for a repair, and no fault is due.
Fairness ==
  /\ \A p \in Procs : WF_vars(Step(p))
  /\ \A t \in Tasks : /\ WF_vars(\E p \in Procs : Claim(p, t))
                      /\ WF_vars(Recover(t) /\ Owner(t) = {})
                      /\ SF_vars(Wake(t))
  /\ WF_vars(Lapse /\ \A p \in Procs : ~Holds(p))

Spec == Init /\ [][Next]_vars /\ Fairness

----------------------------------------------------------------------------
(* Properties.                                                             *)

\* Catching up late, after errors, lapses and restarts, the stages are still
\* written in order, and the Outcome is sealed exactly with the last one.
StagesInOrder ==
  /\ TypeOK
  /\ retro[T5] # "none" => retro[2] # "none"
  /\ retro[2] # "none" => retro[1] # "none"
  /\ sealed # 0 <=> retro[T5] # "none"

\* Sealed facts stay: the Outcome is never sealed again, a stage's
\* retrospective is never rewritten, and a repair only adds the narrative the
\* T+5 retrospective lacked.
FactsFrozen ==
  [][ /\ sealed # 0 => sealed' = sealed
      /\ narr # 0 => narr' = narr
      /\ \A h \in Stages : retro'[h] # retro[h] =>
           \/ retro[h] = "none"
           \/ h = T5 /\ retro[h] = "unavailable" /\ retro'[h] = "complete" ]_record

\* While an attempt holds the outcome's lease nobody else changes what is
\* recorded: an attempt whose guard has lapsed writes nothing beside its
\* successor.  The lessons are left out: they are written with neither the
\* lease nor the permit asserted, also beside a successor.
HolderAlone ==
  [][ \A p \in Procs : (Holds(p) /\ Working(p) /\ proc'[p] = proc[p])
        => UNCHANGED <<retro, sealed, narr, memory, compared>> ]_vars

\* However many attempts, repairs and subjects there were, everything that
\* was learnt from this Outcome was learnt from its one T+5 narrative.  And a
\* run whose outcome tasks have all succeeded has its Outcome sealed and has
\* learnt from the narrative it has, by the memory subject or, while the
\* campaign stands at the session's level, by all three Canary subjects.
SettledMeansLearnt ==
  /\ retro[T5] = "complete" <=> narr # 0
  /\ memory # 0 => memory = narr
  /\ \A s \in Subjects : compared[s] # 0 => compared[s] = narr
  /\ lessons => narr # 0
  /\ (\A t \in Tasks : task[t] \in {"succeeded", "absent"}) =>
       /\ sealed # 0
       /\ (kind = "paper" /\ narr # 0) => memory = narr
       /\ (kind = "canary" /\ narr # 0 /\ level) => \A s \in Subjects : compared[s] = narr

\* Once the last horizon and the Shadows are there, the worker comes to an
\* end, although the attempt that held the outcome's lease may have died.
WorkerSettles ==
  (due = T5 /\ (kind = "canary" => shadows)) ~> task[Worker] \in {"succeeded", "failed"}
=============================================================================
