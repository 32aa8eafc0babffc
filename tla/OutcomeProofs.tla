----------------------------- MODULE OutcomeProofs -----------------------------
(***************************************************************************)
(* Theorems about OutcomeStages, for any number of threads, faults and     *)
(* repairs: what the attempts at one Outcome record beside and after each  *)
(* other.                                                                  *)
(***************************************************************************)
EXTENDS OutcomeStages, TLAPS

USE StagesAssumption

Active == {"queued", "running"}

\* The steps at which an attempt still acts on its permit alone.
Fencing == {"look", "acquire", "collect", "narrate", "write", "evaluate", "compare",
            "subjects", "apply"}

Owns(p, t) == proc[p].permit /\ proc[p].task = t /\ proc[p].pc # "idle"

\* One outcome task at a time is queued or running; the worker's always exists.
OneTask ==
    /\ task[Worker] # "absent"
    /\ \A t, u \in Tasks : task[t] \in Active /\ task[u] \in Active => t = u

\* A running task has one owner at most, one that waits has none.
OneOwner ==
    \A t \in Tasks :
        /\ task[t] = "running" => \A p, q \in Procs : Owns(p, t) /\ Owns(q, t) => p = q
        /\ task[t] \in {"absent", "queued"} => \A p \in Procs : ~Owns(p, t)

\* The attempt may still write on its permit.
MayWrite(p) ==
    proc[p].permit /\ (proc[p].pc \in Fencing \/ (proc[p].pc = "lessons" /\ kind = "canary"))

\* A permit that may still write is that of a running task.
OwnerRuns == \A p \in Procs : MayWrite(p) => task[proc[p].task] = "running"

\* The paths that an attempt can take through the handler.
PathOf(p) ==
    /\ proc[p].pc \in {"collect", "write"} => proc[p].task = Worker
    /\ proc[p].pc = "acquire" /\ proc[p].task = Worker /\ proc[p].seen # "none" =>
          kind = "canary"
    /\ proc[p].pc \in {"compare", "subjects", "apply"} => kind = "canary"
    /\ proc[p].pc = "evaluate" => kind # "canary" /\ proc[p].task # Worker
    /\ proc[p].pc \notin {"leave", "finish"} => proc[p].verdict = "none"
    /\ proc[p].verdict = "no_output" => kind # "canary"

Paths == \A p \in Procs : PathOf(p)

\* Every epoch of the outcome's lease was granted once, to one attempt.
EpochsOnce ==
    /\ row.live => row.epoch # 0
    /\ \A p \in Procs : proc[p].lease <= row.epoch
    /\ \A p, q \in Procs : proc[p].lease = proc[q].lease /\ proc[p].lease # 0 => p = q

\* What an attempt has seen of T+5, and the stage it has taken, is behind what
\* is recorded.
SeenOf(p) ==
    /\ proc[p].seen # "none" => retro[T5] # "none"
    /\ proc[p].seen = "complete" => retro[T5] = "complete"
    /\ proc[p].pc = "acquire" /\ proc[p].permit => proc[p].seen = retro[T5]
    /\ proc[p].pc \in {"narrate", "write"} /\ proc[p].task = Worker =>
          /\ proc[p].stage \in Stages
          /\ \A h \in 1 .. proc[p].stage - 1 : retro[h] # "none"
    /\ proc[p].pc \in {"evaluate", "lessons", "compare", "subjects", "apply"} =>
          retro[T5] # "none"
    /\ proc[p].pc # "idle" /\ proc[p].task # Worker => retro[T5] # "none"
    /\ proc[p].verdict = "no_output" => retro[T5] # "none"

SeenBehind == \A p \in Procs : SeenOf(p)

\* A repair follows the sealed Outcome.
RepairsFollow == \A r \in Repairs : task[r] # "absent" => retro[T5] # "none"

\* The attempt that may write carries the narrative there is, or a first one.
DraftOf(p) ==
    /\ proc[p].pc = "lessons" => narr # 0
    /\ proc[p].pc \in {"evaluate", "subjects", "apply"} => proc[p].draft # 0
    /\ proc[p].pc = "lessons" /\ kind = "canary" => proc[p].draft # 0
    /\ proc[p].permit =>
          /\ proc[p].pc \in {"collect", "narrate"} => retro[T5] # "complete" /\ proc[p].draft = 0
          /\ proc[p].pc \in {"evaluate", "compare", "subjects", "apply"} /\ narr # 0 =>
                proc[p].draft = narr
          /\ proc[p].pc = "lessons" /\ kind = "canary" => proc[p].draft = narr
          /\ proc[p].pc = "apply" => \A s \in Subjects : compared[s] # 0

DraftCurrent == \A p \in Procs : DraftOf(p)

\* What was learnt, task by task.
LearntSoFar ==
    /\ retro[T5] = "complete" <=> narr # 0
    /\ memory # 0 => memory = narr
    /\ \A s \in Subjects : compared[s] # 0 => compared[s] = narr
    /\ lessons => narr # 0
    /\ kind # "canary" /\ retro[T5] # "none" => task[Worker] = "succeeded"
    /\ task[Worker] = "succeeded" => sealed # 0
    /\ kind = "paper" /\ narr # 0 => memory = narr
    /\ kind = "canary" /\ narr # 0 /\ level =>
          (\A s \in Subjects : compared[s] # 0) \/ \E t \in Tasks : task[t] \in Active \cup {"failed"}

\* Who may write at all.
Ownership == OneTask /\ OneOwner /\ OwnerRuns

\* The inductive invariant.
IInv == /\ StagesInOrder /\ Ownership /\ Paths /\ EpochsOnce /\ SeenBehind
        /\ RepairsFollow /\ DraftCurrent /\ LearntSoFar

(***************************************************************************)
(* Typing, and what a step does to the attempt that takes it.              *)
(***************************************************************************)
LEMMA WorkerIsTask == Worker \in Tasks /\ Repairs \subseteq Tasks /\ Worker \notin Repairs
    BY DEF Tasks, Worker, Repairs

\* A new attempt is well typed and has nothing but its task and its permit.
LEMMA FreshTyped ==
    ASSUME NEW t \in Tasks, NEW permit \in BOOLEAN, NEW pc \in Steps
    PROVE  /\ Fresh(t, permit, pc) \in Attempts
           /\ Fresh(t, permit, pc).task = t /\ Fresh(t, permit, pc).permit = permit
           /\ Fresh(t, permit, pc).pc = pc /\ Fresh(t, permit, pc).lease = 0
           /\ Fresh(t, permit, pc).seen = "none" /\ Fresh(t, permit, pc).stage = 0
           /\ Fresh(t, permit, pc).draft = 0 /\ Fresh(t, permit, pc).verdict = "none"
    <1>1. /\ Fresh(t, permit, pc).task = t /\ Fresh(t, permit, pc).permit = permit
          /\ Fresh(t, permit, pc).pc = pc /\ Fresh(t, permit, pc).lease = 0
          /\ Fresh(t, permit, pc).seen = "none" /\ Fresh(t, permit, pc).stage = 0
          /\ Fresh(t, permit, pc).draft = 0 /\ Fresh(t, permit, pc).verdict = "none"
        BY DEF Fresh
    <1>2. 0 \in 0 .. T5 /\ "none" \in Verdicts
        BY DEF T5, Verdicts
    <1>3. Fresh(t, permit, pc) \in Attempts
        BY <1>2 DEF Fresh, Attempts
    <1>4. QED
        BY <1>1, <1>3

\* An idle thread is well typed and holds nothing.
LEMMA IdleTyped ==
    /\ Idle \in Attempts /\ Idle.task = Worker /\ ~Idle.permit /\ Idle.pc = "idle"
    /\ Idle.lease = 0 /\ Idle.seen = "none" /\ Idle.stage = 0 /\ Idle.draft = 0
    /\ Idle.verdict = "none"
    <1>1. "idle" \in Steps /\ FALSE \in BOOLEAN
        BY DEF Steps
    <1>2. Idle = Fresh(Worker, FALSE, "idle") /\ Worker \in Tasks
        BY WorkerIsTask DEF Idle
    <1>3. /\ Idle.task = Worker /\ Idle.permit = FALSE /\ Idle.pc = "idle"
          /\ Idle.lease = 0 /\ Idle.seen = "none" /\ Idle.stage = 0 /\ Idle.draft = 0
          /\ Idle.verdict = "none"
        BY DEF Idle, Fresh
    <1>4. Idle \in Attempts
        BY <1>1, <1>2, FreshTyped
    <1>5. QED
        BY <1>3, <1>4

\* p's attempt goes on, for the same task and on the same permit.
Moved(p) ==
    /\ proc' \in [Procs -> Attempts] /\ \A q \in Procs \ {p} : proc'[q] = proc[q]
    /\ proc'[p].task = proc[p].task /\ proc'[p].permit = proc[p].permit

Went(p, pc) ==
    /\ Moved(p) /\ proc'[p].pc = pc
    /\ proc'[p].lease = proc[p].lease /\ proc'[p].seen = proc[p].seen
    /\ proc'[p].stage = proc[p].stage /\ proc'[p].draft = proc[p].draft
    /\ proc'[p].verdict = proc[p].verdict

Ended(p, v) ==
    /\ Moved(p) /\ proc'[p].pc = "leave" /\ proc'[p].verdict = v
    /\ proc'[p].lease = proc[p].lease /\ proc'[p].seen = proc[p].seen
    /\ proc'[p].stage = 0 /\ proc'[p].draft = 0

\* A thread starts an attempt that has done nothing yet, or is idle again.
Started(p, t, permit, pc) ==
    /\ proc' \in [Procs -> Attempts] /\ \A q \in Procs \ {p} : proc'[q] = proc[q]
    /\ proc'[p].task = t /\ proc'[p].permit = permit /\ proc'[p].pc = pc
    /\ proc'[p].lease = 0 /\ proc'[p].seen = "none" /\ proc'[p].stage = 0
    /\ proc'[p].draft = 0 /\ proc'[p].verdict = "none"

\* Replacing one attempt keeps the others and the type of them all.
LEMMA ReplacedTyped ==
    ASSUME TypeOK, NEW p \in Procs, NEW r \in Attempts, proc' = [proc EXCEPT ![p] = r]
    PROVE  /\ proc' \in [Procs -> Attempts] /\ \A q \in Procs \ {p} : proc'[q] = proc[q]
           /\ proc'[p] = r
    BY DEF TypeOK

\* The fields of an attempt, from the type invariant.
LEMMA ProcTyped ==
    ASSUME TypeOK, NEW p \in Procs
    PROVE  /\ proc \in [Procs -> Attempts] /\ proc[p] \in Attempts
           /\ proc[p].task \in Tasks /\ proc[p].permit \in BOOLEAN /\ proc[p].pc \in Steps
           /\ proc[p].lease \in Nat /\ proc[p].seen \in {"none", "unavailable", "complete"}
           /\ proc[p].stage \in 0 .. T5 /\ proc[p].draft \in Nat /\ proc[p].verdict \in Verdicts
    BY DEF TypeOK, Attempts

\* A thread that becomes idle drops all its attempt had.
LEMMA IdleStarts ==
    ASSUME TypeOK, NEW p \in Procs, proc' = [proc EXCEPT ![p] = Idle]
    PROVE  Started(p, Worker, FALSE, "idle")
    <1>1. /\ proc' \in [Procs -> Attempts] /\ \A q \in Procs \ {p} : proc'[q] = proc[q]
          /\ proc'[p] = Idle
        BY IdleTyped, ReplacedTyped
    <1>2. QED
        BY <1>1, IdleTyped DEF Started

\* A claimed task begins with a fresh attempt.
LEMMA FreshStarts ==
    ASSUME TypeOK, NEW p \in Procs, NEW t \in Tasks, NEW pc \in Steps,
           proc' = [proc EXCEPT ![p] = Fresh(t, TRUE, pc)]
    PROVE  Started(p, t, TRUE, pc)
    <1> DEFINE r == Fresh(t, TRUE, pc)
    <1>1. /\ r.task = t /\ r.permit = TRUE /\ r.pc = pc /\ r.lease = 0
          /\ r.seen = "none" /\ r.stage = 0 /\ r.draft = 0 /\ r.verdict = "none"
        BY DEF Fresh
    <1>0. r \in Attempts
        BY FreshTyped
    <1> HIDE DEF r
    <1>2. /\ proc' \in [Procs -> Attempts] /\ \A q \in Procs \ {p} : proc'[q] = proc[q]
          /\ proc'[p] = r
        BY <1>0, ReplacedTyped DEF r
    <1>3. QED
        BY <1>1, <1>2 DEF Started

\* Going to another step changes nothing else of an attempt.
LEMMA GotoEffect ==
    ASSUME TypeOK, NEW p \in Procs, NEW pc \in Steps, Goto(p, pc)
    PROVE  Went(p, pc)
    <1>0. proc \in [Procs -> Attempts]
        BY DEF TypeOK
    <1>1. QED
        BY <1>0, SMT DEF Goto, Attempts, Went, Moved

\* A handler that returns keeps its lease and its permit until it leaves.
LEMMA ReturnEffect ==
    ASSUME TypeOK, NEW p \in Procs, NEW v \in Verdicts, Return(p, v)
    PROVE  Ended(p, v)
    <1>0. proc[p] \in Attempts /\ "leave" \in Steps /\ 0 \in 0 .. T5 /\ 0 \in Nat
        BY ProcTyped DEF Steps, T5
    <1>1. Over(proc[p], v) \in Attempts
        BY <1>0, ZenonT(30) DEF Over, Attempts
    <1>2. /\ Over(proc[p], v).pc = "leave" /\ Over(proc[p], v).verdict = v
          /\ Over(proc[p], v).stage = 0 /\ Over(proc[p], v).draft = 0
          /\ Over(proc[p], v).task = proc[p].task /\ Over(proc[p], v).permit = proc[p].permit
          /\ Over(proc[p], v).lease = proc[p].lease /\ Over(proc[p], v).seen = proc[p].seen
        BY <1>0, ZenonT(30) DEF Over, Attempts
    <1>3. QED
        BY <1>1, <1>2, ReplacedTyped DEF Return, Ended, Moved

\* The earliest of some stages is one of them, and none is before it.
LEMMA EarliestIs ==
    ASSUME NEW S \in SUBSET (1 .. 3), S # {}
    PROVE  Earliest(S) \in S /\ \A k \in S : Earliest(S) <= k
    <1>1. \E h \in S : \A k \in S : h <= k
        <2>1. CASE 1 \in S
            BY <2>1
        <2>2. CASE 1 \notin S /\ 2 \in S
            BY <2>2
        <2>3. CASE 1 \notin S /\ 2 \notin S
            <3>1. \A k \in S : k = 3
                BY <2>3
            <3>2. PICK h \in S : TRUE
                OBVIOUS
            <3>3. \A k \in S : h <= k
                BY <3>1, <3>2
            <3>4. QED
                BY <3>2, <3>3
        <2>4. QED
            BY <2>1, <2>2, <2>3
    <1>2. QED
        BY <1>1 DEF Earliest

\* What was sealed of T+5 is read; an attempt that finds its work done ends.
LEMMA LookEffect ==
    ASSUME TypeOK, NEW p \in Procs, Look(p)
    PROVE  /\ proc[p].pc = "look" /\ Moved(p)
           /\ proc'[p].lease = proc[p].lease /\ proc'[p].seen = retro[T5]
           /\ proc'[p].stage = proc[p].stage /\ proc'[p].draft = proc[p].draft
           /\ \/ /\ proc'[p].pc = "leave" /\ proc'[p].verdict = "no_output"
                 /\ kind # "canary"
                 /\ retro[T5] # "none" \/ memory # 0
              \/ proc'[p].pc = "acquire" /\ proc'[p].verdict = "none"
    <1> DEFINE over == \/ proc[p].task = Worker /\ retro[T5] # "none" /\ kind # "canary"
                       \/ proc[p].task # Worker /\ memory # 0 /\ kind # "canary"
               r == [proc[p] EXCEPT !.seen = retro[T5],
                                    !.verdict = IF over THEN "no_output" ELSE "none",
                                    !.pc = IF over THEN "leave" ELSE "acquire"]
    <1>0. /\ proc \in [Procs -> Attempts] /\ proc[p] \in Attempts
          /\ retro[T5] \in {"none", "unavailable", "complete"}
          /\ (IF over THEN "leave" ELSE "acquire") \in Steps
          /\ (IF over THEN "no_output" ELSE "none") \in Verdicts
        BY ProcTyped DEF TypeOK, Steps, Verdicts, Stages, T5
    <1>1. proc' = [proc EXCEPT ![p] = r] /\ proc[p].pc = "look"
        BY <1>0, Zenon DEF Look
    <1>2. r \in Attempts
        BY <1>0, ZenonT(30) DEF Attempts
    <1>3. /\ r.task = proc[p].task /\ r.permit = proc[p].permit /\ r.lease = proc[p].lease
          /\ r.stage = proc[p].stage /\ r.draft = proc[p].draft /\ r.seen = retro[T5]
          /\ r.verdict = (IF over THEN "no_output" ELSE "none")
          /\ r.pc = (IF over THEN "leave" ELSE "acquire")
        BY <1>0, ZenonT(30) DEF Attempts
    <1> HIDE DEF r
    <1>4. /\ proc' \in [Procs -> Attempts] /\ \A q \in Procs \ {p} : proc'[q] = proc[q]
          /\ proc'[p] = r
        BY <1>1, <1>2, ReplacedTyped
    <1>5. QED
        BY <1>1, <1>3, <1>4 DEF Moved

\* An attempt that gets the lease has its next epoch and goes on where what it
\* saw sends it.
LEMMA AcquireEffect ==
    ASSUME TypeOK, NEW p \in Procs, Acquire(p)
    PROVE  /\ proc[p].pc = "acquire" /\ Moved(p)
           /\ \/ row.live /\ row' = row /\ Ended(p, "lease")
              \/ /\ ~row.live /\ row' = [epoch |-> row.epoch + 1, live |-> TRUE]
                 /\ proc'[p].lease = row.epoch + 1 /\ proc'[p].seen = "none"
                 /\ proc'[p].stage = (IF proc[p].seen = "none" THEN 0 ELSE T5)
                 /\ proc'[p].draft = Draft(p) /\ proc'[p].pc = After(p)
                 /\ proc'[p].verdict = proc[p].verdict
    <1>1. CASE row.live
        <2>1. "lease" \in Verdicts /\ Return(p, "lease") /\ row' = row /\ proc[p].pc = "acquire"
            BY <1>1 DEF Acquire, Verdicts
        <2>2. QED
            BY <1>1, <2>1, ReturnEffect DEF Ended
    <1>2. CASE ~row.live
        <2> DEFINE r == [proc[p] EXCEPT !.lease = row.epoch + 1, !.seen = "none",
                                        !.stage = IF proc[p].seen = "none" THEN 0 ELSE T5,
                                        !.draft = Draft(p),
                                        !.pc = After(p)]
        <2>0. /\ proc \in [Procs -> Attempts] /\ proc[p] \in Attempts
              /\ row.epoch + 1 \in Nat /\ "none" \in {"none", "unavailable", "complete"}
              /\ (IF proc[p].seen = "none" THEN 0 ELSE T5) \in 0 .. T5
              /\ Draft(p) \in Nat /\ After(p) \in Steps
            BY ProcTyped DEF TypeOK, Draft, After, Steps, T5
        <2>1. /\ proc' = [proc EXCEPT ![p] = r] /\ proc[p].pc = "acquire"
              /\ row' = [epoch |-> row.epoch + 1, live |-> TRUE]
            BY <1>2, <2>0, Zenon DEF Acquire
        <2>2. r \in Attempts
            BY <2>0, ZenonT(30) DEF Attempts
        <2>3. /\ r.task = proc[p].task /\ r.permit = proc[p].permit /\ r.lease = row.epoch + 1
              /\ r.stage = (IF proc[p].seen = "none" THEN 0 ELSE T5) /\ r.draft = Draft(p)
              /\ r.seen = "none" /\ r.verdict = proc[p].verdict /\ r.pc = After(p)
            BY <2>0, ZenonT(30) DEF Attempts
        <2> HIDE DEF r
        <2>4. /\ proc' \in [Procs -> Attempts] /\ \A q \in Procs \ {p} : proc'[q] = proc[q]
              /\ proc'[p] = r
            BY <2>1, <2>2, ReplacedTyped
        <2>5. QED
            BY <1>2, <2>1, <2>3, <2>4 DEF Moved
    <1>3. QED
        BY <1>1, <1>2

\* The stage an attempt takes has no retrospective, and all before it have one.
LEMMA CollectEffect ==
    ASSUME TypeOK, NEW p \in Procs, Collect(p)
    PROVE  /\ proc[p].pc = "collect" /\ Moved(p)
           /\ \/ Ended(p, "failed") \/ Ended(p, "poll")
              \/ /\ proc'[p].pc = "narrate" /\ proc'[p].stage \in Stages
                 /\ Unwritten(proc'[p].stage)
                 /\ \A h \in 1 .. proc'[p].stage - 1 : ~Unwritten(h)
                 /\ proc'[p].lease = proc[p].lease /\ proc'[p].seen = proc[p].seen
                 /\ proc'[p].draft = proc[p].draft /\ proc'[p].verdict = proc[p].verdict
    <1> DEFINE h == Earliest(Pending(due))
               r == [proc[p] EXCEPT !.stage = h, !.pc = "narrate"]
    <1>0. /\ proc \in [Procs -> Attempts] /\ proc[p] \in Attempts /\ "narrate" \in Steps
          /\ proc[p].pc = "collect"
        BY ProcTyped DEF Steps, Collect
    <1>1. CASE Return(p, "failed") \/ Return(p, "poll")
        <2>1. "failed" \in Verdicts /\ "poll" \in Verdicts
            BY DEF Verdicts
        <2>2. QED
            BY <1>0, <1>1, <2>1, ReturnEffect DEF Ended
    <1>2. CASE Pending(due) # {} /\ proc' = [proc EXCEPT ![p].stage = h, ![p].pc = "narrate"]
        <2>1. /\ Pending(due) \in SUBSET (1 .. 3)
              /\ \A k \in 1 .. due : Unwritten(k) => k \in Pending(due)
              /\ \A k \in Pending(due) : Unwritten(k) /\ k <= due
            BY DEF Pending, TypeOK, T5
        <2>2. h \in Pending(due) /\ \A k \in Pending(due) : h <= k
            BY <1>2, <2>1, EarliestIs
        <2> HIDE DEF h
        <2>3. h \in Stages /\ h \in 0 .. T5 /\ Unwritten(h) /\ \A k \in 1 .. h - 1 : ~Unwritten(k)
            BY <2>1, <2>2 DEF Stages, T5, TypeOK
        <2>4. r \in Attempts
            BY <1>0, <2>3, ZenonT(30) DEF Attempts
        <2>5. proc' = [proc EXCEPT ![p] = r]
            BY <1>0, <1>2, Zenon
        <2>6. /\ r.task = proc[p].task /\ r.permit = proc[p].permit /\ r.lease = proc[p].lease
              /\ r.stage = h /\ r.draft = proc[p].draft /\ r.seen = proc[p].seen
              /\ r.verdict = proc[p].verdict /\ r.pc = "narrate"
            BY <1>0, ZenonT(30) DEF Attempts
        <2> HIDE DEF r
        <2>7. /\ proc' \in [Procs -> Attempts] /\ \A q \in Procs \ {p} : proc'[q] = proc[q]
              /\ proc'[p] = r
            BY <2>4, <2>5, ReplacedTyped
        <2>8. QED
            BY <1>0, <2>3, <2>6, <2>7 DEF Moved
    <1>3. QED
        BY <1>1, <1>2 DEF Collect

\* A model session ends with a draft, under both fences, or without one.
LEMMA NarrateEffect ==
    ASSUME TypeOK, NEW p \in Procs, Narrate(p)
    PROVE  /\ proc[p].pc = "narrate" /\ Moved(p)
           /\ \/ Ended(p, "failed")
              \/ /\ proc'[p].pc = (IF proc[p].task = Worker THEN "write"
                                   ELSE IF kind = "canary" THEN "compare" ELSE "evaluate")
                 /\ proc'[p].stage = proc[p].stage
                 /\ proc'[p].lease = proc[p].lease /\ proc'[p].seen = proc[p].seen
                 /\ proc'[p].verdict = proc[p].verdict
                 /\ \/ proc'[p].draft = proc[p].lease /\ Fenced(p)
                    \/ proc'[p].draft = proc[p].draft /\ proc[p].task = Worker
    <1> DEFINE next == IF proc[p].task = Worker THEN "write"
                       ELSE IF kind = "canary" THEN "compare" ELSE "evaluate"
               r == [proc[p] EXCEPT !.draft = proc[p].lease, !.pc = next]
    <1>0. /\ proc \in [Procs -> Attempts] /\ proc[p] \in Attempts /\ next \in Steps
          /\ proc[p].pc = "narrate" /\ proc[p].lease \in Nat /\ "failed" \in Verdicts
        BY ProcTyped DEF Steps, Narrate, Verdicts
    <1>1. CASE Return(p, "failed")
        BY <1>0, <1>1, ReturnEffect DEF Ended
    <1>2. CASE proc[p].task = Worker /\ Goto(p, next)
        <2>1. Went(p, next)
            BY <1>0, <1>2, GotoEffect
        <2>2. QED
            BY <1>0, <1>2, <2>1 DEF Went
    <1>3. CASE Fenced(p) /\ proc' = [proc EXCEPT ![p].draft = proc[p].lease, ![p].pc = next]
        <2>1. r \in Attempts
            BY <1>0, ZenonT(30) DEF Attempts
        <2>2. proc' = [proc EXCEPT ![p] = r]
            BY <1>0, <1>3, Zenon
        <2>3. /\ r.task = proc[p].task /\ r.permit = proc[p].permit /\ r.lease = proc[p].lease
              /\ r.stage = proc[p].stage /\ r.draft = proc[p].lease /\ r.seen = proc[p].seen
              /\ r.verdict = proc[p].verdict /\ r.pc = next
            BY <1>0, ZenonT(30) DEF Attempts
        <2> HIDE DEF r
        <2>4. /\ proc' \in [Procs -> Attempts] /\ \A q \in Procs \ {p} : proc'[q] = proc[q]
              /\ proc'[p] = r
            BY <2>1, <2>2, ReplacedTyped
        <2>5. QED
            BY <1>0, <1>3, <2>3, <2>4 DEF Moved
    <1>4. QED
        BY <1>1, <1>2, <1>3 DEF Narrate

\* The guard is dropped, the row of another epoch is left alone.
LEMMA LeaveEffect ==
    ASSUME TypeOK, NEW p \in Procs, Leave(p)
    PROVE  /\ proc[p].pc = "leave" /\ Moved(p)
           /\ proc'[p].pc = "finish" /\ proc'[p].lease = 0 /\ proc'[p].seen = proc[p].seen
           /\ proc'[p].stage = proc[p].stage /\ proc'[p].draft = proc[p].draft
           /\ proc'[p].verdict = proc[p].verdict
    <1> DEFINE r == [proc[p] EXCEPT !.pc = "finish", !.lease = 0]
    <1>0. /\ proc \in [Procs -> Attempts] /\ proc[p] \in Attempts /\ "finish" \in Steps
          /\ proc[p].pc = "leave" /\ 0 \in Nat
        BY ProcTyped DEF Steps, Leave
    <1>1. r \in Attempts
        BY <1>0, ZenonT(30) DEF Attempts
    <1>2. proc' = [proc EXCEPT ![p] = r]
        BY <1>0, Zenon DEF Leave
    <1>3. /\ r.task = proc[p].task /\ r.permit = proc[p].permit /\ r.lease = 0
          /\ r.stage = proc[p].stage /\ r.draft = proc[p].draft /\ r.seen = proc[p].seen
          /\ r.verdict = proc[p].verdict /\ r.pc = "finish"
        BY <1>0, ZenonT(30) DEF Attempts
    <1> HIDE DEF r
    <1>4. /\ proc' \in [Procs -> Attempts] /\ \A q \in Procs \ {p} : proc'[q] = proc[q]
          /\ proc'[p] = r
        BY <1>1, <1>2, ReplacedTyped
    <1>5. QED
        BY <1>0, <1>3, <1>4 DEF Moved

\* A suspension changes nothing but the thread's pace.
LEMMA SuspendEffect ==
    ASSUME TypeOK, NEW p \in Procs, Suspend(p)
    PROVE  Went(p, proc[p].pc)
    <1> DEFINE r == [proc[p] EXCEPT !.slow = TRUE]
    <1>0. proc \in [Procs -> Attempts] /\ proc[p] \in Attempts
        BY ProcTyped
    <1>1. r \in Attempts
        BY <1>0, ZenonT(30) DEF Attempts
    <1>2. proc' = [proc EXCEPT ![p] = r]
        BY <1>0, Zenon DEF Suspend
    <1>3. /\ r.task = proc[p].task /\ r.permit = proc[p].permit /\ r.lease = proc[p].lease
          /\ r.stage = proc[p].stage /\ r.draft = proc[p].draft /\ r.seen = proc[p].seen
          /\ r.verdict = proc[p].verdict /\ r.pc = proc[p].pc
        BY <1>0, ZenonT(30) DEF Attempts
    <1> HIDE DEF r
    <1>4. /\ proc' \in [Procs -> Attempts] /\ \A q \in Procs \ {p} : proc'[q] = proc[q]
          /\ proc'[p] = r
        BY <1>1, <1>2, ReplacedTyped
    <1>5. QED
        BY <1>3, <1>4 DEF Went, Moved

\* A recovery takes the permits of a task's owners away.
LEMMA RecoverEffect ==
    ASSUME TypeOK, NEW t \in Tasks, Recover(t)
    PROVE  /\ proc' \in [Procs -> Attempts]
           /\ \A q \in Procs : /\ proc'[q].task = proc[q].task /\ proc'[q].pc = proc[q].pc
                               /\ proc'[q].lease = proc[q].lease /\ proc'[q].seen = proc[q].seen
                               /\ proc'[q].stage = proc[q].stage /\ proc'[q].draft = proc[q].draft
                               /\ proc'[q].verdict = proc[q].verdict
                               /\ proc'[q].permit <=> proc[q].permit /\ ~Owns(q, t)
    <1>0. proc \in [Procs -> Attempts]
        BY DEF TypeOK
    <1>1. proc' = [p \in Procs |-> IF p \in Owner(t) THEN [proc[p] EXCEPT !.permit = FALSE] ELSE proc[p]]
        BY DEF Recover
    <1>2. \A p \in Procs : [proc[p] EXCEPT !.permit = FALSE] \in Attempts
        BY <1>0, ZenonT(30) DEF Attempts
    <1>3. proc' \in [Procs -> Attempts]
        BY <1>0, <1>1, <1>2
    <1>4. SUFFICES ASSUME NEW q \in Procs
                   PROVE  /\ proc'[q].task = proc[q].task /\ proc'[q].pc = proc[q].pc
                          /\ proc'[q].lease = proc[q].lease /\ proc'[q].seen = proc[q].seen
                          /\ proc'[q].stage = proc[q].stage /\ proc'[q].draft = proc[q].draft
                          /\ proc'[q].verdict = proc[q].verdict
                          /\ proc'[q].permit <=> proc[q].permit /\ ~Owns(q, t)
        BY <1>3
    <1>5. proc[q] \in Attempts /\ proc[q].permit \in BOOLEAN
        BY ProcTyped
    <1>6. CASE Owns(q, t)
        <2>1. proc'[q] = [proc[q] EXCEPT !.permit = FALSE]
            BY <1>1, <1>6 DEF Owner, Owns
        <2>2. QED
            BY <1>5, <1>6, <2>1 DEF Attempts
    <1>7. CASE ~Owns(q, t)
        <2>1. proc'[q] = proc[q]
            BY <1>1, <1>7 DEF Owner, Owns
        <2>2. QED
            BY <1>5, <1>7, <2>1
    <1>8. QED
        BY <1>6, <1>7
\* Every action of an attempt but Finish leaves the attempt under way.
LEMMA StepMoves ==
    ASSUME TypeOK, NEW p \in Procs, (Step(p) /\ ~Finish(p)) \/ Break(p) \/ Suspend(p)
    PROVE  Moved(p) /\ proc[p].pc # "idle"
    <1>0. /\ "failed" \in Verdicts /\ "poll" \in Verdicts /\ "again" \in Verdicts
          /\ "committed" \in Verdicts
        BY DEF Verdicts
    <1>1. \A v \in Verdicts : Return(p, v) => Moved(p)
        BY ReturnEffect DEF Ended
    <1>2. \A pc \in Steps : Goto(p, pc) => Moved(p)
        BY GotoEffect DEF Went
    <1>3. "lessons" \in Steps /\ "subjects" \in Steps /\ "compare" \in Steps /\ "apply" \in Steps
        BY DEF Steps
    <1>4. CASE Look(p)
        BY <1>4, LookEffect
    <1>5. CASE Acquire(p)
        BY <1>5, AcquireEffect
    <1>6. CASE Collect(p)
        BY <1>6, CollectEffect
    <1>7. CASE Narrate(p)
        BY <1>7, NarrateEffect
    <1>8. CASE WritePartial(p)
        BY <1>0, <1>1, <1>8 DEF WritePartial, Refused
    <1>9. CASE Seal(p)
        BY <1>0, <1>1, <1>2, <1>3, <1>9 DEF Seal, Refused
    <1>10. CASE Evaluate(p)
        BY <1>0, <1>1, <1>2, <1>3, <1>10 DEF Evaluate, Refused
    <1>11. CASE Lessons(p)
        BY <1>0, <1>1, <1>2, <1>3, <1>11 DEF Lessons
    <1>12. CASE Compare(p)
        BY <1>0, <1>1, <1>2, <1>3, <1>12 DEF Compare, Refused
    <1>13. CASE Subject(p)
        BY <1>0, <1>1, <1>2, <1>3, <1>13 DEF Subject, Refused
    <1>14. CASE Apply(p)
        BY <1>0, <1>1, <1>14 DEF Apply
    <1>15. CASE Leave(p)
        BY <1>15, LeaveEffect
    <1>16. CASE Break(p)
        BY <1>0, <1>1, <1>16 DEF Break, Working
    <1>17. CASE Suspend(p)
        BY <1>17, SuspendEffect DEF Suspend, Working, Went
    <1>18. QED
        BY <1>4, <1>5, <1>6, <1>7, <1>8, <1>9, <1>10, <1>11, <1>12, <1>13, <1>14, <1>15, <1>16,
           <1>17 DEF Step

\* What an attempt that ends leaves behind for its task.
LEMMA FinishEffect ==
    ASSUME TypeOK, NEW p \in Procs, Finish(p)
    PROVE  /\ Started(p, Worker, FALSE, "idle") /\ proc[p].pc = "finish"
           /\ \/ UNCHANGED queue
              \/ /\ proc[p].permit /\ task[proc[p].task] = "running"
                 /\ proc[p].verdict # "committed"
                 /\ \E s \in {"succeeded", "failed", "queued"} :
                        /\ task' = [task EXCEPT ![proc[p].task] = s]
                        /\ s = "succeeded" => proc[p].verdict = "no_output"
                 /\ \E w \in {"ready", "poll", "lease"} :
                        wait' = [wait EXCEPT ![proc[p].task] = w]
    <1>1. Started(p, Worker, FALSE, "idle") /\ proc[p].pc = "finish"
        BY IdleStarts DEF Finish
    <1>2. QED
        BY <1>1 DEF Finish

\* Every step of an attempt is well typed.
LEMMA StepTyped ==
    ASSUME TypeOK, NEW p \in Procs, Step(p)
    PROVE  TypeOK'
    <1>0. /\ proc[p].task \in Tasks /\ proc[p].stage \in 0 .. T5 /\ proc[p].lease \in Nat
          /\ proc[p].draft \in Nat
        BY ProcTyped
    <1>1. proc' \in [Procs -> Attempts]
        BY StepMoves, FinishEffect DEF Moved, Started
    <1>2. task' \in [Tasks -> TaskStatus] /\ wait' \in [Tasks -> {"ready", "poll", "lease"}]
        <2>0. "succeeded" \in TaskStatus /\ "failed" \in TaskStatus /\ "queued" \in TaskStatus
            BY DEF TaskStatus
        <2>1. /\ task \in [Tasks -> TaskStatus] /\ wait \in [Tasks -> {"ready", "poll", "lease"}]
            BY DEF TypeOK
        <2>2. CASE Finish(p)
            <3>1. CASE UNCHANGED queue
                BY <2>1, <3>1 DEF queue
            <3>2. CASE ~UNCHANGED queue
                <4>1. PICK s \in {"succeeded", "failed", "queued"} :
                          task' = [task EXCEPT ![proc[p].task] = s]
                    BY <2>2, <3>2, FinishEffect
                <4>2. PICK w \in {"ready", "poll", "lease"} :
                          wait' = [wait EXCEPT ![proc[p].task] = w]
                    BY <2>2, <3>2, FinishEffect
                <4>3. QED
                    BY <1>0, <2>0, <2>1, <4>1, <4>2
            <3>3. QED
                BY <3>1, <3>2
        <2>3. CASE ~Finish(p)
            <3>1. wait' = wait /\ (task' = task \/ Succeed(p))
                BY <2>3 DEF Step, Look, Acquire, Collect, Narrate, WritePartial, Seal, Evaluate, Lessons,
                    Compare, Subject, Apply, Leave, Refused, queue
            <3>2. QED
                BY <1>0, <2>0, <2>1, <3>1 DEF Succeed
        <2>4. QED
            BY <2>2, <2>3
    <1>3. row' \in [epoch : Nat, live : BOOLEAN]
        <2>0. row \in [epoch : Nat, live : BOOLEAN]
            BY DEF TypeOK
        <2>1. row' = row \/ row' = [epoch |-> row.epoch + 1, live |-> TRUE] \/ row' = Released(row)
            BY DEF Step, Look, Acquire, Collect, Narrate, WritePartial, Seal, Evaluate, Lessons,
                Compare, Subject, Apply, Leave, Finish, Refused
        <2>2. [epoch |-> row.epoch + 1, live |-> TRUE] \in [epoch : Nat, live : BOOLEAN]
            BY <2>0
        <2>3. Released(row) \in [epoch : Nat, live : BOOLEAN]
            BY <2>0 DEF Released
        <2>4. QED
            BY <2>0, <2>1, <2>2, <2>3
    <1>4. UNCHANGED <<kind, due, shadows, faults>> /\ level' \in {level, FALSE}
        BY DEF Step, Look, Acquire, Collect, Narrate, WritePartial, Seal, Evaluate, Lessons,
            Compare, Subject, Apply, Leave, Finish, Refused, world
    <1>5. CASE UNCHANGED record
        BY <1>1, <1>2, <1>3, <1>4, <1>5 DEF TypeOK, record
    <1>6. CASE WritePartial(p) \/ Seal(p) \/ Evaluate(p) \/ Lessons(p) \/ Subject(p)
        <2>1. /\ retro \in [Stages -> {"none", "unavailable", "complete"}]
              /\ sealed \in Nat /\ narr \in Nat /\ memory \in Nat /\ lessons \in BOOLEAN
              /\ compared \in [Subjects -> Nat]
            BY DEF TypeOK
        <2>2. T5 \in Stages /\ (proc[p].stage # T5 => TRUE)
            BY DEF T5, Stages
        <2>3. /\ retro' \in [Stages -> {"none", "unavailable", "complete"}]
              /\ sealed' \in Nat /\ narr' \in Nat /\ memory' \in Nat /\ lessons' \in BOOLEAN
              /\ compared' \in [Subjects -> Nat]
            <3>1. CASE WritePartial(p)
                BY <1>0, <2>1, <3>1 DEF WritePartial, Refused, record
            <3>2. CASE Seal(p)
                BY <1>0, <2>1, <2>2, <3>2 DEF Seal, Refused, record
            <3>3. CASE Evaluate(p)
                BY <1>0, <2>1, <2>2, <3>3 DEF Evaluate, Refused, record, Narrate5
            <3>4. CASE Lessons(p)
                BY <2>1, <3>4 DEF Lessons
            <3>5. CASE Subject(p)
                BY <1>0, <2>1, <2>2, <3>5 DEF Subject, Refused, record, Narrate5
            <3>6. QED
                BY <1>6, <3>1, <3>2, <3>3, <3>4, <3>5
        <2>4. QED
            BY <1>1, <1>2, <1>3, <1>4, <2>3 DEF TypeOK
    <1>7. QED
        BY <1>5, <1>6 DEF Step, Look, Acquire, Collect, Narrate, Compare, Apply, Leave, Finish, Refused

\* Every step of the system is well typed.
LEMMA TypedNext == TypeOK /\ [Next]_vars => TypeOK'
    <1> SUFFICES ASSUME TypeOK, [Next]_vars PROVE TypeOK'
        OBVIOUS
    <1>1. ASSUME NEW p \in Procs, Step(p) PROVE TypeOK'
        BY <1>1, StepTyped
    <1>2. ASSUME NEW p \in Procs, Crash(p) PROVE TypeOK'
        <2>1. proc' \in [Procs -> Attempts]
            BY <1>2, IdleStarts DEF Crash, Started
        <2>2. QED
            BY <1>2, <2>1 DEF Crash, Fault, TypeOK, world, queue, record
    <1>3. ASSUME NEW p \in Procs, Break(p) \/ Suspend(p) PROVE TypeOK'
        <2>1. proc' \in [Procs -> Attempts]
            BY <1>3, StepMoves DEF Moved
        <2>2. QED
            BY <1>3, <2>1 DEF Break, Suspend, Fault, TypeOK, world, queue, record
    <1>4. ASSUME NEW p \in Procs, NEW t \in Tasks, Claim(p, t) PROVE TypeOK'
        <2>1. proc' \in [Procs -> Attempts] /\ "look" \in Steps
            BY <1>4, FreshStarts DEF Claim, Started, Steps
        <2>2. QED
            BY <1>4, <2>1 DEF Claim, TypeOK, TaskStatus, world, record
    <1>5. ASSUME NEW t \in Tasks, Wake(t) PROVE TypeOK'
        BY <1>5 DEF Wake, TypeOK, world, record
    <1>6. ASSUME NEW t \in Tasks, Recover(t) PROVE TypeOK'
        <2>1. proc' \in [Procs -> Attempts]
            BY <1>6, RecoverEffect
        <2>2. QED
            BY <1>6, <2>1 DEF Recover, TypeOK, TaskStatus, world, record
    <1>7. ASSUME NEW r \in Repairs, RequestRepair(r) PROVE TypeOK'
        BY <1>7, WorkerIsTask DEF RequestRepair, TypeOK, TaskStatus, world, record
    <1>8. CASE MarketMoves \/ ShadowsSeal \/ CampaignMoves
        <2>1. due \in 0 .. T5 /\ due < T5 => due + 1 \in 0 .. T5
            BY DEF T5
        <2>2. QED
            BY <1>8, <2>1 DEF MarketMoves, ShadowsSeal, CampaignMoves, TypeOK, queue, record
    <1>9. CASE Lapse
        <2>1. row' \in [epoch : Nat, live : BOOLEAN]
            BY <1>9 DEF Lapse, Released, TypeOK
        <2>2. QED
            BY <1>9, <2>1 DEF Lapse, TypeOK, world, queue, record
    <1>10. CASE UNCHANGED vars
        BY <1>10 DEF TypeOK, vars, world, queue, record
    <1>11. QED
        BY <1>1, <1>2, <1>3, <1>4, <1>5, <1>6, <1>7, <1>8, <1>9, <1>10 DEF Next

(***************************************************************************)
(* The paths of the attempts.                                              *)
(***************************************************************************)
LEMMA StepPath ==
    ASSUME TypeOK, NEW p \in Procs, Step(p) \/ Break(p) \/ Suspend(p), PathOf(p)
    PROVE  PathOf(p)' /\ kind' = kind
    <1>0. /\ "failed" \in Verdicts /\ "poll" \in Verdicts /\ "again" \in Verdicts
          /\ "committed" \in Verdicts
        BY DEF Verdicts
    <1>1. \A v \in Verdicts : Return(p, v) => proc'[p].pc = "leave" /\ proc'[p].verdict = v
        BY ReturnEffect DEF Ended
    <1>2. \A pc \in Steps : Goto(p, pc) => Went(p, pc)
        BY GotoEffect
    <1>3. "lessons" \in Steps /\ "subjects" \in Steps /\ "compare" \in Steps /\ "apply" \in Steps
        BY DEF Steps
    <1>4. kind' = kind
        BY DEF Step, Look, Acquire, Collect, Narrate, WritePartial, Seal, Evaluate, Lessons,
            Compare, Subject, Apply, Leave, Finish, Refused, Break, Suspend, world
    <1>5. \A v \in {"failed", "poll", "again", "committed"} : Return(p, v) => PathOf(p)'
        BY <1>0, <1>1, <1>4 DEF PathOf
    <1>6. CASE Look(p)
        <2>1. TypeOK /\ proc'[p].task = proc[p].task
            BY <1>6, LookEffect DEF Moved
        <2>2. CASE proc'[p].pc = "leave"
            BY <1>4, <1>6, <2>2, LookEffect DEF PathOf
        <2>3. CASE proc'[p].pc = "acquire"
            <3>1. proc[p].task = Worker /\ retro[T5] # "none" => kind = "canary"
                <4>1. proc \in [Procs -> Attempts]
                    BY DEF TypeOK
                <4>2. QED
                    BY <1>6, <2>3, <4>1 DEF Look, Attempts
            <3>2. QED
                BY <1>4, <1>6, <2>1, <2>3, <3>1, LookEffect DEF PathOf
        <2>4. QED
            BY <1>6, <2>2, <2>3, LookEffect
    <1>7. CASE Acquire(p)
        <2>1. proc'[p].task = proc[p].task
            BY <1>7, AcquireEffect DEF Moved
        <2>2. CASE row.live
            BY <1>4, <1>7, <2>1, <2>2, AcquireEffect DEF PathOf, Ended
        <2>3. CASE ~row.live
            BY <1>4, <1>7, <2>1, <2>3, AcquireEffect DEF PathOf, After
        <2>4. QED
            BY <2>2, <2>3
    <1>8. CASE Collect(p)
        <2>1. proc'[p].task = proc[p].task
            BY <1>8, CollectEffect DEF Moved
        <2>2. QED
            BY <1>4, <1>8, <2>1, CollectEffect DEF PathOf, Ended
    <1>9. CASE Narrate(p)
        <2>1. proc'[p].task = proc[p].task
            BY <1>9, NarrateEffect DEF Moved
        <2>2. QED
            BY <1>4, <1>9, <2>1, NarrateEffect DEF PathOf, Ended
    <1>10. CASE Leave(p)
        BY <1>4, <1>10, LeaveEffect DEF PathOf
    <1>11. CASE Finish(p)
        BY <1>4, <1>11, FinishEffect DEF PathOf, Started
    <1>12. CASE Suspend(p)
        BY <1>4, <1>12, SuspendEffect DEF PathOf, Went, Moved
    <1>13. proc[p].verdict = "none" /\ Goto(p, "lessons") => PathOf(p)'
        BY <1>2, <1>3, <1>4 DEF PathOf, Went
    <1>14. ASSUME proc[p].verdict = "none", kind = "canary",
                  NEW pc \in {"compare", "subjects", "apply", "lessons"}, Goto(p, pc)
           PROVE  PathOf(p)'
        BY <1>2, <1>3, <1>4, <1>14 DEF PathOf, Went
    <1>15. CASE WritePartial(p)
        BY <1>4, <1>5, <1>15 DEF WritePartial, Refused
    <1>16. CASE Seal(p)
        <2>1. proc[p].verdict = "none"
            BY <1>16 DEF PathOf, Seal
        <2>2. CASE kind = "canary" /\ Goto(p, "compare")
            BY <1>4, <1>14, <2>1, <2>2
        <2>3. CASE \/ Return(p, "failed") \/ Return(p, "committed") \/ Goto(p, "lessons")
            BY <1>4, <1>5, <1>13, <2>1, <2>3
        <2>4. QED
            BY <1>16, <2>2, <2>3 DEF Seal, Refused
    <1>17. CASE Evaluate(p)
        <2>1. proc[p].verdict = "none"
            BY <1>17 DEF PathOf, Evaluate
        <2>2. QED
            BY <1>4, <1>5, <1>13, <1>17, <2>1 DEF Evaluate, Refused
    <1>18. CASE Lessons(p)
        <2>1. proc[p].verdict = "none"
            BY <1>18 DEF PathOf, Lessons
        <2>2. CASE kind = "canary" /\ Goto(p, "subjects")
            BY <1>4, <1>14, <2>1, <2>2
        <2>3. CASE Return(p, "committed")
            BY <1>4, <1>5, <2>3
        <2>4. QED
            BY <1>18, <2>2, <2>3 DEF Lessons
    <1>19. CASE Compare(p)
        <2>1. proc[p].verdict = "none" /\ kind = "canary"
            BY <1>19 DEF PathOf, Compare
        <2>2. CASE Goto(p, "subjects")
            BY <1>4, <1>14, <2>1, <2>2
        <2>3. CASE \/ Return(p, "failed") \/ Return(p, "committed") \/ Return(p, "poll")
            BY <1>4, <1>5, <2>3
        <2>4. QED
            BY <1>19, <2>2, <2>3 DEF Compare, Refused
    <1>20. CASE Subject(p)
        <2>1. proc[p].verdict = "none" /\ kind = "canary"
            BY <1>20 DEF PathOf, Subject
        <2>2. CASE Goto(p, "apply") \/ Goto(p, "lessons")
            BY <1>4, <1>14, <2>1, <2>2
        <2>3. CASE Return(p, "failed")
            BY <1>4, <1>5, <2>3
        <2>4. QED
            BY <1>20, <2>2, <2>3 DEF Subject, Refused
    <1>21. CASE Apply(p)
        BY <1>4, <1>5, <1>21 DEF Apply
    <1>22. CASE Break(p)
        BY <1>4, <1>5, <1>22 DEF Break
    <1>23. QED
        BY <1>4, <1>6, <1>7, <1>8, <1>9, <1>10, <1>11, <1>12, <1>15, <1>16, <1>17, <1>18, <1>19,
           <1>20, <1>21, <1>22 DEF Step

\* What the steps of the others leave as it is.
LEMMA OthersStay ==
    ASSUME TypeOK, NEW p \in Procs,
           Step(p) \/ Break(p) \/ Suspend(p) \/ Crash(p) \/ \E t \in Tasks : Claim(p, t)
    PROVE  \A q \in Procs \ {p} : proc'[q] = proc[q]
    <1>1. "look" \in Steps
        BY DEF Steps
    <1>2. CASE Step(p) \/ Break(p) \/ Suspend(p)
        BY <1>2, StepMoves, FinishEffect DEF Moved, Started
    <1>3. CASE Crash(p)
        BY <1>3, IdleStarts DEF Started, Crash
    <1>4. CASE \E t \in Tasks : Claim(p, t)
        BY <1>1, <1>4, FreshStarts DEF Started, Claim
    <1>5. QED
        BY <1>2, <1>3, <1>4

\* No step takes an attempt off the paths of the handler.
LEMMA PathsNext == TypeOK /\ Paths /\ [Next]_vars => Paths'
    <1> SUFFICES ASSUME TypeOK, Paths, [Next]_vars PROVE Paths'
        OBVIOUS
    <1>1. ASSUME NEW p \in Procs, Step(p) \/ Break(p) \/ Suspend(p) PROVE Paths'
        <2>1. PathOf(p)' /\ kind' = kind
            BY <1>1, StepPath DEF Paths
        <2>2. ASSUME NEW q \in Procs \ {p} PROVE PathOf(q)'
            <3>1. proc'[q] = proc[q]
                BY <1>1, OthersStay
            <3>2. QED
                BY <2>1, <3>1 DEF Paths, PathOf
        <2>3. QED
            BY <2>1, <2>2 DEF Paths
    <1>2. ASSUME NEW p \in Procs, Crash(p) \/ \E t \in Tasks : Claim(p, t) PROVE Paths'
        <2>1. kind' = kind /\ "look" \in Steps
            BY <1>2 DEF Crash, Claim, world, Steps
        <2>2. PathOf(p)'
            <3>1. Started(p, Worker, FALSE, "idle") \/ \E t \in Tasks : Started(p, t, TRUE, "look")
                BY <1>2, <2>1, IdleStarts, FreshStarts DEF Crash, Claim
            <3>2. QED
                BY <2>1, <3>1 DEF Started, PathOf
        <2>3. ASSUME NEW q \in Procs \ {p} PROVE PathOf(q)'
            <3>1. proc'[q] = proc[q]
                BY <1>2, OthersStay
            <3>2. QED
                BY <2>1, <3>1 DEF Paths, PathOf
        <2>4. QED
            BY <2>2, <2>3 DEF Paths
    <1>3. ASSUME NEW t \in Tasks, Recover(t) PROVE Paths'
        <2>1. kind' = kind
            BY <1>3 DEF Recover, world
        <2>2. QED
            BY <1>3, <2>1, RecoverEffect DEF Paths, PathOf
    <1>4. CASE kind' = kind /\ proc' = proc
        BY <1>4 DEF Paths, PathOf
    <1>5. QED
        BY <1>1, <1>2, <1>3, <1>4 DEF Next, Wake, RequestRepair, MarketMoves, ShadowsSeal,
            CampaignMoves, Lapse, vars, world

(***************************************************************************)
(* Who may write: one outcome task at a time, and one attempt at it.       *)
(***************************************************************************)
LEMMA StepTask ==
    ASSUME TypeOK, Paths, NEW p \in Procs, (Step(p) /\ ~Finish(p)) \/ Break(p) \/ Suspend(p)
    PROVE  /\ kind' = kind /\ proc[p].pc # "idle" /\ proc'[p].pc # "idle" /\ Moved(p)
           /\ \/ task' = task /\ (MayWrite(p)' => MayWrite(p))
              \/ Succeed(p) /\ MayWrite(p) /\ ~MayWrite(p)'
    <1>0. /\ "failed" \in Verdicts /\ "poll" \in Verdicts /\ "again" \in Verdicts
          /\ "committed" \in Verdicts
          /\ "lessons" \in Steps /\ "subjects" \in Steps /\ "compare" \in Steps /\ "apply" \in Steps
        BY DEF Verdicts, Steps
    <1>1. kind' = kind /\ proc[p].pc # "idle" /\ Moved(p) /\ PathOf(p)
        BY StepMoves, StepPath DEF Paths
    <1> DEFINE Onward == proc'[p].pc # "idle"
               Fenceless == ~MayWrite(p)'
    <1>2. ASSUME NEW v \in {"failed", "poll", "again", "committed"}, Return(p, v)
          PROVE  Onward /\ Fenceless
        BY <1>0, <1>2, ReturnEffect DEF Ended, MayWrite, Fencing
    <1>3. ASSUME NEW pc \in {"lessons", "subjects", "compare", "apply"}, Goto(p, pc)
          PROVE  Went(p, pc) /\ Onward
        BY <1>0, <1>3, GotoEffect DEF Went
    <1>4. (Succeed(p) \/ task' = task) /\ proc'[p].permit = proc[p].permit
        BY <1>1 DEF Moved, Step, Look, Acquire, Collect, Narrate, WritePartial, Seal, Evaluate, Lessons,
            Compare, Subject, Apply, Leave, Refused, queue, Break, Suspend
    <1>5. CASE Look(p)
        BY <1>1, <1>4, <1>5, LookEffect DEF MayWrite, Fencing, Look, queue
    <1>6. CASE Acquire(p)
        <2>1. Onward
            BY <1>6, AcquireEffect DEF Ended, After
        <2>2. QED
            BY <1>1, <1>4, <1>6, <2>1 DEF MayWrite, Fencing, Acquire, queue
    <1>7. CASE Collect(p)
        BY <1>1, <1>4, <1>7, CollectEffect DEF Ended, MayWrite, Fencing, Collect, queue
    <1>8. CASE Narrate(p)
        BY <1>1, <1>4, <1>8, NarrateEffect DEF Ended, MayWrite, Fencing, Narrate, queue
    <1>9. CASE WritePartial(p)
        BY <1>1, <1>2, <1>9 DEF WritePartial, Refused
    <1>10. CASE Leave(p)
        BY <1>1, <1>10, LeaveEffect DEF MayWrite, Fencing, Leave, queue
    <1>11. CASE Suspend(p)
        BY <1>1, <1>4, <1>11, SuspendEffect DEF MayWrite, Went, Suspend, queue
    <1>12. CASE Break(p)
        BY <1>1, <1>2, <1>12 DEF Break, queue
    <1>13. CASE Seal(p)
        <2>1. proc[p].pc = "write"
            BY <1>13 DEF Seal
        <2>2. CASE Refused(p)
            BY <1>1, <1>2, <2>2 DEF Refused
        <2>3. CASE Fenced(p) /\ Goto(p, "compare") /\ task' = task
            BY <1>1, <1>3, <2>1, <2>3 DEF MayWrite, Fencing, Fenced
        <2>4. CASE Fenced(p) /\ kind # "canary" /\ Goto(p, "lessons") /\ Succeed(p)
            BY <1>1, <1>3, <2>1, <2>4 DEF MayWrite, Fencing, Fenced, Went
        <2>5. CASE Fenced(p) /\ Return(p, "committed") /\ Succeed(p)
            BY <1>1, <1>2, <2>1, <2>5 DEF MayWrite, Fencing, Fenced
        <2>6. QED
            BY <1>13, <2>2, <2>3, <2>4, <2>5 DEF Seal
    <1>14. CASE Evaluate(p)
        <2>1. proc[p].pc = "evaluate" /\ kind # "canary"
            BY <1>1, <1>14 DEF Evaluate, PathOf
        <2>2. CASE Refused(p) \/ (Return(p, "committed") /\ task' = task)
            BY <1>1, <1>2, <2>2 DEF Refused
        <2>3. CASE Fenced(p) /\ Goto(p, "lessons") /\ Succeed(p)
            BY <1>1, <1>3, <2>1, <2>3 DEF MayWrite, Fencing, Fenced, Went
        <2>4. QED
            BY <1>14, <2>2, <2>3 DEF Evaluate
    <1>15. CASE Lessons(p)
        <2>1. proc[p].pc = "lessons" /\ task' = task
            BY <1>15 DEF Lessons, queue
        <2>2. CASE Return(p, "committed")
            BY <1>1, <1>2, <2>1, <2>2
        <2>3. CASE kind = "canary" /\ Goto(p, "subjects")
            BY <1>1, <1>3, <1>4, <2>1, <2>3 DEF MayWrite, Fencing
        <2>4. QED
            BY <1>15, <2>2, <2>3 DEF Lessons
    <1>16. CASE Compare(p)
        <2>1. proc[p].pc = "compare"
            BY <1>16 DEF Compare
        <2>2. CASE Refused(p) \/ (Return(p, "poll") /\ task' = task)
            BY <1>1, <1>2, <2>2 DEF Refused
        <2>3. CASE proc[p].permit /\ Succeed(p) /\ Return(p, "committed")
            BY <1>1, <1>2, <2>1, <2>3 DEF MayWrite, Fencing
        <2>4. CASE Goto(p, "subjects") /\ task' = task
            BY <1>1, <1>3, <1>4, <2>1, <2>4 DEF MayWrite, Fencing
        <2>5. QED
            BY <1>16, <2>2, <2>3, <2>4 DEF Compare
    <1>17. CASE Subject(p)
        <2>1. proc[p].pc = "subjects"
            BY <1>17 DEF Subject
        <2>2. CASE Refused(p)
            BY <1>1, <1>2, <2>2 DEF Refused
        <2>3. CASE (Goto(p, "apply") \/ Goto(p, "lessons")) /\ task' = task
            BY <1>1, <1>3, <1>4, <2>1, <2>3 DEF MayWrite, Fencing
        <2>4. QED
            BY <1>17, <2>2, <2>3 DEF Subject
    <1>18. CASE Apply(p)
        <2>1. proc[p].pc = "apply"
            BY <1>18 DEF Apply
        <2>2. CASE Return(p, "failed") /\ task' = task
            BY <1>1, <1>2, <2>2
        <2>3. CASE Fenced(p) /\ Succeed(p) /\ Return(p, "committed")
            BY <1>1, <1>2, <2>1, <2>3 DEF MayWrite, Fencing, Fenced
        <2>4. QED
            BY <1>18, <2>2, <2>3 DEF Apply
    <1>19. QED
        BY <1>5, <1>6, <1>7, <1>8, <1>9, <1>10, <1>11, <1>12, <1>13, <1>14, <1>15, <1>16, <1>17,
           <1>18 DEF Step

\* Two attempts that may write are one.
LEMMA SoleWriter ==
    ASSUME TypeOK, Ownership, NEW p \in Procs, NEW q \in Procs, MayWrite(p), MayWrite(q)
    PROVE  p = q
    <1>1. /\ proc[p].task \in Tasks /\ proc[q].task \in Tasks
          /\ task[proc[p].task] = "running" /\ task[proc[q].task] = "running"
        BY ProcTyped DEF Ownership, OwnerRuns
    <1>2. proc[p].task = proc[q].task
        BY <1>1 DEF Ownership, OneTask, Active
    <1>3. Owns(p, proc[p].task) /\ Owns(q, proc[p].task)
        BY <1>2 DEF MayWrite, Owns, Fencing
    <1>4. QED
        BY <1>1, <1>3 DEF Ownership, OneOwner

\* Ownership survives when no permit is given and no task starts.
LEMMA OwnershipKept ==
    ASSUME TypeOK, Ownership, kind' = kind,
           task' \in [Tasks -> TaskStatus],
           \A t \in Tasks : \/ task'[t] = task[t]
                            \/ task[t] = "running" /\ task'[t] \in {"succeeded", "failed"},
           \A q \in Procs : \A t \in Tasks : Owns(q, t)' => Owns(q, t),
           \A q \in Procs : MayWrite(q)' =>
                /\ MayWrite(q) /\ proc'[q].task = proc[q].task
                /\ task'[proc[q].task] = task[proc[q].task]
    PROVE  Ownership'
    <1>1. OneTask'
        BY WorkerIsTask DEF Ownership, OneTask, Active
    <1>2. OneOwner'
        BY DEF Ownership, OneOwner
    <1>3. OwnerRuns'
        BY DEF Ownership, OwnerRuns
    <1>4. QED
        BY <1>1, <1>2, <1>3 DEF Ownership

\* An attempt that ends requeues its task only when nobody owns it any more.
LEMMA FinishOwnership ==
    ASSUME TypeOK, Ownership, NEW p \in Procs, Finish(p)
    PROVE  Ownership'
    <1>0. /\ TypeOK' /\ kind' = kind /\ task \in [Tasks -> TaskStatus]
          /\ proc[p].task \in Tasks /\ proc[p].pc = "finish"
        BY TypedNext, ProcTyped DEF Next, Step, Finish, world, TypeOK
    <1>1. Started(p, Worker, FALSE, "idle")
        BY FinishEffect
    <1>2. \A q \in Procs : \A t \in Tasks : Owns(q, t)' => Owns(q, t) /\ q # p
        BY <1>1 DEF Started, Owns
    <1>3. \A q \in Procs : MayWrite(q)' => MayWrite(q) /\ proc'[q] = proc[q] /\ q # p
        BY <1>0, <1>1 DEF Started, MayWrite, Fencing
    <1>4. CASE UNCHANGED queue
        BY <1>0, <1>2, <1>3, <1>4, OwnershipKept DEF queue
    <1>5. CASE ~UNCHANGED queue
        <2>0. PICK u \in Tasks : u = proc[p].task
            BY <1>0
        <2>1. proc[p].permit /\ task[u] = "running"
            BY <1>5, <2>0, FinishEffect
        <2>2. PICK s \in {"succeeded", "failed", "queued"} : task' = [task EXCEPT ![u] = s]
            BY <1>5, <2>0, FinishEffect
        <2>3. Owns(p, u)
            BY <1>0, <2>0, <2>1 DEF Owns
        <2>4. \A q \in Procs : ~Owns(q, u)'
            BY <1>0, <1>2, <2>1, <2>3 DEF Ownership, OneOwner
        <2>5. \A q \in Procs : MayWrite(q)' => proc[q].task # u
            <3>1. \A q \in Procs : MayWrite(q)' /\ proc[q].task = u => Owns(q, u)'
                BY <1>3 DEF MayWrite, Owns, Fencing
            <3>2. QED
                BY <2>4, <3>1
        <2>6. OneTask'
            BY <1>0, <2>1, <2>2, WorkerIsTask DEF Ownership, OneTask, Active
        <2>7. OneOwner'
            BY <1>0, <1>2, <2>1, <2>2, <2>4 DEF Ownership, OneOwner
        <2>8. OwnerRuns'
            BY <1>0, <1>3, <2>2, <2>5, ProcTyped DEF Ownership, OwnerRuns
        <2>9. QED
            BY <2>6, <2>7, <2>8 DEF Ownership
    <1>6. QED
        BY <1>4, <1>5

\* A claim gives the one permit of a task that had none.
LEMMA ClaimOwnership ==
    ASSUME TypeOK, Ownership, NEW p \in Procs, NEW t \in Tasks, Claim(p, t)
    PROVE  Ownership'
    <1>0. /\ kind' = kind /\ task \in [Tasks -> TaskStatus] /\ "look" \in Steps
          /\ task[t] = "queued" /\ task' = [task EXCEPT ![t] = "running"] /\ proc[p].pc = "idle"
        BY DEF Claim, world, TypeOK, Steps
    <1>1. Started(p, t, TRUE, "look")
        BY <1>0, FreshStarts DEF Claim
    <1>2. \A q \in Procs : \A u \in Tasks : Owns(q, u)' => Owns(q, u) \/ (q = p /\ u = t)
        BY <1>1 DEF Started, Owns
    <1>3. \A q \in Procs : ~Owns(q, t)
        BY <1>0 DEF Ownership, OneOwner
    <1>4. OneTask'
        BY <1>0, WorkerIsTask DEF Ownership, OneTask, Active
    <1>5. OneOwner'
        BY <1>0, <1>2, <1>3 DEF Ownership, OneOwner
    <1>6. OwnerRuns'
        <2>1. ASSUME NEW q \in Procs, MayWrite(q)'
              PROVE  task'[proc'[q].task] = "running"
            <3>1. CASE q = p
                BY <1>0, <1>1, <3>1 DEF Started
            <3>2. CASE q # p
                <4>1. MayWrite(q) /\ proc'[q] = proc[q]
                    BY <1>0, <1>1, <2>1, <3>2 DEF Started, MayWrite
                <4>2. QED
                    BY <1>0, <4>1, ProcTyped DEF Ownership, OwnerRuns
            <3>3. QED
                BY <3>1, <3>2
        <2>2. QED
            BY <2>1 DEF OwnerRuns
    <1>7. QED
        BY <1>4, <1>5, <1>6 DEF Ownership

\* A recovery takes every permit of the task before it is queued again.
LEMMA RecoverOwnership ==
    ASSUME TypeOK, Ownership, NEW t \in Tasks, Recover(t)
    PROVE  Ownership'
    <1>0. /\ kind' = kind /\ task \in [Tasks -> TaskStatus] /\ task[t] = "running"
        BY DEF Recover, world, TypeOK
    <1>1. PICK s \in {"queued", "failed"} : task' = [task EXCEPT ![t] = s]
        BY DEF Recover
    <1>2. \A q \in Procs : \A u \in Tasks : Owns(q, u)' => Owns(q, u) /\ u # t
        BY RecoverEffect DEF Owns
    <1>3. \A q \in Procs : MayWrite(q)' => MayWrite(q) /\ proc'[q].task = proc[q].task
                                           /\ proc[q].task # t
        BY <1>0, RecoverEffect DEF Owns, MayWrite, Fencing
    <1>4. OneTask'
        BY <1>0, <1>1, WorkerIsTask DEF Ownership, OneTask, Active
    <1>5. OneOwner'
        BY <1>0, <1>1, <1>2 DEF Ownership, OneOwner
    <1>6. OwnerRuns'
        BY <1>0, <1>1, <1>3, ProcTyped DEF Ownership, OwnerRuns
    <1>7. QED
        BY <1>4, <1>5, <1>6 DEF Ownership

\* Whatever is claimed, recovered or finished, one task runs and has one owner.
LEMMA OwnershipNext == TypeOK /\ Paths /\ Ownership /\ [Next]_vars => Ownership'
    <1> SUFFICES ASSUME TypeOK, Paths, Ownership, [Next]_vars PROVE Ownership'
        OBVIOUS
    <1>0. TypeOK' /\ task \in [Tasks -> TaskStatus] /\ task' \in [Tasks -> TaskStatus]
        BY TypedNext DEF TypeOK
    <1>1. ASSUME NEW p \in Procs, (Step(p) /\ ~Finish(p)) \/ Break(p) \/ Suspend(p)
          PROVE  Ownership'
        <2>1. /\ kind' = kind /\ proc[p].pc # "idle" /\ proc'[p].pc # "idle" /\ Moved(p)
              /\ \/ task' = task /\ (MayWrite(p)' => MayWrite(p))
                 \/ Succeed(p) /\ MayWrite(p) /\ ~MayWrite(p)'
            BY <1>1, StepTask
        <2>2. \A q \in Procs : \A t \in Tasks : Owns(q, t)' => Owns(q, t)
            BY <2>1 DEF Moved, Owns
        <2>3. \A q \in Procs : MayWrite(q)' => MayWrite(q) /\ proc'[q].task = proc[q].task
            BY <2>1 DEF Moved, MayWrite
        <2>4. CASE task' = task
            BY <1>0, <2>1, <2>2, <2>3, <2>4, OwnershipKept
        <2>5. CASE Succeed(p) /\ MayWrite(p) /\ ~MayWrite(p)'
            <3>1. proc[p].task \in Tasks /\ task[proc[p].task] = "running"
                BY <2>5, ProcTyped DEF Ownership, OwnerRuns
            <3>2. \A t \in Tasks : \/ task'[t] = task[t]
                                   \/ task[t] = "running" /\ task'[t] \in {"succeeded", "failed"}
                BY <1>0, <2>5, <3>1 DEF Succeed
            <3>3. ASSUME NEW q \in Procs, MayWrite(q)'
                  PROVE  task'[proc[q].task] = task[proc[q].task]
                <4>1. MayWrite(q) /\ q # p
                    BY <2>3, <2>5, <3>3
                <4>2. proc[q].task # proc[p].task
                    <5>1. CASE proc[q].task = proc[p].task
                        <6>1. Owns(p, proc[p].task) /\ Owns(q, proc[p].task)
                            BY <2>5, <4>1, <5>1 DEF MayWrite, Owns, Fencing
                        <6>2. QED
                            BY <3>1, <4>1, <6>1 DEF Ownership, OneOwner
                    <5>2. QED
                        BY <5>1
                <4>3. QED
                    BY <1>0, <2>5, <4>2, ProcTyped DEF Succeed
            <3>4. QED
                BY <1>0, <2>1, <2>2, <2>3, <3>2, <3>3, OwnershipKept
        <2>6. QED
            BY <2>1, <2>4, <2>5
    <1>2. ASSUME NEW p \in Procs, Finish(p) PROVE Ownership'
        BY <1>2, FinishOwnership
    <1>3. ASSUME NEW p \in Procs, Crash(p) PROVE Ownership'
        <2>1. kind' = kind /\ task' = task /\ Started(p, Worker, FALSE, "idle")
            BY <1>3, IdleStarts DEF Crash, world, queue
        <2>2. \A q \in Procs : \A t \in Tasks : Owns(q, t)' => Owns(q, t)
            BY <2>1 DEF Started, Owns
        <2>3. \A q \in Procs : MayWrite(q)' => MayWrite(q) /\ proc'[q].task = proc[q].task
            BY <2>1 DEF Started, MayWrite
        <2>4. QED
            BY <1>0, <2>1, <2>2, <2>3, OwnershipKept
    <1>4. ASSUME NEW p \in Procs, NEW t \in Tasks, Claim(p, t) PROVE Ownership'
        BY <1>4, ClaimOwnership
    <1>5. ASSUME NEW t \in Tasks, Recover(t) PROVE Ownership'
        BY <1>5, RecoverOwnership
    <1>6. ASSUME NEW r \in Repairs, RequestRepair(r) PROVE Ownership'
        <2>0. r \in Tasks /\ r # Worker
            BY WorkerIsTask
        <2>1. /\ kind' = kind /\ proc' = proc /\ task' = [task EXCEPT ![r] = "queued"]
              /\ task[r] = "absent" /\ \A t \in Tasks : task[t] \notin Active
            BY <1>6 DEF RequestRepair, world, Active
        <2>2. OneTask'
            BY <1>0, <2>0, <2>1 DEF Ownership, OneTask, Active
        <2>3. OneOwner'
            BY <1>0, <2>0, <2>1 DEF Ownership, OneOwner, Owns
        <2>4. OwnerRuns'
            BY <1>0, <2>0, <2>1, ProcTyped DEF Ownership, OwnerRuns, MayWrite
        <2>5. QED
            BY <2>2, <2>3, <2>4 DEF Ownership
    <1>7. CASE kind' = kind /\ proc' = proc /\ task' = task
        <2>1. /\ \A q \in Procs : \A t \in Tasks : Owns(q, t)' => Owns(q, t)
              /\ \A q \in Procs : MayWrite(q)' => MayWrite(q)
            BY <1>7 DEF Owns, MayWrite
        <2>2. QED
            BY <1>0, <1>7, <2>1, OwnershipKept
    <1>8. QED
        BY <1>1, <1>2, <1>3, <1>4, <1>5, <1>6, <1>7 DEF Next, Wake, MarketMoves, ShadowsSeal,
            CampaignMoves, Lapse, vars, world, queue

(***************************************************************************)
(* The epochs of the outcome's lease.                                      *)
(***************************************************************************)
\* No two attempts hold one epoch, and a grant gives a new one.
LEMMA EpochsNext == TypeOK /\ EpochsOnce /\ [Next]_vars => EpochsOnce'
    <1> SUFFICES ASSUME TypeOK, EpochsOnce, [Next]_vars PROVE EpochsOnce'
        OBVIOUS
    <1>0. /\ TypeOK' /\ row \in [epoch : Nat, live : BOOLEAN] /\ row.epoch \in Nat
          /\ \A q \in Procs : proc[q].lease \in Nat /\ proc'[q].lease \in Nat
        <2>1. TypeOK'
            BY TypedNext
        <2>2. row \in [epoch : Nat, live : BOOLEAN]
            BY DEF TypeOK
        <2>3. \A q \in Procs : proc[q].lease \in Nat
            BY ProcTyped
        <2>4. \A q \in Procs : proc'[q].lease \in Nat
            BY <2>1 DEF TypeOK, Attempts
        <2>5. QED
            BY <2>1, <2>2, <2>3, <2>4
    <1>1. CASE /\ row'.epoch = row.epoch /\ (row'.live => row.live)
               /\ \A q \in Procs : proc'[q].lease \in {proc[q].lease, 0}
        BY <1>0, <1>1 DEF EpochsOnce
    <1>2. row' = Released(row) => row'.epoch = row.epoch /\ ~row'.live
        BY <1>0 DEF Released
    <1>3. ASSUME NEW p \in Procs, Acquire(p) PROVE EpochsOnce'
        <2>1. Moved(p)
            BY <1>3, AcquireEffect
        <2>2. CASE row.live
            BY <1>1, <1>3, <2>1, <2>2, AcquireEffect DEF Ended, Moved
        <2>3. CASE ~row.live
            <3>1. /\ row'.epoch = row.epoch + 1
                  /\ \A q \in Procs : IF q = p THEN proc'[q].lease = row.epoch + 1
                                      ELSE proc'[q].lease = proc[q].lease
                BY <1>0, <1>3, <2>1, <2>3, AcquireEffect DEF Moved
            <3>2. QED
                BY <1>0, <3>1 DEF EpochsOnce
        <2>4. QED
            BY <2>2, <2>3
    <1>4. ASSUME NEW p \in Procs, Leave(p) PROVE EpochsOnce'
        <2>1. row' = row \/ row' = Released(row)
            BY <1>4 DEF Leave
        <2>2. \A q \in Procs : proc'[q].lease \in {proc[q].lease, 0}
            BY <1>4, LeaveEffect DEF Moved
        <2>3. QED
            BY <1>1, <1>2, <2>1, <2>2
    <1>5. ASSUME NEW p \in Procs,
                 (Step(p) /\ ~Acquire(p) /\ ~Leave(p)) \/ Break(p) \/ Suspend(p) \/ Crash(p)
          PROVE  EpochsOnce'
        <2>1. row' = row
            BY <1>5 DEF Step, Look, Collect, Narrate, WritePartial, Seal, Evaluate, Lessons,
                Compare, Subject, Apply, Finish, Refused, Break, Suspend, Crash
        <2>2. proc'[p].lease \in {proc[p].lease, 0}
            <3>0. /\ "failed" \in Verdicts /\ "poll" \in Verdicts /\ "again" \in Verdicts
                  /\ "committed" \in Verdicts
                  /\ "lessons" \in Steps /\ "subjects" \in Steps /\ "compare" \in Steps
                  /\ "apply" \in Steps
                BY DEF Verdicts, Steps
            <3> DEFINE Same == proc'[p].lease = proc[p].lease
            <3>1. \A v \in {"failed", "poll", "again", "committed"} : Return(p, v) => Same
                BY <3>0, ReturnEffect DEF Ended
            <3>2. \A pc \in {"lessons", "subjects", "compare", "apply"} : Goto(p, pc) => Same
                BY <3>0, GotoEffect DEF Went
            <3> HIDE DEF Same
            <3>3. CASE Look(p) \/ Collect(p) \/ Narrate(p) \/ Suspend(p)
                BY <3>3, LookEffect, CollectEffect, NarrateEffect, SuspendEffect DEF Ended, Went
            <3>4. CASE Finish(p) \/ Crash(p)
                BY <3>4, FinishEffect, IdleStarts DEF Crash, Started
            <3>5. WritePartial(p) \/ Seal(p) => Same
                BY <3>1, <3>2 DEF WritePartial, Seal, Refused
            <3>6. Evaluate(p) \/ Lessons(p) => Same
                BY <3>1, <3>2 DEF Evaluate, Lessons, Refused
            <3>7. Compare(p) \/ Subject(p) => Same
                BY <3>1, <3>2 DEF Compare, Subject, Refused
            <3>8. Apply(p) \/ Break(p) => Same
                BY <3>1, <3>2 DEF Apply, Break
            <3>9. QED
                BY <1>5, <3>3, <3>4, <3>5, <3>6, <3>7, <3>8 DEF Step, Same
        <2>3. \A q \in Procs \ {p} : proc'[q] = proc[q]
            BY <1>5, OthersStay
        <2>4. QED
            BY <1>1, <2>1, <2>2, <2>3
    <1>6. ASSUME NEW p \in Procs, NEW t \in Tasks, Claim(p, t) PROVE EpochsOnce'
        <2>1. row' = row /\ "look" \in Steps
            BY <1>6 DEF Claim, Steps
        <2>2. Started(p, t, TRUE, "look")
            BY <1>6, <2>1, FreshStarts DEF Claim
        <2>3. QED
            BY <1>1, <2>1, <2>2 DEF Started
    <1>7. ASSUME NEW t \in Tasks, Recover(t) PROVE EpochsOnce'
        BY <1>1, <1>7, RecoverEffect DEF Recover
    <1>8. CASE Lapse
        BY <1>1, <1>2, <1>8 DEF Lapse
    <1>9. CASE row' = row /\ proc' = proc
        BY <1>1, <1>9
    <1>10. QED
        BY <1>3, <1>4, <1>5, <1>6, <1>7, <1>8, <1>9 DEF Next, Wake, RequestRepair, MarketMoves,
            ShadowsSeal, CampaignMoves, vars, world, queue

(***************************************************************************)
(* What the writing steps do, in full.                                     *)
(***************************************************************************)
\* A stage's retrospective is written once and before the task's next check.
LEMMA WritePartialEffect ==
    ASSUME TypeOK, NEW p \in Procs, WritePartial(p)
    PROVE  /\ proc[p].pc = "write" /\ proc[p].stage # T5
           /\ \/ UNCHANGED <<record, task>> /\ Ended(p, "failed")
              \/ /\ Fenced(p) /\ retro[proc[p].stage] = "none"
                 /\ retro' = [retro EXCEPT ![proc[p].stage] =
                                IF proc[p].draft # 0 THEN "complete" ELSE "unavailable"]
                 /\ UNCHANGED <<task, sealed, narr, memory, compared, lessons>>
                 /\ Ended(p, "poll") \/ Ended(p, "again")
    <1>0. "failed" \in Verdicts /\ "poll" \in Verdicts /\ "again" \in Verdicts
        BY DEF Verdicts
    <1>1. proc[p].pc = "write" /\ proc[p].stage # T5
        BY DEF WritePartial
    <1>2. CASE Refused(p)
        BY <1>0, <1>1, <1>2, ReturnEffect DEF Refused
    <1>3. CASE ~Refused(p)
        <2>1. /\ Fenced(p) /\ Unwritten(proc[p].stage)
              /\ retro' = [retro EXCEPT ![proc[p].stage] =
                             IF proc[p].draft # 0 THEN "complete" ELSE "unavailable"]
              /\ UNCHANGED <<task, sealed, narr, memory, compared, lessons>>
              /\ Return(p, "poll") \/ Return(p, "again")
            BY <1>3 DEF WritePartial
        <2>2. Ended(p, "poll") \/ Ended(p, "again")
            BY <1>0, <2>1, ReturnEffect
        <2>3. QED
            BY <1>1, <2>1, <2>2 DEF Unwritten
    <1>4. QED
        BY <1>2, <1>3

\* The Outcome is sealed together with the last stage's retrospective.
LEMMA SealEffect ==
    ASSUME TypeOK, NEW p \in Procs, Seal(p)
    PROVE  /\ proc[p].pc = "write" /\ proc[p].stage = T5
           /\ \/ UNCHANGED <<record, task>> /\ Ended(p, "failed")
              \/ /\ Fenced(p) /\ retro[T5] = "none" /\ sealed' = proc[p].lease
                 /\ retro' = [retro EXCEPT ![T5] =
                                IF proc[p].draft # 0 THEN "complete" ELSE "unavailable"]
                 /\ narr' = proc[p].draft
                 /\ memory' = IF kind = "paper" THEN proc[p].draft ELSE memory
                 /\ UNCHANGED <<compared, lessons>>
                 /\ \/ kind = "canary" /\ Went(p, "compare") /\ task' = task
                    \/ kind = "paper" /\ proc[p].draft # 0 /\ Succeed(p) /\ Went(p, "lessons")
                    \/ /\ kind # "canary" /\ (kind # "paper" \/ proc[p].draft = 0)
                       /\ Succeed(p) /\ Ended(p, "committed")
    <1>0. /\ "failed" \in Verdicts /\ "committed" \in Verdicts
          /\ "compare" \in Steps /\ "lessons" \in Steps
        BY DEF Verdicts, Steps
    <1>1. proc[p].pc = "write" /\ proc[p].stage = T5
        BY DEF Seal
    <1>2. CASE Refused(p)
        BY <1>0, <1>1, <1>2, ReturnEffect DEF Refused
    <1>3. CASE ~Refused(p)
        <2>1. /\ Fenced(p) /\ Unwritten(T5) /\ sealed' = proc[p].lease
              /\ retro' = [retro EXCEPT ![T5] =
                             IF proc[p].draft # 0 THEN "complete" ELSE "unavailable"]
              /\ narr' = proc[p].draft
              /\ memory' = IF kind = "paper" THEN proc[p].draft ELSE memory
              /\ UNCHANGED <<compared, lessons>>
            BY <1>3 DEF Seal
        <2>2. \/ kind = "canary" /\ Goto(p, "compare") /\ task' = task
              \/ kind = "paper" /\ proc[p].draft # 0 /\ Succeed(p) /\ Goto(p, "lessons")
              \/ /\ kind # "canary" /\ (kind # "paper" \/ proc[p].draft = 0)
                 /\ Succeed(p) /\ Return(p, "committed")
            BY <1>3 DEF Seal
        <2>3. /\ Goto(p, "compare") => Went(p, "compare")
              /\ Goto(p, "lessons") => Went(p, "lessons")
              /\ Return(p, "committed") => Ended(p, "committed")
            BY <1>0, ReturnEffect, GotoEffect
        <2>4. QED
            BY <1>1, <2>1, <2>2, <2>3 DEF Unwritten
    <1>4. QED
        BY <1>2, <1>3

\* A repair's evaluation brings the narrative that T+5 lacked.
LEMMA EvaluateEffect ==
    ASSUME TypeOK, NEW p \in Procs, Evaluate(p)
    PROVE  /\ proc[p].pc = "evaluate"
           /\ \/ UNCHANGED <<record, task>> /\ (Ended(p, "failed") \/ Ended(p, "committed"))
              \/ /\ Fenced(p) /\ kind # "debug" /\ memory = 0 /\ Narrate5(proc[p].draft)
                 /\ memory' = proc[p].draft /\ Succeed(p) /\ Went(p, "lessons")
                 /\ UNCHANGED <<sealed, compared, lessons>>
    <1>0. "failed" \in Verdicts /\ "committed" \in Verdicts /\ "lessons" \in Steps
        BY DEF Verdicts, Steps
    <1>1. /\ Return(p, "failed") => Ended(p, "failed")
          /\ Return(p, "committed") => Ended(p, "committed")
          /\ Goto(p, "lessons") => Went(p, "lessons")
        BY <1>0, ReturnEffect, GotoEffect
    <1>2. QED
        BY <1>1 DEF Evaluate, Refused

\* The lessons follow the narrative's evaluation; nothing else is recorded.
LEMMA LessonsEffect ==
    ASSUME TypeOK, NEW p \in Procs, Lessons(p)
    PROVE  /\ proc[p].pc = "lessons" /\ lessons' = TRUE
           /\ UNCHANGED <<retro, sealed, narr, memory, compared, task>>
           /\ \/ kind = "canary" /\ Went(p, "subjects")
              \/ kind # "canary" /\ Ended(p, "committed")
    <1>0. "committed" \in Verdicts /\ "subjects" \in Steps
        BY DEF Verdicts, Steps
    <1>1. /\ Return(p, "committed") => Ended(p, "committed")
          /\ Goto(p, "subjects") => Went(p, "subjects")
        BY <1>0, ReturnEffect, GotoEffect
    <1>2. QED
        BY <1>1 DEF Lessons, queue

\* A comparison that has nothing to compare succeeds the task on its permit.
LEMMA CompareEffect ==
    ASSUME TypeOK, NEW p \in Procs, Compare(p)
    PROVE  /\ proc[p].pc = "compare" /\ UNCHANGED record
           /\ \/ /\ (~level \/ proc[p].draft = 0) /\ proc[p].permit
                 /\ Succeed(p) /\ Ended(p, "committed")
              \/ task' = task /\ (Ended(p, "failed") \/ Ended(p, "poll"))
              \/ task' = task /\ proc[p].draft # 0 /\ Went(p, "subjects")
    <1>0. /\ "failed" \in Verdicts /\ "committed" \in Verdicts /\ "poll" \in Verdicts
          /\ "subjects" \in Steps
        BY DEF Verdicts, Steps
    <1>1. /\ Return(p, "committed") => Ended(p, "committed")
          /\ Return(p, "failed") => Ended(p, "failed")
          /\ Return(p, "poll") => Ended(p, "poll")
          /\ Goto(p, "subjects") => Went(p, "subjects")
        BY <1>0, ReturnEffect, GotoEffect
    <1>2. QED
        BY <1>1 DEF Compare, Refused, NothingToCompare

\* One subject after the other is evaluated with the narrative of the attempt.
LEMMA SubjectEffect ==
    ASSUME TypeOK, NEW p \in Procs, Subject(p)
    PROVE  /\ proc[p].pc = "subjects" /\ task' = task
           /\ \/ UNCHANGED record /\ Ended(p, "failed")
              \/ /\ UNCHANGED record /\ Went(p, "apply")
                 /\ \A s \in Subjects : compared[s] # 0
              \/ /\ Fenced(p) /\ Narrate5(proc[p].draft) /\ Went(p, "lessons")
                 /\ UNCHANGED <<sealed, memory, lessons>>
                 /\ \E s \in Subjects : /\ compared[s] = 0
                                        /\ compared' = [compared EXCEPT ![s] = proc[p].draft]
    <1>0. "failed" \in Verdicts /\ "lessons" \in Steps /\ "apply" \in Steps
        BY DEF Verdicts, Steps
    <1>1. /\ Return(p, "failed") => Ended(p, "failed")
          /\ Goto(p, "apply") => Went(p, "apply")
          /\ Goto(p, "lessons") => Went(p, "lessons")
        BY <1>0, ReturnEffect, GotoEffect
    <1> DEFINE left == {s \in Subjects : compared[s] = 0}
    <1>2. proc[p].pc = "subjects"
        BY DEF Subject
    <1>3. CASE left = {}
        <2>1. Goto(p, "apply") /\ UNCHANGED <<task, record>>
            BY <1>3 DEF Subject
        <2>2. QED
            BY <1>1, <1>2, <1>3, <2>1
    <1>4. CASE left # {} /\ ~Fenced(p)
        BY <1>1, <1>2, <1>4 DEF Subject, Refused
    <1>5. CASE left # {} /\ Fenced(p)
        <2>1. /\ compared' = [compared EXCEPT ![Earliest(left)] = proc[p].draft]
              /\ Narrate5(proc[p].draft) /\ Goto(p, "lessons")
              /\ UNCHANGED <<task, sealed, memory, lessons>>
            BY <1>5 DEF Subject
        <2>2. Earliest(left) \in Subjects /\ compared[Earliest(left)] = 0
            <3>1. left \in SUBSET (1 .. 3)
                BY DEF Subjects
            <3>2. Earliest(left) \in left
                BY <1>5, <3>1, EarliestIs
            <3>3. QED
                BY <3>2
        <2>3. QED
            BY <1>1, <1>2, <1>5, <2>1, <2>2
    <1>6. QED
        BY <1>3, <1>4, <1>5

\* The verdict succeeds the task under both fences, or the attempt fails.
LEMMA ApplyEffect ==
    ASSUME TypeOK, NEW p \in Procs, Apply(p)
    PROVE  /\ proc[p].pc = "apply" /\ UNCHANGED record
           /\ \/ Fenced(p) /\ Succeed(p) /\ Ended(p, "committed")
              \/ task' = task /\ Ended(p, "failed")
    <1>0. "failed" \in Verdicts /\ "committed" \in Verdicts
        BY DEF Verdicts
    <1>1. /\ Return(p, "failed") => Ended(p, "failed")
          /\ Return(p, "committed") => Ended(p, "committed")
        BY <1>0, ReturnEffect
    <1>2. QED
        BY <1>1 DEF Apply

\* The steps that write, all of them under both fences.
Writes(p) == Fenced(p) /\ (WritePartial(p) \/ Seal(p) \/ Evaluate(p) \/ Subject(p))

\* What is recorded of the Outcome changes only by a writer that may write.
LEMMA OnlyWriters ==
    ASSUME TypeOK, [Next]_vars
    PROVE  \/ UNCHANGED <<retro, sealed, narr, memory, compared>>
           \/ \E p \in Procs : Writes(p) /\ MayWrite(p)
    <1>1. ASSUME NEW p \in Procs, Step(p)
          PROVE  UNCHANGED <<retro, sealed, narr, memory, compared>> \/ (Writes(p) /\ MayWrite(p))
        <2>1. CASE WritePartial(p)
            BY <2>1, WritePartialEffect DEF Writes, MayWrite, Fenced, Fencing, record
        <2>2. CASE Seal(p)
            BY <2>2, SealEffect DEF Writes, MayWrite, Fenced, Fencing, record
        <2>3. CASE Evaluate(p)
            BY <2>3, EvaluateEffect DEF Writes, MayWrite, Fenced, Fencing, record
        <2>4. CASE Subject(p)
            BY <2>4, SubjectEffect DEF Writes, MayWrite, Fenced, Fencing, record
        <2>5. CASE ~WritePartial(p) /\ ~Seal(p) /\ ~Evaluate(p) /\ ~Subject(p)
            BY <1>1, <2>5 DEF Step, Look, Acquire, Collect, Narrate, Lessons, Compare, Refused, Apply,
                Leave, Finish, record
        <2>6. QED
            BY <2>1, <2>2, <2>3, <2>4, <2>5
    <1>2. QED
        BY <1>1 DEF Next, Crash, Break, Suspend, Claim, Wake, Recover, RequestRepair, MarketMoves,
            ShadowsSeal, CampaignMoves, Lapse, vars, record

(***************************************************************************)
(* The stages and what the attempts have seen of them.                     *)
(***************************************************************************)
\* Retrospectives are never taken back, and of a written one only the narrative
\* of T+5 is added.
Grows ==
    /\ \A h \in Stages : retro[h] # "none" => retro'[h] # "none"
    /\ \A h \in Stages : retro'[h] # retro[h] =>
           retro[h] = "none" \/ (h = T5 /\ retro[h] = "unavailable" /\ retro'[h] = "complete")
    /\ retro[T5] = "complete" => retro'[T5] = "complete"
    /\ sealed # 0 => sealed' = sealed
    /\ narr # 0 => narr' = narr

\* Every step only adds to what is recorded.
LEMMA RetroGrows == IInv /\ [Next]_vars => Grows
    <1> SUFFICES ASSUME IInv, [Next]_vars PROVE Grows
        OBVIOUS
    <1>0. /\ TypeOK /\ T5 \in Stages /\ retro \in [Stages -> {"none", "unavailable", "complete"}]
          /\ (retro[T5] = "complete" <=> narr # 0) /\ (sealed # 0 <=> retro[T5] # "none")
        BY DEF IInv, StagesInOrder, TypeOK, T5, Stages, LearntSoFar
    <1>1. CASE UNCHANGED <<retro, sealed, narr, memory, compared>>
        BY <1>0, <1>1 DEF Grows
    <1>2. ASSUME NEW p \in Procs, Writes(p), MayWrite(p) PROVE Grows
        <2>1. SeenOf(p) /\ PathOf(p) /\ DraftOf(p)
            BY DEF IInv, SeenBehind, Paths, DraftCurrent
        <2>2. CASE WritePartial(p)
            <3>1. proc[p].stage \in Stages
                BY <2>1, <2>2 DEF WritePartial, SeenOf, PathOf
            <3>2. QED
                BY <1>0, <2>2, <3>1, WritePartialEffect DEF Grows, record
        <2>3. CASE Seal(p)
            BY <1>0, <2>3, SealEffect DEF Grows, record
        <2>4. CASE Evaluate(p)
            BY <1>0, <2>1, <2>4, EvaluateEffect DEF Grows, record, Narrate5, SeenOf
        <2>5. CASE Subject(p)
            BY <1>0, <2>1, <2>5, SubjectEffect DEF Grows, record, Narrate5, SeenOf
        <2>6. QED
            BY <1>2, <2>2, <2>3, <2>4, <2>5 DEF Writes
    <1>3. QED
        BY <1>0, <1>1, <1>2, OnlyWriters

\* An attempt that writes has a lease, and it is the current one.
LEMMA WriterLease ==
    ASSUME IInv, NEW p \in Procs, Fenced(p)
    PROVE  proc[p].lease # 0
    BY DEF IInv, EpochsOnce, Fenced, Holds

\* The stages are written in order by every step.
LEMMA OrderNext == IInv /\ [Next]_vars => StagesInOrder'
    <1> SUFFICES ASSUME IInv, [Next]_vars PROVE StagesInOrder'
        OBVIOUS
    <1>0. /\ TypeOK /\ TypeOK' /\ T5 \in Stages
          /\ retro \in [Stages -> {"none", "unavailable", "complete"}]
        BY TypedNext DEF IInv, StagesInOrder, TypeOK, T5, Stages
    <1>1. /\ retro[T5] # "none" => retro[2] # "none"
          /\ retro[2] # "none" => retro[1] # "none"
          /\ sealed # 0 <=> retro[T5] # "none"
        BY DEF IInv, StagesInOrder
    <1>2. CASE UNCHANGED <<retro, sealed, narr, memory, compared>>
        BY <1>0, <1>1, <1>2 DEF StagesInOrder
    <1>3. ASSUME NEW p \in Procs, Writes(p), MayWrite(p) PROVE StagesInOrder'
        <2>1. SeenOf(p) /\ PathOf(p) /\ DraftOf(p) /\ proc[p].lease # 0
            BY <1>3, WriterLease DEF IInv, SeenBehind, Paths, DraftCurrent, Writes
        <2>2. CASE WritePartial(p)
            <3>1. /\ proc[p].stage \in Stages /\ proc[p].stage # T5
                  /\ \A h \in 1 .. proc[p].stage - 1 : retro[h] # "none"
                BY <2>1, <2>2 DEF WritePartial, SeenOf, PathOf
            <3>2. proc[p].stage = 1 \/ (proc[p].stage = 2 /\ retro[1] # "none")
                BY <3>1 DEF Stages, T5
            <3>3. QED
                BY <1>0, <1>1, <2>2, <3>1, <3>2, WritePartialEffect DEF StagesInOrder, record, T5, Stages
        <2>3. CASE Seal(p)
            <3>1. \A h \in 1 .. T5 - 1 : retro[h] # "none"
                BY <2>1, <2>3 DEF Seal, SeenOf, PathOf
            <3>2. retro[1] # "none" /\ retro[2] # "none"
                BY <3>1 DEF T5
            <3>3. QED
                BY <1>0, <1>1, <2>1, <2>3, <3>2, SealEffect DEF StagesInOrder, record, T5, Stages
        <2>4. CASE Evaluate(p)
            BY <1>0, <1>1, <2>1, <2>4, EvaluateEffect DEF StagesInOrder, record, Narrate5, SeenOf, T5, Stages
        <2>5. CASE Subject(p)
            BY <1>0, <1>1, <2>1, <2>5, SubjectEffect DEF StagesInOrder, record, Narrate5, SeenOf, T5, Stages
        <2>6. QED
            BY <1>3, <2>2, <2>3, <2>4, <2>5 DEF Writes
    <1>4. QED
        BY <1>0, <1>2, <1>3, OnlyWriters

\* What an attempt has seen stays behind, whatever the others write.
LEMMA SeenStays ==
    ASSUME NEW q \in Procs, SeenOf(q), Grows, TypeOK,
           proc'[q].task = proc[q].task, proc'[q].pc = proc[q].pc, proc'[q].seen = proc[q].seen,
           proc'[q].stage = proc[q].stage, proc'[q].verdict = proc[q].verdict,
           proc'[q].permit => proc[q].permit /\ (MayWrite(q) => retro'[T5] = retro[T5])
    PROVE  SeenOf(q)'
    <1>1. T5 \in Stages /\ Stages = 1 .. 3
        BY DEF T5, Stages
    <1>2. MayWrite(q) \/ ~proc[q].permit \/ proc[q].pc # "acquire"
        BY DEF MayWrite, Fencing
    <1>3. \A h \in 1 .. proc[q].stage - 1 : proc[q].stage \in Stages => h \in Stages
        BY <1>1
    <1>4. QED
        BY <1>1, <1>2, <1>3 DEF SeenOf, Grows

\* An attempt's own step keeps what it has seen behind what is recorded.
LEMMA StepSeen ==
    ASSUME IInv, NEW p \in Procs, Step(p) \/ Break(p) \/ Suspend(p)
    PROVE  SeenOf(p)'
    <1>0. /\ TypeOK /\ Paths /\ Grows /\ PathOf(p) /\ SeenOf(p) /\ T5 \in Stages
          /\ (retro[T5] = "complete" <=> narr # 0) /\ (memory # 0 => memory = narr)
        BY RetroGrows DEF IInv, StagesInOrder, Paths, SeenBehind, LearntSoFar, T5, Stages, Next
    <1>busy. proc[p].pc # "idle"
        BY <1>0, StepMoves, FinishEffect
    <1>1. \A v \in Verdicts : Ended(p, v) /\ (v = "no_output" => retro'[T5] # "none") => SeenOf(p)'
        BY <1>0, <1>busy DEF Ended, Moved, SeenOf, Grows
    <1>2. /\ "failed" \in Verdicts /\ "committed" \in Verdicts /\ "poll" \in Verdicts
          /\ "again" \in Verdicts /\ "lease" \in Verdicts
        BY DEF Verdicts
    <1>3. \A pc \in {"lessons", "subjects", "compare", "apply"} :
              retro'[T5] # "none" /\ Went(p, pc) => SeenOf(p)'
        BY <1>0 DEF Went, Moved, SeenOf, Grows
    <1>4. CASE Look(p)
        <2>1. retro' = retro
            BY <1>4 DEF Look, record
        <2>2. QED
            BY <1>0, <1>4, <2>1, LookEffect DEF SeenOf, Moved, PathOf
    <1>5. CASE Acquire(p)
        <2>1. retro' = retro
            BY <1>5 DEF Acquire, record
        <2>2. CASE row.live
            BY <1>0, <1>1, <1>2, <1>5, <2>2, AcquireEffect
        <2>3. CASE ~row.live
            <3>1. /\ Moved(p) /\ proc[p].pc = "acquire" /\ proc'[p].seen = "none"
                  /\ proc'[p].pc = After(p) /\ proc'[p].verdict = proc[p].verdict
                BY <1>0, <1>5, <2>3, AcquireEffect
            <3>2. QED
                BY <1>0, <2>1, <3>1 DEF SeenOf, Moved, After, PathOf
        <2>4. QED
            BY <2>2, <2>3
    <1>6. CASE Collect(p)
        <2>1. retro' = retro
            BY <1>6 DEF Collect, record
        <2>2. CASE Ended(p, "failed") \/ Ended(p, "poll")
            BY <1>1, <1>2, <2>2
        <2>3. CASE ~(Ended(p, "failed") \/ Ended(p, "poll"))
            BY <1>0, <1>6, <2>1, <2>3, CollectEffect DEF SeenOf, Moved, PathOf, Unwritten
        <2>4. QED
            BY <2>2, <2>3
    <1>7. CASE Narrate(p)
        <2>1. retro' = retro
            BY <1>7 DEF Narrate, record
        <2>2. CASE Ended(p, "failed")
            BY <1>1, <1>2, <2>2
        <2>3. CASE ~Ended(p, "failed")
            BY <1>0, <1>7, <2>1, <2>3, NarrateEffect DEF SeenOf, Moved, PathOf
        <2>4. QED
            BY <2>2, <2>3
    <1>8. CASE WritePartial(p)
        BY <1>0, <1>1, <1>2, <1>8, WritePartialEffect
    <1>9. CASE Seal(p)
        <2>1. CASE Ended(p, "failed")
            BY <1>1, <1>2, <2>1
        <2>2. CASE ~Ended(p, "failed")
            <3>1. retro'[T5] # "none"
                BY <1>0, <1>9, <2>2, SealEffect DEF TypeOK
            <3>2. QED
                BY <1>0, <1>1, <1>2, <1>3, <1>9, <2>2, <3>1, SealEffect
        <2>3. QED
            BY <2>1, <2>2
    <1>10. CASE Evaluate(p)
        <2>1. retro'[T5] # "none"
            BY <1>0, <1>10 DEF Evaluate, SeenOf, Grows
        <2>2. QED
            BY <1>0, <1>1, <1>2, <1>3, <1>10, <2>1, EvaluateEffect
    <1>11. CASE Lessons(p)
        <2>1. retro'[T5] # "none"
            BY <1>0, <1>11 DEF Lessons, SeenOf, Grows
        <2>2. QED
            BY <1>0, <1>1, <1>2, <1>3, <1>11, <2>1, LessonsEffect
    <1>12. CASE Compare(p)
        <2>1. retro'[T5] # "none"
            BY <1>0, <1>12 DEF Compare, SeenOf, Grows
        <2>2. QED
            BY <1>0, <1>1, <1>2, <1>3, <1>12, <2>1, CompareEffect
    <1>13. CASE Subject(p)
        <2>1. retro'[T5] # "none"
            BY <1>0, <1>13 DEF Subject, SeenOf, Grows
        <2>2. QED
            BY <1>0, <1>1, <1>2, <1>3, <1>13, <2>1, SubjectEffect
    <1>14. CASE Apply(p)
        BY <1>0, <1>1, <1>2, <1>14, ApplyEffect
    <1>15. CASE Leave(p)
        BY <1>0, <1>15, LeaveEffect DEF SeenOf, Moved, Grows
    <1>16. CASE Finish(p)
        BY <1>0, <1>16, FinishEffect DEF SeenOf, Started, Worker
    <1>17. CASE Break(p)
        <2>1. Ended(p, "again") \/ Ended(p, "failed")
            BY <1>0, <1>2, <1>17, ReturnEffect DEF Break
        <2>2. QED
            BY <1>1, <1>2, <2>1
    <1>18. CASE Suspend(p)
        <2>1. retro' = retro /\ Went(p, proc[p].pc)
            BY <1>0, <1>18, SuspendEffect DEF Suspend, record
        <2>2. QED
            BY <1>0, <2>1, SeenStays DEF Went, Moved
    <1>19. QED
        BY <1>4, <1>5, <1>6, <1>7, <1>8, <1>9, <1>10, <1>11, <1>12, <1>13, <1>14, <1>15, <1>16,
           <1>17, <1>18 DEF Step

\* How the attempts of the others look after a step.
LEMMA Bystanders ==
    ASSUME IInv, [Next]_vars, NEW q \in Procs
    PROVE  \/ \E t \in Tasks : Claim(q, t)
           \/ Crash(q) \/ Step(q) \/ Break(q) \/ Suspend(q)
           \/ /\ proc'[q].task = proc[q].task /\ proc'[q].pc = proc[q].pc
              /\ proc'[q].seen = proc[q].seen /\ proc'[q].stage = proc[q].stage
              /\ proc'[q].verdict = proc[q].verdict /\ proc'[q].draft = proc[q].draft
              /\ proc'[q].permit => proc[q].permit
              /\ MayWrite(q) => ~(\E p \in Procs : Writes(p) /\ MayWrite(p))
    <1> DEFINE Still == /\ proc'[q].task = proc[q].task /\ proc'[q].pc = proc[q].pc
                        /\ proc'[q].seen = proc[q].seen /\ proc'[q].stage = proc[q].stage
                        /\ proc'[q].verdict = proc[q].verdict /\ proc'[q].draft = proc[q].draft
                        /\ proc'[q].permit => proc[q].permit
               Acts == \/ \E t \in Tasks : Claim(q, t)
                       \/ Crash(q) \/ Step(q) \/ Break(q) \/ Suspend(q)
    <1>0. TypeOK /\ Ownership
        BY DEF IInv, StagesInOrder
    <1>1. ASSUME NEW p \in Procs,
                 Step(p) \/ Break(p) \/ Suspend(p) \/ Crash(p) \/ \E t \in Tasks : Claim(p, t)
          PROVE  Acts \/ Still
        BY <1>0, <1>1, OthersStay
    <1>2. ASSUME NEW t \in Tasks, Recover(t) PROVE Still
        BY <1>0, <1>2, RecoverEffect
    <1>3. proc' = proc => Still
        OBVIOUS
    <1> HIDE DEF Still, Acts
    <1>4. Acts \/ Still
        BY <1>1, <1>2, <1>3 DEF Next, Wake, RequestRepair, MarketMoves, ShadowsSeal,
            CampaignMoves, Lapse, vars
    <1>5. ASSUME MayWrite(q), NEW p \in Procs, Writes(p), MayWrite(p) PROVE Acts
        <2>1. p = q
            BY <1>0, <1>5, SoleWriter
        <2>2. Step(q)
            BY <1>5, <2>1 DEF Writes, Step
        <2>3. QED
            BY <2>2 DEF Acts
    <1>6. QED
        BY <1>4, <1>5 DEF Acts, Still

\* No step leaves an attempt ahead of what is recorded.
LEMMA SeenNext == IInv /\ [Next]_vars => SeenBehind'
    <1> SUFFICES ASSUME IInv, [Next]_vars, NEW q \in Procs PROVE SeenOf(q)'
        BY DEF SeenBehind
    <1>0. /\ TypeOK /\ Grows /\ SeenOf(q) /\ RepairsFollow /\ T5 \in Stages
        BY RetroGrows DEF IInv, StagesInOrder, SeenBehind, T5, Stages
    <1>1. CASE Step(q) \/ Break(q) \/ Suspend(q)
        BY <1>1, StepSeen
    <1>2. CASE Crash(q)
        BY <1>0, <1>2, IdleStarts DEF Crash, Started, SeenOf, Worker
    <1>3. ASSUME NEW t \in Tasks, Claim(q, t) PROVE SeenOf(q)'
        <2>1. "look" \in Steps /\ task[t] = "queued" /\ retro' = retro
            BY <1>3 DEF Steps, Claim, record
        <2>2. t # Worker => retro[T5] # "none"
            BY <1>0, <2>1 DEF RepairsFollow, Tasks
        <2>3. Started(q, t, TRUE, "look")
            BY <1>0, <1>3, <2>1, FreshStarts DEF Claim
        <2>4. QED
            BY <2>1, <2>2, <2>3 DEF Started, SeenOf
    <1>4. CASE /\ proc'[q].task = proc[q].task /\ proc'[q].pc = proc[q].pc
               /\ proc'[q].seen = proc[q].seen /\ proc'[q].stage = proc[q].stage
               /\ proc'[q].verdict = proc[q].verdict /\ proc'[q].draft = proc[q].draft
               /\ proc'[q].permit => proc[q].permit
               /\ MayWrite(q) => ~(\E p \in Procs : Writes(p) /\ MayWrite(p))
        <2>1. MayWrite(q) => retro' = retro
            BY <1>0, <1>4, OnlyWriters
        <2>2. QED
            BY <1>0, <1>4, <2>1, SeenStays
    <1>5. QED
        BY <1>1, <1>2, <1>3, <1>4, Bystanders

\* A repair is created only for an Outcome that is sealed.
LEMMA RepairsNext == IInv /\ [Next]_vars => RepairsFollow'
    <1> SUFFICES ASSUME IInv, [Next]_vars, NEW r \in Repairs PROVE task'[r] # "absent" => retro'[T5] # "none"
        BY DEF RepairsFollow
    <1>0. /\ TypeOK /\ Grows /\ RepairsFollow /\ T5 \in Stages /\ r \in Tasks
          /\ task \in [Tasks -> TaskStatus]
          /\ (sealed # 0 <=> retro[T5] # "none")
        BY RetroGrows, WorkerIsTask DEF IInv, StagesInOrder, TypeOK, T5, Stages
    <1>1. CASE task[r] # "absent"
        BY <1>0, <1>1 DEF RepairsFollow, Grows
    <1>2. CASE task[r] = "absent" /\ task'[r] = "absent"
        BY <1>2
    <1>3. CASE task[r] = "absent" /\ task'[r] # "absent"
        <2>1. ASSUME NEW p \in Procs, Step(p) /\ ~Finish(p) PROVE FALSE
            <3>1. \/ task' = task
                  \/ Succeed(p) /\ MayWrite(p)
                BY <1>0, <2>1, StepTask DEF IInv
            <3>2. MayWrite(p) => task[proc[p].task] = "running"
                BY DEF IInv, Ownership, OwnerRuns
            <3>3. QED
                BY <1>0, <1>3, <3>1, <3>2 DEF Succeed
        <2>2. ASSUME NEW p \in Procs, Finish(p) PROVE FALSE
            <3>1. CASE UNCHANGED queue
                BY <1>3, <3>1 DEF queue
            <3>2. CASE ~UNCHANGED queue
                <4>1. task[proc[p].task] = "running"
                    BY <1>0, <2>2, <3>2, FinishEffect
                <4>2. PICK s \in {"succeeded", "failed", "queued"} :
                          task' = [task EXCEPT ![proc[p].task] = s]
                    BY <1>0, <2>2, <3>2, FinishEffect
                <4>3. QED
                    BY <1>0, <1>3, <4>1, <4>2
            <3>3. QED
                BY <3>1, <3>2
        <2>3. ASSUME NEW t \in Tasks, Recover(t) \/ \E p \in Procs : Claim(p, t) PROVE FALSE
            <3>1. task[t] # "absent" /\ \E s \in TaskStatus : task' = [task EXCEPT ![t] = s]
                BY <2>3 DEF Recover, Claim, TaskStatus
            <3>2. QED
                BY <1>0, <1>3, <3>1
        <2>4. task' # task
            BY <1>3
        <2>5. PICK k \in Repairs : RequestRepair(k)
            BY <2>1, <2>2, <2>3, <2>4 DEF Next, Crash, Break, Suspend, Wake, MarketMoves, ShadowsSeal,
                CampaignMoves, Lapse, vars, queue
        <2>6. sealed # 0
            BY <2>5 DEF RequestRepair
        <2>7. QED
            BY <1>0, <2>6 DEF Grows
    <1>4. QED
        BY <1>1, <1>2, <1>3

(***************************************************************************)
(* The narrative that is learnt from.                                      *)
(***************************************************************************)
\* What an attempt carries stays current while it may write.
LEMMA DraftStays ==
    ASSUME NEW q \in Procs, DraftOf(q), Grows, kind' = kind,
           proc'[q].pc = proc[q].pc, proc'[q].draft = proc[q].draft,
           proc'[q].permit => proc[q].permit,
           MayWrite(q) => UNCHANGED <<retro, narr, compared>>
    PROVE  DraftOf(q)'
    <1>1. CASE MayWrite(q)
        BY <1>1 DEF DraftOf, Grows
    <1>2. CASE ~MayWrite(q)
        BY <1>2 DEF DraftOf, Grows, MayWrite, Fencing
    <1>3. QED
        BY <1>1, <1>2

\* An attempt's own step keeps its draft current.
LEMMA StepDraft ==
    ASSUME IInv, NEW p \in Procs, Step(p) \/ Break(p) \/ Suspend(p)
    PROVE  DraftOf(p)'
    <1>0. /\ TypeOK /\ Grows /\ PathOf(p) /\ PathOf(p)' /\ SeenOf(p) /\ DraftOf(p) /\ kind' = kind
          /\ T5 \in Stages /\ (retro[T5] = "complete" <=> narr # 0)
          /\ retro \in [Stages -> {"none", "unavailable", "complete"}]
          /\ Fenced(p) => proc[p].lease # 0
        <2>1. TypeOK /\ PathOf(p)
            BY DEF IInv, StagesInOrder, Paths
        <2>2. QED
            BY <2>1, RetroGrows, StepPath, WriterLease DEF IInv, SeenBehind, DraftCurrent, LearntSoFar,
                T5, Stages, Next, TypeOK
    <1>1. proc'[p].pc \notin {"collect", "narrate", "evaluate", "lessons", "compare", "subjects", "apply"}
              => DraftOf(p)'
        BY DEF DraftOf
    <1>2. \A v \in Verdicts : Ended(p, v) => DraftOf(p)'
        BY <1>1 DEF Ended
    <1>3. /\ "failed" \in Verdicts /\ "committed" \in Verdicts /\ "poll" \in Verdicts
          /\ "again" \in Verdicts /\ "lease" \in Verdicts
        BY DEF Verdicts
    <1>4. CASE Look(p)
        BY <1>0, <1>1, <1>4, LookEffect
    <1>5. CASE Acquire(p)
        <2>1. UNCHANGED <<retro, narr, compared>>
            BY <1>5 DEF Acquire, record
        <2>2. CASE row.live
            BY <1>0, <1>2, <1>3, <1>5, <2>2, AcquireEffect
        <2>3. CASE ~row.live
            <3>1. /\ Moved(p) /\ proc[p].pc = "acquire" /\ proc'[p].draft = Draft(p)
                  /\ proc'[p].pc = After(p)
                BY <1>0, <1>5, <2>3, AcquireEffect
            <3>2. proc[p].permit => proc[p].seen = retro[T5]
                BY <1>0, <3>1 DEF SeenOf
            <3>3. proc[p].seen = "complete" => narr # 0
                BY <1>0 DEF SeenOf
            <3>4. QED
                BY <1>0, <2>1, <3>1, <3>2, <3>3 DEF DraftOf, Moved, After, Draft
        <2>4. QED
            BY <2>2, <2>3
    <1>6. CASE Collect(p)
        <2>1. UNCHANGED <<retro, narr, compared>>
            BY <1>6 DEF Collect, record
        <2>2. CASE Ended(p, "failed") \/ Ended(p, "poll")
            BY <1>2, <1>3, <2>2
        <2>3. CASE ~(Ended(p, "failed") \/ Ended(p, "poll"))
            BY <1>0, <1>6, <2>1, <2>3, CollectEffect DEF DraftOf, Moved
        <2>4. QED
            BY <2>2, <2>3
    <1>7. CASE Narrate(p)
        <2>1. UNCHANGED <<retro, narr, compared>>
            BY <1>7 DEF Narrate, record
        <2>2. CASE Ended(p, "failed")
            BY <1>2, <1>3, <2>2
        <2>3. CASE ~Ended(p, "failed")
            BY <1>0, <1>1, <1>7, <2>1, <2>3, NarrateEffect DEF DraftOf, Moved
        <2>4. QED
            BY <2>2, <2>3
    <1>8. CASE WritePartial(p)
        BY <1>0, <1>2, <1>3, <1>8, WritePartialEffect
    <1>9. CASE Seal(p)
        <2>1. CASE Ended(p, "failed") \/ Ended(p, "committed")
            BY <1>2, <1>3, <2>1
        <2>2. CASE ~(Ended(p, "failed") \/ Ended(p, "committed"))
            BY <1>0, <1>9, <2>2, SealEffect DEF DraftOf, Went, Moved
        <2>3. QED
            BY <2>1, <2>2
    <1>10. CASE Evaluate(p)
        <2>1. CASE Ended(p, "failed") \/ Ended(p, "committed")
            BY <1>2, <1>3, <2>1
        <2>2. CASE ~(Ended(p, "failed") \/ Ended(p, "committed"))
            BY <1>0, <1>10, <2>2, EvaluateEffect DEF DraftOf, Went, Moved, Narrate5, PathOf
        <2>3. QED
            BY <2>1, <2>2
    <1>11. CASE Lessons(p)
        <2>1. CASE Ended(p, "committed")
            BY <1>2, <1>3, <2>1
        <2>2. CASE ~Ended(p, "committed")
            BY <1>0, <1>11, <2>2, LessonsEffect DEF DraftOf, Went, Moved
        <2>3. QED
            BY <2>1, <2>2
    <1>12. CASE Compare(p)
        <2>1. CASE Ended(p, "failed") \/ Ended(p, "committed") \/ Ended(p, "poll")
            BY <1>2, <1>3, <2>1
        <2>2. CASE ~(Ended(p, "failed") \/ Ended(p, "committed") \/ Ended(p, "poll"))
            BY <1>0, <1>12, <2>2, CompareEffect DEF DraftOf, Went, Moved, record
        <2>3. QED
            BY <2>1, <2>2
    <1>13. CASE Subject(p)
        <2>1. CASE Ended(p, "failed")
            BY <1>2, <1>3, <2>1
        <2>2. CASE UNCHANGED record /\ Went(p, "apply") /\ \A s \in Subjects : compared[s] # 0
            BY <1>0, <1>13, <2>2, SubjectEffect DEF DraftOf, Went, Moved, record
        <2>3. CASE Fenced(p) /\ Narrate5(proc[p].draft) /\ Went(p, "lessons")
            BY <1>0, <1>13, <2>3, SubjectEffect DEF DraftOf, Went, Moved, Narrate5
        <2>4. QED
            BY <1>0, <1>13, <2>1, <2>2, <2>3, SubjectEffect
    <1>14. CASE Apply(p)
        BY <1>0, <1>2, <1>3, <1>14, ApplyEffect
    <1>15. CASE Leave(p)
        BY <1>0, <1>1, <1>15, LeaveEffect
    <1>16. CASE Finish(p)
        BY <1>0, <1>1, <1>16, FinishEffect DEF Started
    <1>17. CASE Break(p)
        BY <1>0, <1>2, <1>3, <1>17, ReturnEffect DEF Break
    <1>18. CASE Suspend(p)
        <2>1. UNCHANGED <<retro, narr, compared>> /\ Went(p, proc[p].pc)
            BY <1>0, <1>18, SuspendEffect DEF Suspend, record
        <2>2. QED
            BY <1>0, <2>1, DraftStays DEF Went, Moved
    <1>19. QED
        BY <1>4, <1>5, <1>6, <1>7, <1>8, <1>9, <1>10, <1>11, <1>12, <1>13, <1>14, <1>15, <1>16,
           <1>17, <1>18 DEF Step

\* The kind of the run never changes.
LEMMA KindStays == [Next]_vars => kind' = kind
    <1> SUFFICES ASSUME [Next]_vars PROVE kind' = kind
        OBVIOUS
    <1>1. ASSUME NEW p \in Procs, Step(p) PROVE kind' = kind
        BY <1>1 DEF Step, Look, Acquire, Collect, Narrate, WritePartial, Seal, Evaluate, Lessons,
            Compare, Subject, Apply, Leave, Finish, Refused, world
    <1>2. QED
        BY <1>1 DEF Next, Crash, Break, Suspend, Claim, Wake, Recover,
            RequestRepair, MarketMoves, ShadowsSeal, CampaignMoves, Lapse, vars, world

\* No step leaves an attempt that may write with a stale draft.
LEMMA DraftNext == IInv /\ [Next]_vars => DraftCurrent'
    <1> SUFFICES ASSUME IInv, [Next]_vars, NEW q \in Procs PROVE DraftOf(q)'
        BY DEF DraftCurrent
    <1>0. /\ TypeOK /\ Grows /\ DraftOf(q) /\ kind' = kind
        BY RetroGrows, KindStays DEF IInv, StagesInOrder, DraftCurrent
    <1>1. CASE Step(q) \/ Break(q) \/ Suspend(q)
        BY <1>1, StepDraft
    <1>2. CASE Crash(q)
        BY <1>0, <1>2, IdleStarts DEF Crash, Started, DraftOf
    <1>3. ASSUME NEW t \in Tasks, Claim(q, t) PROVE DraftOf(q)'
        <2>1. "look" \in Steps
            BY DEF Steps
        <2>2. Started(q, t, TRUE, "look")
            BY <1>0, <1>3, <2>1, FreshStarts DEF Claim
        <2>3. QED
            BY <2>2 DEF Started, DraftOf
    <1>4. CASE /\ proc'[q].task = proc[q].task /\ proc'[q].pc = proc[q].pc
               /\ proc'[q].seen = proc[q].seen /\ proc'[q].stage = proc[q].stage
               /\ proc'[q].verdict = proc[q].verdict /\ proc'[q].draft = proc[q].draft
               /\ proc'[q].permit => proc[q].permit
               /\ MayWrite(q) => ~(\E p \in Procs : Writes(p) /\ MayWrite(p))
        <2>1. MayWrite(q) => UNCHANGED <<retro, narr, compared>>
            BY <1>0, <1>4, OnlyWriters
        <2>2. QED
            BY <1>0, <1>4, <2>1, DraftStays
    <1>5. QED
        BY <1>1, <1>2, <1>3, <1>4, Bystanders

\* The first half of LearntSoFar: everything was learnt from one narrative.
LEMMA OneNarrative ==
    ASSUME IInv, [Next]_vars
    PROVE  /\ retro'[T5] = "complete" <=> narr' # 0
           /\ memory' # 0 => memory' = narr'
           /\ \A s \in Subjects : compared'[s] # 0 => compared'[s] = narr'
           /\ lessons' => narr' # 0
           /\ kind = "paper" /\ narr' # 0 => memory' = narr'
    <1>0. /\ TypeOK /\ TypeOK' /\ T5 \in Stages
          /\ retro \in [Stages -> {"none", "unavailable", "complete"}]
          /\ compared \in [Subjects -> Nat] /\ narr \in Nat /\ memory \in Nat
        BY TypedNext DEF IInv, StagesInOrder, TypeOK, T5, Stages
    <1>1. /\ retro[T5] = "complete" <=> narr # 0
          /\ memory # 0 => memory = narr
          /\ \A s \in Subjects : compared[s] # 0 => compared[s] = narr
          /\ lessons => narr # 0
          /\ kind = "paper" /\ narr # 0 => memory = narr
        BY DEF IInv, LearntSoFar
    <1>2. CASE UNCHANGED <<retro, sealed, narr, memory, compared>>
        <2>1. lessons' = lessons \/ \E p \in Procs : Lessons(p)
            <3>1. ASSUME NEW p \in Procs, Step(p) PROVE lessons' = lessons \/ Lessons(p)
                BY <3>1 DEF Step, Look, Acquire, Collect, Narrate, WritePartial, Seal, Evaluate,
                    Compare, Subject, Apply, Leave, Finish, Refused, record
            <3>2. QED
                BY <3>1 DEF Next, Crash, Break, Suspend, Claim, Wake, Recover, RequestRepair,
                    MarketMoves, ShadowsSeal, CampaignMoves, Lapse, vars, record
        <2>2. ASSUME NEW p \in Procs, Lessons(p) PROVE narr # 0
            BY <2>2 DEF Lessons, IInv, DraftCurrent, DraftOf
        <2>3. QED
            BY <1>1, <1>2, <2>1, <2>2
    <1>3. ASSUME NEW p \in Procs, Writes(p), MayWrite(p)
          PROVE  /\ retro'[T5] = "complete" <=> narr' # 0
                 /\ memory' # 0 => memory' = narr'
                 /\ \A s \in Subjects : compared'[s] # 0 => compared'[s] = narr'
                 /\ lessons' => narr' # 0
                 /\ kind = "paper" /\ narr' # 0 => memory' = narr'
        <2>1. /\ SeenOf(p) /\ PathOf(p) /\ DraftOf(p) /\ proc[p].lease # 0 /\ proc[p].permit
              /\ proc[p].draft \in Nat
            BY <1>0, <1>3, WriterLease, ProcTyped DEF IInv, SeenBehind, Paths, DraftCurrent, Writes, MayWrite
        <2>2. CASE WritePartial(p)
            <3>1. proc[p].stage # T5 => retro'[T5] = retro[T5]
                BY <1>0, <2>2, WritePartialEffect DEF record
            <3>2. QED
                BY <1>0, <1>1, <2>2, <3>1, WritePartialEffect DEF record
        <2>3. CASE Seal(p)
            BY <1>0, <1>1, <2>1, <2>3, SealEffect DEF record
        <2>4. CASE Evaluate(p)
            <3>1. proc[p].draft # 0 /\ (narr # 0 => proc[p].draft = narr)
                BY <2>1, <2>4 DEF Evaluate, DraftOf
            <3>2. QED
                BY <1>0, <1>1, <2>4, <3>1, EvaluateEffect DEF record, Narrate5
        <2>5. CASE Subject(p)
            <3>1. proc[p].draft # 0 /\ (narr # 0 => proc[p].draft = narr) /\ kind = "canary"
                BY <2>1, <2>5 DEF Subject, DraftOf, PathOf
            <3>2. QED
                BY <1>0, <1>1, <2>5, <3>1, SubjectEffect DEF record, Narrate5
        <2>6. QED
            BY <1>3, <2>2, <2>3, <2>4, <2>5 DEF Writes
    <1>4. QED
        BY <1>0, <1>2, <1>3, OnlyWriters

\* How tasks change: one that was open, or a new repair.
LEMMA TaskMoves ==
    ASSUME IInv, [Next]_vars
    PROVE  \/ task' = task
           \/ \E p \in Procs : /\ MayWrite(p) /\ Succeed(p)
                               /\ Seal(p) \/ Evaluate(p) \/ Compare(p) \/ Apply(p)
           \/ \E t \in Tasks : /\ task[t] \in Active
                               /\ \E s \in Active \cup {"failed"} : task' = [task EXCEPT ![t] = s]
           \/ \E p \in Procs : /\ task[proc[p].task] = "running" /\ proc[p].verdict = "no_output"
                               /\ task' = [task EXCEPT ![proc[p].task] = "succeeded"]
                               /\ UNCHANGED <<record, level>>
           \/ \E r \in Repairs : task' = [task EXCEPT ![r] = "queued"] /\ task[r] = "absent"
    <1>0. TypeOK /\ Paths
        BY DEF IInv, StagesInOrder
    <1>1. ASSUME NEW p \in Procs, Step(p) /\ ~Finish(p)
          PROVE  task' = task \/ (MayWrite(p) /\ Succeed(p) /\ (Seal(p) \/ Evaluate(p) \/ Compare(p) \/ Apply(p)))
        <2>1. task' = task \/ (Succeed(p) /\ MayWrite(p))
            BY <1>0, <1>1, StepTask
        <2>2. Seal(p) \/ Evaluate(p) \/ Compare(p) \/ Apply(p) \/ task' = task
            BY <1>1 DEF Step, Look, Acquire, Collect, Narrate, WritePartial, Lessons, Subject,
                Leave, Refused, queue
        <2>3. QED
            BY <2>1, <2>2
    <1>2. ASSUME NEW p \in Procs, Finish(p)
          PROVE  \/ task' = task
                 \/ \E t \in Tasks : /\ task[t] \in Active
                                     /\ \E s \in Active \cup {"failed"} : task' = [task EXCEPT ![t] = s]
                 \/ /\ task[proc[p].task] = "running" /\ proc[p].verdict = "no_output"
                    /\ task' = [task EXCEPT ![proc[p].task] = "succeeded"]
                    /\ UNCHANGED <<record, level>>
        <2>0. UNCHANGED <<record, level>> /\ proc[p].task \in Tasks
            BY <1>0, <1>2, ProcTyped DEF Finish, world
        <2>1. CASE UNCHANGED queue
            BY <2>1 DEF queue
        <2>2. CASE ~UNCHANGED queue
            <3>1. task[proc[p].task] = "running"
                BY <1>0, <1>2, <2>2, FinishEffect
            <3>2. PICK s \in {"succeeded", "failed", "queued"} :
                      /\ task' = [task EXCEPT ![proc[p].task] = s]
                      /\ s = "succeeded" => proc[p].verdict = "no_output"
                BY <1>0, <1>2, <2>2, FinishEffect
            <3>3. QED
                BY <2>0, <3>1, <3>2 DEF Active
        <2>3. QED
            BY <2>1, <2>2
    <1>3. ASSUME NEW t \in Tasks, Recover(t) \/ \E p \in Procs : Claim(p, t)
          PROVE  task[t] \in Active /\ \E s \in Active \cup {"failed"} : task' = [task EXCEPT ![t] = s]
        BY <1>3 DEF Recover, Claim, Active
    <1>4. ASSUME NEW r \in Repairs, RequestRepair(r)
          PROVE  task' = [task EXCEPT ![r] = "queued"] /\ task[r] = "absent"
        BY <1>4 DEF RequestRepair
    <1>5. QED
        BY <1>1, <1>2, <1>3, <1>4 DEF Next, Crash, Break, Suspend, Wake, MarketMoves, ShadowsSeal,
            CampaignMoves, Lapse, vars, queue

\* The second half: what is still open, task by task.
LEMMA WorkerLearns ==
    ASSUME IInv, [Next]_vars
    PROVE  /\ kind # "canary" /\ retro'[T5] # "none" => task'[Worker] = "succeeded"
           /\ task'[Worker] = "succeeded" => sealed' # 0
    <1>0. /\ TypeOK /\ T5 \in Stages /\ Grows /\ Worker \in Tasks /\ Worker \notin Repairs
          /\ task \in [Tasks -> TaskStatus]
          /\ retro \in [Stages -> {"none", "unavailable", "complete"}]
          /\ (sealed # 0 <=> retro[T5] # "none")
          /\ kind # "canary" /\ retro[T5] # "none" => task[Worker] = "succeeded"
          /\ task[Worker] = "succeeded" => sealed # 0
        <2>1. TypeOK /\ T5 \in Stages
            BY DEF IInv, StagesInOrder, T5, Stages
        <2>2. QED
            BY <2>1, RetroGrows, WorkerIsTask DEF IInv, StagesInOrder, TypeOK, LearntSoFar
    <1>1. \A p \in Procs : SeenOf(p) /\ PathOf(p)
        BY DEF IInv, SeenBehind, Paths
    <1>2. task[Worker] = "succeeded" => task'[Worker] = "succeeded"
        BY <1>0, TaskMoves DEF Active, Succeed
    <1>3. ASSUME kind # "canary", retro'[T5] # "none" PROVE task'[Worker] = "succeeded"
        <2>1. CASE retro[T5] # "none"
            BY <1>0, <1>2, <1>3, <2>1
        <2>2. CASE retro[T5] = "none"
            <3>1. PICK p \in Procs : Writes(p) /\ MayWrite(p)
                BY <1>0, <1>3, <2>2, OnlyWriters
            <3>2. ~Evaluate(p) /\ ~Subject(p)
                BY <1>1, <2>2 DEF SeenOf, Evaluate, Subject
            <3>3. ~WritePartial(p)
                BY <1>0, <1>3, <2>2, WritePartialEffect DEF record
            <3>4. Seal(p)
                BY <3>1, <3>2, <3>3 DEF Writes
            <3>5. Succeed(p)
                BY <1>0, <1>3, <2>2, <3>4, SealEffect DEF record
            <3>6. proc[p].task = Worker
                BY <1>1, <3>4 DEF PathOf, Seal
            <3>7. QED
                BY <1>0, <3>5, <3>6 DEF Succeed
        <2>3. QED
            BY <2>1, <2>2
    <1>4. ASSUME task'[Worker] = "succeeded" PROVE sealed' # 0
        <2>1. CASE task[Worker] = "succeeded" \/ retro[T5] # "none"
            BY <1>0, <2>1 DEF Grows
        <2>2. CASE task[Worker] # "succeeded" /\ retro[T5] = "none"
            <3>1. task' # task
                BY <1>4, <2>2
            <3>2. ASSUME NEW p \in Procs, Succeed(p), Seal(p) PROVE sealed' # 0
                <4>1. Fenced(p) /\ sealed' = proc[p].lease
                    BY <1>0, <3>1, <3>2, SealEffect
                <4>2. QED
                    BY <4>1, WriterLease
            <3>3. ASSUME NEW p \in Procs, Evaluate(p) \/ Compare(p) \/ Apply(p) PROVE FALSE
                BY <1>1, <2>2, <3>3 DEF SeenOf, Evaluate, Compare, Apply
            <3>4. ASSUME NEW p \in Procs, proc[p].verdict = "no_output" PROVE FALSE
                BY <1>1, <2>2, <3>4 DEF SeenOf
            <3>5. ASSUME NEW t \in Tasks, task[t] \in Active,
                         NEW s \in Active \cup {"failed"}, task' = [task EXCEPT ![t] = s]
                  PROVE  FALSE
                BY <1>0, <1>4, <2>2, <3>5 DEF Active
            <3>6. ASSUME NEW r \in Repairs, task' = [task EXCEPT ![r] = "queued"] PROVE FALSE
                BY <1>0, <1>4, <2>2, <3>6
            <3>7. QED
                BY <3>1, <3>2, <3>3, <3>4, <3>5, <3>6, TaskMoves
        <2>3. QED
            BY <2>1, <2>2
    <1>5. QED
        BY <1>3, <1>4

\* A Canary run whose tasks all succeed has compared every subject, or the
\* campaign has moved on.
LEMMA ComparisonLearns ==
    ASSUME IInv, [Next]_vars, kind = "canary", narr' # 0, level'
    PROVE  \/ \A s \in Subjects : compared'[s] # 0
           \/ \E t \in Tasks : task'[t] \in Active \cup {"failed"}
    <1>0. /\ TypeOK /\ Grows /\ task \in [Tasks -> TaskStatus] /\ narr \in Nat
          /\ compared \in [Subjects -> Nat] /\ Repairs \subseteq Tasks
        BY RetroGrows, WorkerIsTask DEF IInv, StagesInOrder, TypeOK
    <1>1. \A p \in Procs : PathOf(p) /\ DraftOf(p) /\ proc[p].task \in Tasks
        BY <1>0, ProcTyped DEF IInv, Paths, DraftCurrent
    <1>2. level /\ (narr # 0 => \/ \A s \in Subjects : compared[s] # 0
                                \/ \E t \in Tasks : task[t] \in Active \cup {"failed"})
        <2>1. level
            <3>1. ASSUME NEW p \in Procs, Step(p) PROVE level' = level \/ level' = FALSE
                BY <3>1 DEF Step, Look, Acquire, Collect, Narrate, WritePartial, Seal, Evaluate,
                    Lessons, Compare, Subject, Apply, Leave, Finish, Refused, world
            <3>2. level' = level \/ level' = FALSE
                BY <3>1 DEF Next, Crash, Break, Suspend, Claim, Wake, Recover, RequestRepair,
                    MarketMoves, ShadowsSeal, CampaignMoves, Lapse, vars, world
            <3>3. QED
                BY <3>2
        <2>2. QED
            BY <2>1 DEF IInv, LearntSoFar
    <1>3. \A s \in Subjects : compared[s] # 0 => compared'[s] # 0
        <2>1. ASSUME NEW p \in Procs, Subject(p)
              PROVE  \A s \in Subjects : compared[s] # 0 => compared'[s] # 0
            <3>1. proc[p].draft # 0
                BY <1>1, <2>1 DEF Subject, DraftOf
            <3>2. QED
                BY <1>0, <2>1, <3>1, SubjectEffect DEF record
        <2>2. ASSUME NEW p \in Procs, WritePartial(p) \/ Seal(p) \/ Evaluate(p)
              PROVE  compared' = compared
            BY <1>0, <2>2, WritePartialEffect, SealEffect, EvaluateEffect DEF record
        <2>3. QED
            BY <1>0, <2>1, <2>2, OnlyWriters DEF Writes
    <1>4. CASE task' = task
        <2>1. CASE narr # 0
            BY <1>2, <1>3, <1>4, <2>1
        <2>2. CASE narr = 0
            <3>1. PICK p \in Procs : MayWrite(p)
                BY <1>0, <2>2, OnlyWriters
            <3>2. task[proc[p].task] = "running"
                BY <3>1 DEF IInv, Ownership, OwnerRuns
            <3>3. QED
                BY <1>1, <1>4, <3>2 DEF Active
        <2>3. QED
            BY <2>1, <2>2
    <1>5. ASSUME NEW p \in Procs, MayWrite(p), task' # task, Seal(p) PROVE FALSE
        BY <1>0, <1>5, SealEffect
    <1>6. ASSUME NEW p \in Procs, Evaluate(p) PROVE FALSE
        BY <1>1, <1>6 DEF PathOf, Evaluate
    <1>7. ASSUME NEW p \in Procs, MayWrite(p), task' # task, Compare(p) PROVE FALSE
        <2>1. narr' = narr /\ (~level \/ proc[p].draft = 0) /\ proc[p].permit
            BY <1>0, <1>7, CompareEffect DEF record
        <2>2. proc[p].draft = narr
            BY <1>1, <2>1, <1>7 DEF DraftOf, Compare
        <2>3. QED
            BY <1>2, <2>1, <2>2
    <1>8. ASSUME NEW p \in Procs, MayWrite(p), Apply(p)
          PROVE  \A s \in Subjects : compared'[s] # 0
        BY <1>1, <1>3, <1>8 DEF DraftOf, Apply, MayWrite
    <1>9. ASSUME NEW t \in Tasks, NEW s \in Active \cup {"failed"}, task' = [task EXCEPT ![t] = s]
          PROVE  task'[t] \in Active \cup {"failed"}
        BY <1>0, <1>9
    <1>10. ASSUME NEW p \in Procs, proc[p].verdict = "no_output" PROVE FALSE
        BY <1>1, <1>10 DEF PathOf
    <1>11. "queued" \in Active \cup {"failed"}
        BY DEF Active
    <1>12. CASE task' # task
        BY <1>0, <1>5, <1>6, <1>7, <1>8, <1>9, <1>10, <1>11, <1>12, TaskMoves
    <1>13. QED
        BY <1>4, <1>12

\* Every step keeps what was learnt in accord with the narrative.
LEMMA LearntNext == IInv /\ [Next]_vars => LearntSoFar'
    <1> SUFFICES ASSUME IInv, [Next]_vars PROVE LearntSoFar'
        OBVIOUS
    <1>1. kind' = kind
        BY KindStays
    <1>2. QED
        BY <1>1, OneNarrative, WorkerLearns, ComparisonLearns DEF LearntSoFar

(***************************************************************************)
(* The theorems.                                                           *)
(***************************************************************************)
LEMMA InitIInv == Init => IInv
    <1> SUFFICES ASSUME Init PROVE IInv
        OBVIOUS
    <1>1. /\ Worker \in Tasks /\ Worker \notin Repairs /\ Repairs \subseteq Tasks
          /\ T5 \in Stages /\ 2 \in Stages /\ 1 \in Stages
        BY WorkerIsTask DEF T5, Stages
    <1>2. \A p \in Procs : proc[p] = Idle
        BY DEF Init
    <1>3. /\ Idle \in Attempts /\ Idle.task = Worker /\ ~Idle.permit /\ Idle.pc = "idle"
          /\ Idle.lease = 0 /\ Idle.seen = "none" /\ Idle.draft = 0 /\ Idle.verdict = "none"
        BY IdleTyped
    <1>4. TypeOK
        <2>1. task \in [Tasks -> TaskStatus] /\ wait \in [Tasks -> {"ready", "poll", "lease"}]
            BY <1>1 DEF Init, TaskStatus
        <2>2. proc \in [Procs -> Attempts] /\ row \in [epoch : Nat, live : BOOLEAN]
            BY <1>3 DEF Init
        <2>3. kind \in Kinds /\ due \in 0 .. T5 /\ faults \in 0 .. MaxFaults
            BY StagesAssumption DEF Init, T5
        <2>flags. shadows \in BOOLEAN /\ level \in BOOLEAN
            BY Zenon DEF Init
        <2>4. /\ retro \in [Stages -> {"none", "unavailable", "complete"}]
              /\ sealed \in Nat /\ narr \in Nat /\ memory \in Nat /\ lessons \in BOOLEAN
              /\ compared \in [Subjects -> Nat]
            BY DEF Init
        <2>5. QED
            BY <2>1, <2>2, <2>3, <2>4, <2>flags DEF TypeOK
    <1>5. StagesInOrder
        BY <1>1, <1>4 DEF Init, StagesInOrder
    <1>6. Ownership
        BY <1>1, <1>2, <1>3 DEF Init, Ownership, OneTask, OneOwner, OwnerRuns, MayWrite, Owns, Active
    <1>7. Paths /\ SeenBehind /\ DraftCurrent
        BY <1>2, <1>3 DEF Paths, PathOf, SeenBehind, SeenOf, DraftCurrent, DraftOf
    <1>8. EpochsOnce
        BY <1>2, <1>3 DEF Init, EpochsOnce
    <1>9. RepairsFollow
        BY <1>1 DEF Init, RepairsFollow
    <1>10. LearntSoFar
        BY <1>1 DEF Init, LearntSoFar
    <1>11. QED
        BY <1>5, <1>6, <1>7, <1>8, <1>9, <1>10 DEF IInv

\* The invariant is inductive.
LEMMA NextIInv == IInv /\ [Next]_vars => IInv'
    <1> SUFFICES ASSUME IInv, [Next]_vars PROVE IInv'
        OBVIOUS
    <1>1. TypeOK /\ Paths /\ Ownership /\ EpochsOnce
        BY DEF IInv, StagesInOrder
    <1>2. QED
        BY <1>1, OrderNext, OwnershipNext, PathsNext, EpochsNext, SeenNext, RepairsNext, DraftNext,
           LearntNext DEF IInv

\* The invariant holds in every reachable state.
LEMMA Inductive == Spec => []IInv
    BY InitIInv, NextIInv, PTL DEF Spec

\* However late the worker catches up, the stages of one Outcome are written
\* in order and the Outcome is sealed with the last of them.
THEOREM InOrder == Spec => []StagesInOrder
    <1>1. IInv => StagesInOrder
        BY DEF IInv
    <1>2. QED
        BY <1>1, Inductive, PTL

\* Everything learnt from one Outcome was learnt from its one T+5 narrative,
\* and when all its tasks have succeeded, all there is to learn was learnt.
THEOREM SettledLearnt == Spec => []SettledMeansLearnt
    <1>1. IInv => SettledMeansLearnt
        <2> SUFFICES ASSUME IInv PROVE SettledMeansLearnt
            OBVIOUS
        <2>1. LearntSoFar /\ Worker \in Tasks /\ task[Worker] # "absent"
            BY WorkerIsTask DEF IInv, Ownership, OneTask
        <2>2. ASSUME \A t \in Tasks : task[t] \in {"succeeded", "absent"}
              PROVE  /\ sealed # 0
                     /\ \A t \in Tasks : task[t] \notin Active \cup {"failed"}
            BY <2>1, <2>2 DEF LearntSoFar, Active
        <2>3. QED
            BY <2>1, <2>2 DEF LearntSoFar, SettledMeansLearnt
    <1>2. QED
        BY <1>1, Inductive, PTL

\* The sealed Outcome and its retrospectives are never rewritten; a repair only
\* adds the narrative that the T+5 retrospective lacked.
THEOREM SealedFactsStay == Spec => FactsFrozen
    <1> DEFINE Frozen == /\ sealed # 0 => sealed' = sealed
                         /\ narr # 0 => narr' = narr
                         /\ \A h \in Stages : retro'[h] # retro[h] =>
                              \/ retro[h] = "none"
                              \/ h = T5 /\ retro[h] = "unavailable" /\ retro'[h] = "complete"
    <1>1. IInv /\ [Next]_vars => [Frozen]_record
        BY RetroGrows DEF Grows
    <1>2. Spec => [][Frozen]_record
        BY <1>1, Inductive, PTL DEF Spec
    <1>3. QED
        BY <1>2 DEF FactsFrozen

\* While an attempt holds the outcome's lease, nobody else changes what is
\* recorded of it.
THEOREM OneHolderWrites == Spec => HolderAlone
    <1> DEFINE Alone == \A p \in Procs : (Holds(p) /\ Working(p) /\ proc'[p] = proc[p])
                            => UNCHANGED <<retro, sealed, narr, memory, compared>>
    <1>1. IInv /\ [Next]_vars => [Alone]_vars
        <2> SUFFICES ASSUME IInv, [Next]_vars, NEW p \in Procs, Holds(p), proc'[p] = proc[p],
                            NEW q \in Procs, Writes(q)
                     PROVE  UNCHANGED <<retro, sealed, narr, memory, compared>>
            BY OnlyWriters DEF IInv, StagesInOrder
        <2>0. TypeOK
            BY DEF IInv, StagesInOrder
        <2>1. proc[q].lease = proc[p].lease /\ proc[q].lease # 0
            BY WriterLease DEF Writes, Fenced, Holds
        <2>2. p = q
            BY <2>1 DEF IInv, EpochsOnce
        <2>3. CASE WritePartial(p)
            BY <2>0, <2>3, WritePartialEffect DEF Ended
        <2>4. CASE Seal(p)
            BY <2>0, <2>4, SealEffect DEF Ended, Went
        <2>5. CASE Evaluate(p)
            BY <2>0, <2>5, EvaluateEffect DEF Ended, Went
        <2>6. CASE Subject(p)
            BY <2>0, <2>6, SubjectEffect DEF Ended, Went
        <2>7. QED
            BY <2>2, <2>3, <2>4, <2>5, <2>6 DEF Writes
    <1>2. Spec => [][Alone]_vars
        BY <1>1, Inductive, PTL DEF Spec
    <1>3. QED
        BY <1>2 DEF HolderAlone
===============================================================================
