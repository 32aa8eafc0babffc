----------------------------- MODULE CanaryProofs -----------------------------
(***************************************************************************)
(* Theorems about CanaryCampaign, for any set of sessions, any number of   *)
(* levels and every policy: whatever the attempts of different sessions do *)
(* beside each other, the campaign moves only for what its cohorts show.   *)
(***************************************************************************)
EXTENDS CanaryCampaign, SumTheorems

USE CanaryAssumption

Counters == {"idle", "bind", "pair", "observe", "judge", "aim", "look", "commit", "apply"}
TaskStates == {"absent", "planned", "queued", "running", "succeeded", "failed"}
Attempts == [pc : Counters, sub : 1 .. 3, set : SUBSET Sessions,
             verdict : Verdicts \cup {"none"}, target : Int, from : Int,
             after : SUBSET Sessions, thru : SUBSET Sessions]

\* TypeOK, with the domains it leaves open.
Typed == TypeOK /\ proc \in [Sessions -> Attempts] /\ head \in [Policies -> Int]

\* What has been observed, was reserved and is not given back.
ObservedReserved == \A s \in obs : task[s] \notin {"absent", "planned"}

\* A session that is planned stands at a level the campaign has reached.
LevelsReached ==
    \A s \in Sessions : task[s] # "absent" =>
        level[s] \in Levels /\ (status # Frozen => level[s] <= status)

\* An attempt is under way only while its task runs.
AttemptsRun == \A s \in Sessions : proc[s].pc # "idle" => task[s] = "running"

\* After Judge an attempt carries a set of recorded observations and what they
\* are worth, until it ends.
JudgedRight ==
    \A s \in Sessions : \A S \in SUBSET Sessions :
        proc[s].pc \in {"aim", "look", "commit", "apply"} /\ proc[s].set = S =>
            S \subseteq obs /\ proc[s].verdict = Verdict(S)

\* An attempt aims at a level the campaign has reached.
TargetsReached ==
    \A s \in Sessions :
        proc[s].pc \in {"look", "commit"} /\ proc[s].sub # 3 /\ status # Frozen =>
            proc[s].target <= status

HeadsBehind == status # Frozen => head["contract"] <= status /\ head["topology"] <= status

\* The inductive invariant.
IInv == /\ Typed /\ ObservedReserved /\ LevelsReached /\ AttemptsRun /\ JudgedRight
        /\ TargetsReached /\ HeadsBehind /\ ClosedStagesStand

(***************************************************************************)
(* Facts about the operators.                                              *)
(***************************************************************************)
LEMMA SubjectsAre ==
    /\ Len(Subjects) = 3
    /\ Subjects[1] = "contract" /\ Subjects[2] = "topology" /\ Subjects[3] = "bundle"
    /\ \A i \in 1 .. 3 : Subjects[i] \in Policies
    BY DEF Subjects, Policies

\* An idle worker is well typed.
LEMMA IdleTyped == Idle \in Attempts
    BY DEF Idle, At, Attempts, Counters, Verdicts, NoState

\* The verdict on any cohort is one of the verdicts.
LEMMA VerdictTyped == \A S : Verdict(S) \in Verdicts
    BY DEF Verdict, Verdicts

\* The verdict depends on nothing but what the sessions of the set show.
LEMMA VerdictKept ==
    ASSUME NEW S \in SUBSET Sessions, \A s \in S : shows'[s] = shows[s]
    PROVE  Verdict(S)' = Verdict(S)
    <1>1. \A what : Showing(S, what)' = Showing(S, what)
        BY DEF Showing
    <1>2. UtilityMet(S)' = UtilityMet(S)
        BY <1>1 DEF UtilityMet, Showing
    <1>3. QED
        BY <1>1, <1>2 DEF Verdict, Showing, UtilityMet

\* A cohort depends on what is recorded and on the levels of its sessions.
LEMMA CohortKept ==
    ASSUME obs' = obs, \A s \in obs : level'[s] = level[s], NEW l \in Levels
    PROVE  Cohort(l)' = Cohort(l)
    BY DEF Cohort

\* The invariant holds initially.
LEMMA InitIInv == Init => IInv
    <1> SUFFICES ASSUME Init PROVE IInv
        OBVIOUS
    <1>1. \A s \in Sessions : proc[s] = Idle
        BY DEF Init
    <1>2. TypeOK
        <2>1. proc \in [Sessions -> Attempts]
            BY IdleTyped DEF Init
        <2>2. shows \in [Sessions -> [finding : Findings, learning : Learning]]
            BY DEF Init, Findings, Learning
        <2>3. head \in [Policies -> Int] /\ \A x \in Policies : head[x] \in States(x)
            BY DEF Init, States, Candidate, Retired
        <2>4. judged \in [Policies -> [Sessions -> Int]]
            BY DEF Init
        <2>5. pairs \in [Policies -> SUBSET Sessions] /\ used \in [Policies -> SUBSET Sessions]
            BY DEF Init
        <2>6. level \in [Sessions -> 0 .. Top] /\ task \in [Sessions -> TaskStates]
            BY DEF Init, TaskStates
        <2>9. status \in Frozen .. Completed /\ faults \in 0 .. MaxFaults
            BY DEF Init, Frozen, Completed, Staged
        <2>10. /\ last \in Verdicts \cup {"none"} /\ activated \in BOOLEAN
               /\ rows = {} /\ obs = {}
            BY DEF Init
        <2>7. ASSUME NEW s \in Sessions
              PROVE  /\ proc[s].pc = "idle" /\ proc[s].sub = 1 /\ proc[s].set = {}
                     /\ proc[s].verdict = "none" /\ proc[s].target = NoState
                     /\ proc[s].from = NoState /\ proc[s].after = {} /\ proc[s].thru = {}
            BY <1>1 DEF Idle, At
        <2>8. QED
            BY <2>2, <2>3, <2>4, <2>5, <2>6, <2>7, <2>9, <2>10, SubjectsAre DEF TypeOK, TaskStates
    <1>3. QED
        BY <1>1, <1>2, IdleTyped DEF Init, IInv, Typed, ObservedReserved, LevelsReached,
            AttemptsRun, JudgedRight, TargetsReached, HeadsBehind, ClosedStagesStand,
            Idle, At, Staged, Frozen, Levels, States, Policies

(***************************************************************************)
(* Steps stay typed, and touch one session only.                           *)
(***************************************************************************)
\* What NextSubject does to the attempt.
LEMMA NextSubjectEffect ==
    ASSUME Typed, NEW s \in Sessions, NEW first \in {"pair", "aim"}, NextSubject(s, first)
    PROVE  /\ proc' \in [Sessions -> Attempts]
           /\ \A u \in Sessions \ {s} : proc'[u] = proc[u]
           /\ proc'[s].set = proc[s].set /\ proc'[s].verdict = proc[s].verdict
           /\ proc'[s].target = NoState /\ proc'[s].from = NoState
           /\ proc'[s].pc = first \/ proc'[s].pc = IF first = "pair" THEN "observe" ELSE "apply"
    <1>0. proc \in [Sessions -> Attempts]
        BY DEF Typed
    <1> DEFINE i == IF proc[s].sub < 3 THEN proc[s].sub + 1 ELSE 1
               pc == IF proc[s].sub < 3 THEN first ELSE IF first = "pair" THEN "observe" ELSE "apply"
               r == At(pc, i, proc[s].set, proc[s].verdict)
    <1>1. pc \in Counters /\ i \in 1 .. 3
        BY <1>0 DEF Counters, Attempts
    <1>2. proc' = [proc EXCEPT ![s] = r]
        BY SubjectsAre DEF NextSubject
    <1>3. pc \in {first, IF first = "pair" THEN "observe" ELSE "apply"}
        OBVIOUS
    <1> HIDE DEF pc, i
    <1>4. r \in Attempts
        BY <1>0, <1>1 DEF Attempts, At, NoState
    <1>5. /\ r.set = proc[s].set /\ r.verdict = proc[s].verdict /\ r.pc = pc
          /\ r.target = NoState /\ r.from = NoState
        BY DEF At
    <1> HIDE DEF r
    <1>6. proc'[s] = r /\ (\A u \in Sessions \ {s} : proc'[u] = proc[u])
             /\ proc' \in [Sessions -> Attempts]
        BY <1>0, <1>2, <1>4
    <1>7. QED
        BY <1>3, <1>5, <1>6

\* Goto and End.
LEMMA GotoEffect ==
    ASSUME Typed, NEW s \in Sessions, NEW pc \in Counters, Goto(s, pc)
    PROVE  /\ proc' \in [Sessions -> Attempts]
           /\ \A u \in Sessions \ {s} : proc'[u] = proc[u]
           /\ proc'[s].pc = pc /\ proc'[s].set = proc[s].set
           /\ proc'[s].verdict = proc[s].verdict
           /\ proc'[s].sub = proc[s].sub /\ proc'[s].target = proc[s].target
           /\ proc'[s].from = proc[s].from
    BY SMT DEF Typed, Goto, Attempts

\* An attempt that ends leaves its thread idle and its task as told.
LEMMA EndEffect ==
    ASSUME Typed, NEW s \in Sessions, NEW t \in TaskStates, End(s, t)
    PROVE  /\ proc' \in [Sessions -> Attempts] /\ task' \in [Sessions -> TaskStates]
           /\ \A u \in Sessions \ {s} : proc'[u] = proc[u] /\ task'[u] = task[u]
           /\ proc'[s] = Idle /\ task'[s] = t
    BY IdleTyped DEF Typed, TypeOK, TaskStates, End

\* What a step of a session's attempt, or of its preparation, leaves alone.
Prepares(s) == Plan(s) \/ Reserve(s)
Works(s) ==
    /\ UNCHANGED setup
    /\ task[s] \in {"queued", "running"} /\ task'[s] \notin {"absent", "planned"}
    /\ proc'[s].pc # "idle" => task'[s] = "running"
Records(s) ==
    /\ obs' = obs \cup {s} /\ task[s] = "running"
    /\ status = level[s] /\ UNCHANGED <<campaign, setup>>

\* A step of one session touches no other session.
LEMMA StepEffect ==
    ASSUME Typed, AttemptsRun, NEW s \in Sessions, Step(s)
    PROVE  /\ proc' \in [Sessions -> Attempts] /\ task' \in [Sessions -> TaskStates]
           /\ \A u \in Sessions \ {s} : proc'[u] = proc[u] /\ task'[u] = task[u]
                                          /\ level'[u] = level[u] /\ shows'[u] = shows[u]
           /\ Prepares(s) \/ Works(s)
           /\ obs' = obs \/ Records(s)
    <1>0. proc \in [Sessions -> Attempts] /\ task \in [Sessions -> TaskStates]
        BY DEF Typed, TypeOK, TaskStates
    <1>1. CASE Prepares(s)
        BY <1>0, <1>1 DEF Prepares, Plan, Reserve, evidence, Typed, TypeOK, TaskStates
    <1>2. CASE Open(s)
        <2>1. CASE Goto(s, "bind") /\ task' = [task EXCEPT ![s] = "running"]
            <3>1. "bind" \in Counters
                BY DEF Counters
            <3>2. QED
                BY <1>0, <1>2, <2>1, <3>1, GotoEffect DEF Open, Works, setup, evidence, TaskStates
        <2>2. CASE End(s, "succeeded")
            BY <1>2, <2>2, EndEffect DEF Open, Works, setup, evidence, TaskStates, Idle, At
        <2>3. QED
            BY <1>2, <2>1, <2>2 DEF Open
    <1>3. CASE proc[s].pc # "idle" /\ UNCHANGED <<setup, obs>>
               /\ \E pc \in Counters : Goto(s, pc) /\ UNCHANGED task
        BY <1>0, <1>3, GotoEffect DEF AttemptsRun, Works, setup
    <1>4. CASE proc[s].pc # "idle" /\ UNCHANGED <<setup, obs>>
               /\ \E t \in TaskStates \ {"absent", "planned"} : End(s, t)
        BY <1>4, EndEffect DEF AttemptsRun, Works, setup, Idle, At
    <1>5. CASE proc[s].pc # "idle" /\ UNCHANGED <<setup, obs, task>>
               /\ \E first \in {"pair", "aim"} : NextSubject(s, first)
        BY <1>0, <1>5, NextSubjectEffect DEF AttemptsRun, Works, setup
    <1>6. CASE Judge(s)
        <2>1. Cohort(level[s]) \in SUBSET Sessions /\ Verdict(Cohort(level[s])) \in Verdicts
            BY VerdictTyped DEF Cohort, Typed, TypeOK
        <2>2. "aim" \in Counters
            BY DEF Counters
        <2>3. proc' \in [Sessions -> Attempts]
            BY <1>0, <1>6, <2>1, <2>2, SMT DEF Judge, Attempts
        <2>4. QED
            BY <1>0, <1>6, <2>3 DEF Judge, AttemptsRun, Works, setup, evidence
    <1>7. CASE Aim(s)
        <2>1. Target(Subject(s), level[s], proc[s].verdict, head[Subject(s)]) \in Int
            BY <1>0, SubjectsAre DEF Target, Subject, Attempts, Typed, TypeOK, NoState
        <2>2. "look" \in Counters
            BY DEF Counters
        <2>3. proc' \in [Sessions -> Attempts]
            BY <1>0, <1>7, <2>1, <2>2, SMT DEF Aim, Attempts
        <2>4. QED
            BY <1>0, <1>7, <2>3 DEF Aim, AttemptsRun, Works, setup, evidence
    <1>8. CASE Look(s)
        <2>1. CASE judged[Subject(s)][s] # -1
            BY <1>5, <1>8, <2>1 DEF Look, setup, evidence
        <2>2. CASE judged[Subject(s)][s] = -1
            <3>1. /\ head[Subject(s)] \in Int /\ used[Subject(s)] \in SUBSET Sessions
                  /\ pairs[Subject(s)] \in SUBSET Sessions /\ "commit" \in Counters
                BY <1>0, SubjectsAre DEF Subject, Attempts, Typed, TypeOK, Counters
            <3>2. proc' \in [Sessions -> Attempts]
                BY <1>0, <1>8, <2>2, <3>1, SMT DEF Look, Attempts
            <3>3. QED
                BY <1>0, <1>8, <2>2, <3>2 DEF Look, AttemptsRun, Works, setup, evidence
        <2>3. QED
            BY <2>1, <2>2
    <1>9. CASE Observe(s)
        <2>1. CASE status = level[s]
            <3>1. "judge" \in Counters
                BY DEF Counters
            <3>2. QED
                BY <1>0, <1>9, <2>1, <3>1, GotoEffect
                    DEF Observe, AttemptsRun, Works, Records, setup, evidence
        <2>2. CASE status # level[s]
            BY <1>4, <1>9, <2>2 DEF Observe, Fail, TaskStates
        <2>3. QED
            BY <2>1, <2>2
    <1>10. CASE Bind(s)
        BY <1>3, <1>4, <1>10 DEF Bind, Fail, evidence, Counters, TaskStates
    <1>11. CASE Pair(s)
        BY <1>5, <1>11 DEF Pair
    <1>12. CASE Commit(s)
        BY <1>4, <1>5, <1>12 DEF Commit, Fail, evidence, TaskStates
    <1>13. CASE Apply(s)
        BY <1>4, <1>13 DEF Apply, Fail, evidence, TaskStates
    <1>14. CASE Crash(s)
        BY <1>0, <1>14, EndEffect DEF Crash, Works, setup, evidence, TaskStates, Idle, At
    <1>15. QED
        BY <1>1, <1>2, <1>6, <1>7, <1>8, <1>9, <1>10, <1>11, <1>12, <1>13, <1>14
            DEF Step, Prepares

(***************************************************************************)
(* The parts of the invariant, one lemma each.                             *)
(***************************************************************************)
\* A proposal of a typed attempt is a state of its subject.
LEMMA HeadTyped ==
    ASSUME NEW x \in Policies, NEW s \in Sessions, NEW from \in States(x), NEW fresh \in Nat,
           NEW target \in States(x) \cup {NoState}, NEW to,
           to = NextState(x, s, from, target, fresh), to = from \/ Allowed(x, from, to)
    PROVE  to \in States(x)
    BY DEF Policies, States, NextState, Proposed, Allowed, NoState, Candidate, Active, Proven,
        Contested, Retired

\* A target is a state of its subject, or none.
LEMMA TargetTyped ==
    ASSUME NEW x \in Policies, NEW l \in 0 .. Top, NEW v, NEW current \in States(x)
    PROVE  Target(x, l, v, current) \in States(x) \cup {NoState}
    BY DEF Policies, Target, States

\* A step of a session leaves what an attempt aims at within its subject.
AimsTyped(r) ==
    {r.target, r.from} \subseteq States(Subjects[r.sub]) \cup {NoState}

\* No step makes an attempt aim at another subject's state.
LEMMA AimsKept ==
    ASSUME Typed, AttemptsRun, NEW s \in Sessions, Step(s)
    PROVE  AimsTyped(proc'[s])
    <1>0. proc \in [Sessions -> Attempts] /\ AimsTyped(proc[s])
        BY DEF Typed, TypeOK, AimsTyped
    <1>1. CASE \E pc \in Counters : Goto(s, pc)
        BY <1>0, <1>1, GotoEffect DEF AimsTyped
    <1>2. CASE proc'[s] = Idle
        BY <1>2 DEF Idle, At, AimsTyped
    <1>3. CASE \E first \in {"pair", "aim"} : NextSubject(s, first)
        BY <1>3, NextSubjectEffect DEF AimsTyped
    <1>4. CASE proc'[s] = proc[s]
        BY <1>0, <1>4
    <1>5. \A t \in TaskStates : End(s, t) => proc'[s] = Idle
        BY EndEffect
    <1>6. CASE Judge(s)
        <2>1. /\ proc'[s].target = proc[s].target /\ proc'[s].from = proc[s].from
              /\ proc'[s].sub = proc[s].sub
            BY <1>0, <1>6, SMT DEF Judge, Attempts
        <2>2. QED
            BY <1>0, <2>1 DEF AimsTyped
    <1>7. CASE Aim(s)
        <2>1. /\ proc'[s].target = Target(Subject(s), level[s], proc[s].verdict, head[Subject(s)])
              /\ proc'[s].from = proc[s].from /\ proc'[s].sub = proc[s].sub
            BY <1>0, <1>7, SMT DEF Aim, Attempts
        <2>2. /\ Subject(s) = Subjects[proc[s].sub] /\ Subject(s) \in Policies
              /\ head[Subject(s)] \in States(Subject(s)) /\ level[s] \in 0 .. Top
            BY <1>0, SubjectsAre DEF Subject, Attempts, Typed, TypeOK
        <2>3. Target(Subject(s), level[s], proc[s].verdict, head[Subject(s)])
                 \in States(Subject(s)) \cup {NoState}
            BY <2>2, TargetTyped
        <2>4. QED
            BY <1>0, <2>1, <2>2, <2>3 DEF AimsTyped
    <1>8. CASE Look(s) /\ judged[Subject(s)][s] = -1
        <2>1. /\ proc'[s].target = proc[s].target /\ proc'[s].from = head[Subject(s)]
              /\ proc'[s].sub = proc[s].sub
            BY <1>0, <1>8, SMT DEF Look, Attempts
        <2>2. Subject(s) = Subjects[proc[s].sub] /\ head[Subject(s)] \in States(Subject(s))
            BY <1>0, SubjectsAre DEF Subject, Attempts, Typed, TypeOK
        <2>3. QED
            BY <1>0, <2>1, <2>2 DEF AimsTyped
    <1>9. Step(s) => \/ \E pc \in Counters : Goto(s, pc)
                     \/ \E t \in TaskStates : End(s, t)
                     \/ \E first \in {"pair", "aim"} : NextSubject(s, first)
                     \/ proc' = proc
                     \/ Judge(s) \/ Aim(s)
                     \/ (Look(s) /\ judged[Subject(s)][s] = -1)
        <2>1. Plan(s) \/ Reserve(s) => proc' = proc
            BY DEF Plan, Reserve
        <2>2. Open(s) \/ Bind(s) \/ Observe(s) =>
                 \/ \E pc \in Counters : Goto(s, pc)
                 \/ \E t \in TaskStates : End(s, t)
            BY DEF Open, Bind, Observe, Fail, Counters, TaskStates
        <2>3. Pair(s) \/ (Look(s) /\ judged[Subject(s)][s] # -1) =>
                 \E first \in {"pair", "aim"} : NextSubject(s, first)
            BY DEF Pair, Look
        <2>4. Commit(s) => \/ \E t \in TaskStates : End(s, t)
                           \/ \E first \in {"pair", "aim"} : NextSubject(s, first)
            BY DEF Commit, Fail, TaskStates
        <2>5. Apply(s) \/ Crash(s) => \E t \in TaskStates : End(s, t)
            BY DEF Apply, Crash, Fail, TaskStates
        <2>6. QED
            BY <2>1, <2>2, <2>3, <2>4, <2>5 DEF Step
    <1>10. QED
        BY <1>1, <1>2, <1>3, <1>4, <1>5, <1>6, <1>7, <1>8, <1>9

\* The evidence and the policy heads.
LEMMA PolicyTyped ==
    ASSUME Typed, AttemptsRun, NEW s \in Sessions, Step(s)
    PROVE  /\ obs' \subseteq Sessions
           /\ pairs' \in [Policies -> SUBSET Sessions] /\ used' \in [Policies -> SUBSET Sessions]
           /\ judged' \in [Policies -> [Sessions -> Int]]
           /\ head' \in [Policies -> Int] /\ \A x \in Policies : head'[x] \in States(x)
           /\ activated' \in BOOLEAN /\ faults' \in 0 .. MaxFaults
    <1>0. /\ proc \in [Sessions -> Attempts] /\ Subject(s) \in Policies
          /\ proc[s].sub \in 1 .. 3 /\ Subject(s) = Subjects[proc[s].sub]
        BY SubjectsAre DEF Typed, Attempts, Subject
    <1>1. CASE Pair(s)
        BY <1>0, <1>1 DEF Pair, Typed, TypeOK, policy
    <1>2. CASE Commit(s) /\ ~UNCHANGED policy
        <2> DEFINE x == Subject(s)
                   from == proc[s].from
                   fresh == Cardinality(proc[s].thru \ proc[s].after)
                   to == NextState(x, s, from, proc[s].target, fresh)
        <2>1. /\ Unchanged(s) /\ (to = from \/ Allowed(x, from, to))
              /\ used' = [used EXCEPT ![x] = proc[s].thru]
              /\ judged' = [judged EXCEPT ![x][s] = fresh]
              /\ head' = [head EXCEPT ![x] = to]
              /\ activated' = Catalogue(x, to) /\ UNCHANGED <<evidence, faults>>
            BY <1>2 DEF Commit
        <2>2. fresh \in Nat
            <3>1. proc[s].thru \ proc[s].after \subseteq Sessions
                BY <1>0 DEF Attempts
            <3>2. QED
                BY <3>1, FS_Subset, FS_CardinalityType
        <2>3. from \in States(x)
            BY <1>0, <2>1 DEF Unchanged, Typed, TypeOK
        <2>4. proc[s].target \in States(x) \cup {NoState}
            BY <1>0 DEF Typed, TypeOK
        <2>5. to \in States(x) /\ to \in Int
            <3>1. to \in States(x)
                BY <1>0, <2>1, <2>2, <2>3, <2>4, HeadTyped
            <3>2. QED
                BY <3>1 DEF States, Candidate, Retired
        <2>6. proc[s].thru \in SUBSET Sessions
            BY <1>0 DEF Attempts
        <2> HIDE DEF x, from, fresh, to
        <2>7. x \in Policies
            BY <1>0 DEF x
        <2>8. /\ used' \in [Policies -> SUBSET Sessions] /\ head' \in [Policies -> Int]
              /\ \A y \in Policies : head'[y] \in States(y)
              /\ judged' \in [Policies -> [Sessions -> Int]]
            BY <2>1, <2>2, <2>5, <2>6, <2>7 DEF Typed, TypeOK
        <2>9. activated' \in BOOLEAN
            BY <2>1 DEF Catalogue, Typed, TypeOK
        <2>10. QED
            BY <2>1, <2>8, <2>9 DEF evidence, Typed, TypeOK
    <1>3. CASE UNCHANGED <<pairs, policy>> /\ ~Crash(s)
        <2>1. obs' \subseteq Sessions
            <3>1. obs' = obs \/ obs' = obs \cup {s}
                BY StepEffect DEF Records
            <3>2. QED
                BY <3>1 DEF Typed, TypeOK
        <2>2. faults' = faults
            BY <1>3 DEF Step, Plan, Reserve, Open, Bind, Pair, Observe, Judge, Aim, Look, Commit, Apply
        <2>3. QED
            BY <1>3, <2>1, <2>2 DEF policy, Typed, TypeOK
    <1>4. CASE Crash(s)
        BY <1>4 DEF Crash, policy, evidence, Typed, TypeOK
    <1>5. QED
        BY <1>1, <1>2, <1>3, <1>4
            DEF Step, Plan, Reserve, Open, Bind, Observe, Judge, Aim, Look, Commit, Apply, evidence

\* The campaign moves only when an attempt applies a verdict on exactly the
\* cohort of its level, and then it does what the verdict says.
Moves(s) ==
    \E l \in Levels, v \in Verdicts :
        /\ status = l /\ v = Verdict(Cohort(l))
        /\ rows' = rows \cup {[level |-> l, set |-> Cohort(l), verdict |-> v]}
        /\ last' = v /\ status' = After(l, v)
        /\ UNCHANGED <<setup, evidence, policy>>

\* Only a transition of the campaign changes its row.
LEMMA CampaignEffect ==
    ASSUME IInv, NEW s \in Sessions, Step(s)
    PROVE  UNCHANGED campaign \/ Moves(s)
    <1>1. CASE Apply(s) /\ ~UNCHANGED campaign
        <2>1. PICK l, v : l = level[s] /\ v = proc[s].verdict
            OBVIOUS
        <2>2. /\ proc[s].pc = "apply" /\ proc[s].set = Cohort(l) /\ status = l
              /\ rows' = rows \cup {[level |-> l, set |-> Cohort(l), verdict |-> v]}
              /\ last' = v /\ status' = After(l, v)
              /\ UNCHANGED <<setup, evidence, policy>>
            BY <1>1, <2>1 DEF Apply, Summarises
        <2>3. task[s] # "absent" /\ l \in Levels
            BY <2>1, <2>2 DEF IInv, AttemptsRun, LevelsReached
        <2>4. Cohort(l) \in SUBSET Sessions
            BY DEF Cohort, IInv, Typed, TypeOK
        <2>5. v = Verdict(Cohort(l))
            BY <2>1, <2>2, <2>4 DEF IInv, JudgedRight
        <2>6. QED
            BY <2>2, <2>3, <2>5, VerdictTyped DEF Moves
    <1>2. CASE ~Apply(s)
        BY <1>2 DEF Step, Plan, Reserve, Open, Bind, Pair, Observe, Judge, Aim, Look, Commit, Crash
    <1>3. QED
        BY <1>1, <1>2

\* Every step of a session is well typed.
LEMMA TypedNext ==
    ASSUME IInv, NEW s \in Sessions, Step(s)
    PROVE  Typed'
    <1>0. Typed /\ AttemptsRun
        BY DEF IInv
    <1>1. /\ status' \in Frozen .. Completed /\ last' \in Verdicts \cup {"none"}
          /\ rows' \subseteq [level : Levels, set : SUBSET Sessions, verdict : Verdicts]
        <2>1. CASE UNCHANGED campaign
            BY <1>0, <2>1 DEF campaign, Typed, TypeOK
        <2>2. CASE Moves(s)
            <3>1. PICK l \in Levels, v \in Verdicts :
                     /\ rows' = rows \cup {[level |-> l, set |-> Cohort(l), verdict |-> v]}
                     /\ last' = v /\ status' = After(l, v)
                BY <2>2 DEF Moves
            <3>2. Cohort(l) \in SUBSET Sessions
                BY <1>0 DEF Cohort, Typed, TypeOK
            <3>3. After(l, v) \in Frozen .. Completed
                BY DEF After, Frozen, Completed, Levels
            <3>4. QED
                BY <1>0, <3>1, <3>2, <3>3 DEF Typed, TypeOK
        <2>3. QED
            BY <2>1, <2>2, CampaignEffect
    <1> DEFINE Shown == [finding : Findings, learning : Learning]
    <1>10. /\ level \in [Sessions -> 0 .. Top] /\ shows \in [Sessions -> Shown]
           /\ 0 \in 0 .. Top
        BY <1>0 DEF Typed, TypeOK
    <1>2. level' \in [Sessions -> 0 .. Top]
        <2>1. CASE Plan(s)
            BY <1>0, <2>1 DEF Plan, Typed, TypeOK, Levels
        <2>2. CASE Reserve(s)
            <3>1. level' = level \/ level' = [level EXCEPT ![s] = 0]
                BY <2>2 DEF Reserve
            <3>2. QED
                BY <1>10, <3>1
        <2>3. QED
            BY <1>0, <2>1, <2>2, StepEffect DEF Prepares, Works, setup, Typed, TypeOK
    <1>3. shows' \in [Sessions -> Shown]
        <2>1. CASE Reserve(s)
            <3>1. \/ shows' = shows
                  \/ \E f \in Findings, l \in Learning :
                        shows' = [shows EXCEPT ![s] = [finding |-> f, learning |-> l]]
                BY <2>1 DEF Reserve
            <3>2. QED
                BY <1>10, <3>1
        <2>2. CASE Plan(s)
            BY <1>0, <2>2 DEF Plan, Typed, TypeOK
        <2>3. QED
            BY <1>0, <2>1, <2>2, StepEffect DEF Prepares, Works, setup, Typed, TypeOK
    <1>4. proc' \in [Sessions -> Attempts] /\ task' \in [Sessions -> TaskStates]
        BY <1>0, StepEffect
    <1>5. \A u \in Sessions : AimsTyped(proc'[u])
        <2>1. \A u \in Sessions \ {s} : proc'[u] = proc[u]
            BY <1>0, StepEffect
        <2>2. \A u \in Sessions : AimsTyped(proc[u])
            BY <1>0 DEF Typed, TypeOK, AimsTyped
        <2>3. AimsTyped(proc'[s])
            BY <1>0, AimsKept
        <2>4. QED
            BY <2>1, <2>2, <2>3
    <1>6. \A u \in Sessions :
             /\ proc'[u].pc \in Counters /\ proc'[u].sub \in 1 .. 3 /\ proc'[u].set \subseteq Sessions
             /\ proc'[u].verdict \in Verdicts \cup {"none"}
             /\ proc'[u].after \cup proc'[u].thru \subseteq Sessions
             /\ {proc'[u].target, proc'[u].from} \subseteq States(Subjects[proc'[u].sub]) \cup {NoState}
        BY <1>4, <1>5 DEF Attempts, AimsTyped
    <1>7. /\ obs' \subseteq Sessions
          /\ pairs' \in [Policies -> SUBSET Sessions] /\ used' \in [Policies -> SUBSET Sessions]
          /\ judged' \in [Policies -> [Sessions -> Int]]
          /\ head' \in [Policies -> Int] /\ \A x \in Policies : head'[x] \in States(x)
          /\ activated' \in BOOLEAN /\ faults' \in 0 .. MaxFaults
        BY <1>0, PolicyTyped
    <1>8. TypeOK'
        BY <1>1, <1>2, <1>3, <1>4, <1>6, <1>7, SubjectsAre DEF TypeOK, Counters, TaskStates
    <1>9. QED
        BY <1>4, <1>7, <1>8 DEF Typed

\* Observations, levels and attempts stay in step with the tasks.
LEMMA SessionsNext ==
    ASSUME IInv, NEW s \in Sessions, Step(s)
    PROVE  ObservedReserved' /\ LevelsReached' /\ AttemptsRun'
    <1>0. Typed /\ AttemptsRun /\ LevelsReached /\ ObservedReserved
        BY DEF IInv
    <1>1. /\ \A u \in Sessions \ {s} : proc'[u] = proc[u] /\ task'[u] = task[u]
                                         /\ level'[u] = level[u] /\ shows'[u] = shows[u]
          /\ Prepares(s) \/ Works(s)
          /\ obs' = obs \/ Records(s)
        BY <1>0, StepEffect
    <1>2. status' = status \/ (status \in Levels /\ status' \in {status, status + 1, Frozen})
        BY CampaignEffect DEF campaign, Moves, After
    <1>3. CASE Works(s)
        <2>1. \A u \in obs' : u \in obs \/ u = s
            BY <1>1 DEF Records
        <2>2. ObservedReserved'
            <3>1. \A u \in obs : u \in Sessions
                BY <1>0 DEF Typed, TypeOK
            <3>2. QED
                BY <1>0, <1>1, <1>3, <2>1, <3>1 DEF ObservedReserved, Works
        <2>3. LevelsReached'
            <3>1. level' = level /\ task[s] # "absent"
                BY <1>3 DEF Works, setup
            <3>2. QED
                BY <1>0, <1>1, <1>2, <3>1 DEF LevelsReached, Levels, Frozen
        <2>4. AttemptsRun'
            BY <1>0, <1>1, <1>3 DEF AttemptsRun, Works
        <2>5. QED
            BY <2>2, <2>3, <2>4
    <1>4. CASE Plan(s)
        <2>1. /\ obs' = obs /\ status' = status /\ proc' = proc /\ status \in Levels
              /\ task[s] = "absent" /\ task'[s] = "planned" /\ level'[s] = status
            BY <1>0, <1>4 DEF Plan, evidence, campaign, Typed, TypeOK
        <2>2. ObservedReserved' /\ AttemptsRun'
            BY <1>0, <1>1, <2>1 DEF ObservedReserved, AttemptsRun, Typed, TypeOK
        <2>3. LevelsReached'
            BY <1>0, <1>1, <2>1 DEF LevelsReached, Levels, Frozen
        <2>4. QED
            BY <2>2, <2>3
    <1>5. CASE Reserve(s)
        <2>1. /\ obs' = obs /\ status' = status /\ proc' = proc
              /\ task[s] = "planned" /\ task'[s] \in {"queued", "absent"}
              /\ task'[s] = "queued" => level'[s] = level[s]
            BY <1>0, <1>5 DEF Reserve, evidence, campaign, Typed, TypeOK
        <2>2. ObservedReserved' /\ AttemptsRun'
            BY <1>0, <1>1, <2>1 DEF ObservedReserved, AttemptsRun, Typed, TypeOK
        <2>3. LevelsReached'
            BY <1>0, <1>1, <2>1 DEF LevelsReached
        <2>4. QED
            BY <2>2, <2>3
    <1>6. QED
        BY <1>1, <1>3, <1>4, <1>5 DEF Prepares

\* What is recorded stays as it was shown.
LEMMA RecordedKept ==
    ASSUME IInv, NEW s \in Sessions, Step(s), NEW u \in obs
    PROVE  level'[u] = level[u] /\ shows'[u] = shows[u] /\ u \in obs'
    <1>0. Typed /\ AttemptsRun /\ ObservedReserved /\ u \in Sessions
        BY DEF IInv, Typed, TypeOK
    <1>1. u \in obs'
        BY <1>0, StepEffect DEF Records
    <1>2. CASE u # s
        BY <1>0, <1>1, <1>2, StepEffect
    <1>3. CASE u = s /\ Prepares(s)
        BY <1>0, <1>3 DEF ObservedReserved, Prepares, Plan, Reserve
    <1>4. CASE Works(s)
        BY <1>1, <1>4 DEF Works, setup
    <1>5. QED
        BY <1>0, <1>2, <1>3, <1>4, StepEffect

\* A judgement stays that of the recorded observations it was made from.
LEMMA JudgedNext ==
    ASSUME IInv, NEW s \in Sessions, Step(s)
    PROVE  JudgedRight'
    <1>0. Typed /\ AttemptsRun /\ JudgedRight /\ proc \in [Sessions -> Attempts]
        BY DEF IInv, Typed
    <1> DEFINE J == {"aim", "look", "commit", "apply"}
    <1> SUFFICES ASSUME NEW u \in Sessions, NEW S \in SUBSET Sessions,
                        proc'[u].pc \in J, proc'[u].set = S
                 PROVE  S \subseteq obs' /\ proc'[u].verdict = Verdict(S)'
        BY DEF JudgedRight
    <1>1. S \subseteq obs => S \subseteq obs' /\ Verdict(S)' = Verdict(S)
        BY RecordedKept, VerdictKept
    <1>2. CASE proc[u].pc \in J /\ proc'[u].set = proc[u].set /\ proc'[u].verdict = proc[u].verdict
        <2>1. S \subseteq obs /\ proc[u].verdict = Verdict(S)
            BY <1>0, <1>2 DEF JudgedRight
        <2>2. QED
            BY <1>1, <1>2, <2>1
    <1>3. CASE u # s
        BY <1>0, <1>2, <1>3, StepEffect
    <1>4. CASE u = s /\ Judge(s)
        <2>1. proc'[s].set = Cohort(level[s]) /\ proc'[s].verdict = Verdict(Cohort(level[s]))
            BY <1>0, <1>4, SMT DEF Judge, Attempts
        <2>2. S \subseteq obs /\ proc'[u].verdict = Verdict(S)
            BY <1>4, <2>1 DEF Cohort
        <2>3. QED
            BY <1>1, <2>2
    <1>5. CASE u = s /\ (Aim(s) \/ Look(s) \/ Commit(s))
        <2>1. proc[s].pc \in J
            BY <1>5 DEF Aim, Look, Commit
        <2>2. CASE Aim(s)
            <3>1. proc'[s].set = proc[s].set /\ proc'[s].verdict = proc[s].verdict
                BY <1>0, <2>2, SMT DEF Aim, Attempts
            <3>2. QED
                BY <1>2, <1>5, <2>1, <3>1
        <2>3. CASE \E first \in {"pair", "aim"} : NextSubject(s, first)
            BY <1>0, <1>2, <1>5, <2>1, <2>3, NextSubjectEffect
        <2>4. CASE Look(s) /\ judged[Subject(s)][s] = -1
            <3>1. proc'[s].set = proc[s].set /\ proc'[s].verdict = proc[s].verdict
                BY <1>0, <2>4, SMT DEF Look, Attempts
            <3>2. QED
                BY <1>2, <1>5, <2>1, <3>1
        <2>5. Commit(s) => \/ \E t \in TaskStates : End(s, t)
                           \/ \E first \in {"pair", "aim"} : NextSubject(s, first)
            BY DEF Commit, Fail, TaskStates
        <2>6. \A t \in TaskStates : End(s, t) => proc'[s].pc = "idle"
            BY <1>0, EndEffect DEF Idle, At
        <2>7. QED
            BY <1>5, <2>2, <2>3, <2>4, <2>5, <2>6 DEF Look
    <1>6. CASE u = s /\ (Plan(s) \/ Reserve(s))
        BY <1>2, <1>6 DEF Plan, Reserve
    <1>7. CASE u = s /\ (Open(s) \/ Bind(s) \/ Pair(s) \/ Observe(s) \/ Apply(s) \/ Crash(s))
        <2>1. \/ \E pc \in {"bind", "pair", "judge"} : Goto(s, pc)
              \/ \E t \in TaskStates : End(s, t)
              \/ NextSubject(s, "pair")
            BY <1>7 DEF Open, Bind, Pair, Observe, Apply, Crash, Fail, TaskStates
        <2>2. \A pc \in {"bind", "pair", "judge"} : pc \in Counters /\ pc \notin J
            BY DEF Counters
        <2>3. \A t \in TaskStates : End(s, t) => proc'[s].pc = "idle"
            BY <1>0, EndEffect DEF Idle, At
        <2>4. NextSubject(s, "pair") => proc'[s].pc \notin J
            BY <1>0, NextSubjectEffect
        <2>5. \A pc \in Counters : Goto(s, pc) => proc'[s].pc = pc
            BY <1>0, GotoEffect
        <2>6. QED
            BY <1>7, <2>1, <2>2, <2>3, <2>4, <2>5
    <1>8. QED
        BY <1>3, <1>4, <1>5, <1>6, <1>7 DEF Step

\* No step aims ahead of the campaign.
LEMMA TargetsNext ==
    ASSUME IInv, NEW s \in Sessions, Step(s)
    PROVE  TargetsReached'
    <1>0. /\ Typed /\ AttemptsRun /\ TargetsReached /\ LevelsReached /\ HeadsBehind
          /\ proc \in [Sessions -> Attempts] /\ status \in Frozen .. Completed
        BY DEF IInv, Typed, TypeOK
    <1>1. status' # Frozen => status # Frozen /\ status' \in {status, status + 1}
        BY CampaignEffect DEF campaign, Moves, After, Levels, Frozen
    <1> SUFFICES ASSUME NEW u \in Sessions, proc'[u].pc \in {"look", "commit"},
                        proc'[u].sub # 3, status' # Frozen
                 PROVE  proc'[u].target <= status
        <2>1. ASSUME NEW u \in Sessions, proc'[u].target <= status, status' # Frozen
              PROVE  proc'[u].target <= status'
            <3>1. proc'[u].target \in Int
                BY <1>0, StepEffect DEF Attempts
            <3>2. QED
                BY <1>0, <1>1, <2>1, <3>1 DEF Frozen, Completed
        <2>2. QED
            BY <2>1 DEF TargetsReached
    <1>2. CASE /\ proc[u].pc \in {"look", "commit"} /\ proc'[u].sub = proc[u].sub
               /\ proc'[u].target = proc[u].target
        BY <1>0, <1>1, <1>2 DEF TargetsReached
    <1>3. CASE u # s
        BY <1>0, <1>2, <1>3, StepEffect
    <1>4. CASE u = s /\ Aim(s)
        <2>1. /\ proc'[s].target = Target(Subject(s), level[s], proc[s].verdict, head[Subject(s)])
              /\ proc'[s].sub = proc[s].sub
            BY <1>0, <1>4, SMT DEF Aim, Attempts
        <2>2. Subject(s) \in {"contract", "topology"}
            BY <1>0, <1>4, <2>1, SubjectsAre DEF Subject, Attempts
        <2>3. head[Subject(s)] <= status /\ level[s] <= status /\ 0 <= status
            <3>1. task[s] # "absent"
                BY <1>0, <1>4 DEF AttemptsRun, Aim
            <3>2. QED
                BY <1>0, <1>1, <2>2, <3>1 DEF HeadsBehind, LevelsReached, Frozen, Completed
        <2>4. QED
            BY <1>4, <2>1, <2>2, <2>3 DEF Target
    <1>5. CASE u = s /\ Look(s)
        <2>1. CASE judged[Subject(s)][s] # -1
            <3>1. proc'[s].pc \in {"aim", "apply"}
                BY <1>0, <1>5, <2>1, NextSubjectEffect DEF Look
            <3>2. QED
                BY <1>5, <3>1
        <2>2. CASE judged[Subject(s)][s] = -1
            <3>1. proc'[s].target = proc[s].target /\ proc'[s].sub = proc[s].sub
                BY <1>0, <1>5, <2>2, SMT DEF Look, Attempts
            <3>2. QED
                BY <1>2, <1>5, <3>1 DEF Look
        <2>3. QED
            BY <2>1, <2>2
    <1>6. CASE u = s /\ (Plan(s) \/ Reserve(s))
        BY <1>2, <1>6 DEF Plan, Reserve
    <1>7. CASE u = s /\ ~Aim(s) /\ ~Look(s) /\ ~Plan(s) /\ ~Reserve(s)
        <2>1. \/ \E pc \in {"bind", "pair", "judge"} : Goto(s, pc)
              \/ \E t \in TaskStates : End(s, t)
              \/ NextSubject(s, "pair") \/ NextSubject(s, "aim")
              \/ Judge(s)
            <3>1. Open(s) \/ Bind(s) \/ Observe(s) =>
                     \/ \E pc \in {"bind", "pair", "judge"} : Goto(s, pc)
                     \/ \E t \in TaskStates : End(s, t)
                BY DEF Open, Bind, Observe, Fail, TaskStates
            <3>2. Commit(s) \/ Apply(s) \/ Crash(s) =>
                     (\E t \in TaskStates : End(s, t)) \/ NextSubject(s, "aim")
                BY DEF Commit, Apply, Crash, Fail, TaskStates
            <3>3. Pair(s) => NextSubject(s, "pair")
                BY DEF Pair
            <3>4. QED
                BY <1>7, <3>1, <3>2, <3>3 DEF Step
        <2>2. \A pc \in {"bind", "pair", "judge"} : pc \in Counters /\ pc \notin {"look", "commit"}
            BY DEF Counters
        <2>3. \A t \in TaskStates : End(s, t) => proc'[s].pc = "idle"
            BY <1>0, EndEffect DEF Idle, At
        <2>4. \A first \in {"pair", "aim"} :
                 NextSubject(s, first) => proc'[s].pc \notin {"look", "commit"}
            BY <1>0, NextSubjectEffect
        <2>5. \A pc \in Counters : Goto(s, pc) => proc'[s].pc = pc
            BY <1>0, GotoEffect
        <2>6. Judge(s) => proc'[s].pc = "aim"
            BY <1>0, SMT DEF Judge
        <2>7. QED
            BY <1>7, <2>1, <2>2, <2>3, <2>4, <2>5, <2>6
    <1>8. QED
        BY <1>3, <1>4, <1>5, <1>6, <1>7

\* No step moves a policy head ahead of the campaign.
LEMMA HeadsNext ==
    ASSUME IInv, NEW s \in Sessions, Step(s)
    PROVE  HeadsBehind'
    <1>0. /\ Typed /\ TargetsReached /\ HeadsBehind
          /\ proc \in [Sessions -> Attempts] /\ status \in Frozen .. Completed
          /\ head \in [Policies -> Int] /\ {"contract", "topology"} \subseteq Policies
        BY DEF IInv, Typed, TypeOK, Policies
    <1>1. CASE head' = head
        <2>1. status' # Frozen => status # Frozen /\ status' \in {status, status + 1}
            BY CampaignEffect DEF campaign, Moves, After, Levels, Frozen
        <2>2. QED
            BY <1>0, <1>1, <2>1 DEF HeadsBehind, Frozen, Completed
    <1>2. CASE Commit(s) /\ head' # head
        <2> DEFINE x == Subject(s)
                   from == proc[s].from
                   fresh == Cardinality(proc[s].thru \ proc[s].after)
                   to == NextState(x, s, from, proc[s].target, fresh)
        <2>1. /\ head' = [head EXCEPT ![x] = to] /\ status' = status
              /\ head[x] = from /\ proc[s].pc = "commit"
            BY <1>2 DEF Commit, Unchanged, policy, campaign
        <2>2. x \in Policies /\ (x # "bundle" => proc[s].sub # 3)
            BY <1>0, SubjectsAre DEF Subject, Attempts
        <2>3. x # "bundle" => to \in {from, 0, proc[s].target}
            BY DEF NextState, Proposed
        <2> HIDE DEF x, from, fresh, to
        <2>4. x # "bundle" /\ status # Frozen => to <= status
            BY <1>0, <2>1, <2>2, <2>3 DEF TargetsReached, HeadsBehind, Policies, Frozen, Completed
        <2>5. QED
            BY <1>0, <2>1, <2>2, <2>4 DEF HeadsBehind
    <1>3. ~Commit(s) => head' = head
        BY DEF Step, Plan, Reserve, Open, Bind, Pair, Observe, Judge, Aim, Look, Apply, Crash, policy
    <1>4. QED
        BY <1>1, <1>2, <1>3

\* The campaign leaves a stage only by recording why.
LEMMA ClosedNext ==
    ASSUME IInv, NEW s \in Sessions, Step(s)
    PROVE  ClosedStagesStand'
    <1> DEFINE Row(l) == [level |-> l, set |-> Cohort(l), verdict |-> "advance"]
    <1> SUFFICES ASSUME NEW l \in Levels, status' > l
                 PROVE  [level |-> l, set |-> Cohort(l)', verdict |-> "advance"] \in rows'
        BY DEF ClosedStagesStand
    <1>0. Typed /\ AttemptsRun /\ ClosedStagesStand /\ \A u \in obs : level'[u] = level[u]
        BY RecordedKept DEF IInv
    <1>1. CASE Moves(s)
        <2>1. PICK m \in Levels, v \in Verdicts :
                 /\ status = m /\ v = Verdict(Cohort(m))
                 /\ rows' = rows \cup {[level |-> m, set |-> Cohort(m), verdict |-> v]}
                 /\ status' = After(m, v) /\ UNCHANGED <<setup, evidence>>
            BY <1>1 DEF Moves
        <2>2. Cohort(l)' = Cohort(l)
            BY <2>1 DEF Cohort, setup, evidence
        <2>3. status > l \/ (l = m /\ v = "advance")
            BY <2>1 DEF After, Levels, Frozen
        <2>4. QED
            BY <1>0, <2>1, <2>2, <2>3 DEF ClosedStagesStand
    <1>2. CASE UNCHANGED campaign
        <2>1. rows' = rows /\ status' = status
            BY <1>2 DEF campaign
        <2>2. CASE obs' = obs
            <3>1. Cohort(l)' = Cohort(l)
                BY <1>0, <2>2, CohortKept
            <3>2. QED
                BY <1>0, <2>1, <3>1 DEF ClosedStagesStand
        <2>3. CASE Records(s)
            <3>1. level' = level /\ obs' = obs \cup {s} /\ level[s] # l
                BY <2>1, <2>3 DEF Records, setup, Levels
            <3>2. Cohort(l)' = Cohort(l)
                BY <3>1 DEF Cohort
            <3>3. QED
                BY <1>0, <2>1, <3>2 DEF ClosedStagesStand
        <2>4. QED
            BY <1>0, <2>2, <2>3, StepEffect
    <1>3. QED
        BY <1>1, <1>2, CampaignEffect

\* The invariant survives every step of a session.
LEMMA StepIInv ==
    ASSUME IInv, NEW s \in Sessions, Step(s)
    PROVE  IInv'
    BY TypedNext, SessionsNext, JudgedNext, TargetsNext, HeadsNext, ClosedNext DEF IInv

\* Resuming the staged campaign changes its status and the last verdict only.
LEMMA ResumeIInv ==
    ASSUME IInv, Resume
    PROVE  IInv'
    <1>0. /\ status = 0 /\ status' = 1 /\ last' = "advance"
          /\ UNCHANGED <<rows, level, shows, task, proc, obs, pairs, used, judged, head, activated, faults>>
        BY DEF Resume, Staged, setup, evidence, policy
    <1>1. status' \in Frozen .. Completed /\ last' \in Verdicts \cup {"none"}
        BY <1>0 DEF Frozen, Completed, Verdicts
    <1>2. Typed'
        BY <1>0, <1>1 DEF IInv, Typed, TypeOK, States
    <1>3. ObservedReserved' /\ AttemptsRun'
        BY <1>0 DEF IInv, ObservedReserved, AttemptsRun
    <1>4. \A S \in SUBSET Sessions : Verdict(S)' = Verdict(S)
        BY <1>0, VerdictKept
    <1>5. JudgedRight'
        BY <1>0, <1>4 DEF IInv, JudgedRight
    <1>6. LevelsReached'
        BY <1>0 DEF IInv, LevelsReached, Levels, Frozen
    <1>7. TargetsReached'
        <2>1. \A s \in Sessions : proc[s].target \in Int
            BY DEF IInv, Typed, Attempts
        <2>2. QED
            BY <1>0, <2>1 DEF IInv, TargetsReached, Frozen
    <1>8. HeadsBehind'
        <2>1. head["contract"] \in Int /\ head["topology"] \in Int
            BY DEF IInv, Typed, Policies
        <2>2. QED
            BY <1>0, <2>1 DEF IInv, HeadsBehind, Frozen
    <1>9. ClosedStagesStand'
        BY <1>0 DEF ClosedStagesStand, Levels
    <1>10. QED
        BY <1>2, <1>3, <1>5, <1>6, <1>7, <1>8, <1>9 DEF IInv

\* The invariant survives every step.
LEMMA IInvKept == IInv /\ [Next]_vars => IInv'
    <1> SUFFICES ASSUME IInv, [Next]_vars PROVE IInv'
        OBVIOUS
    <1>1. CASE UNCHANGED vars
        <2>1. /\ UNCHANGED <<status, last, rows, level, shows, task, proc, obs>>
              /\ UNCHANGED <<pairs, used, judged, head, activated, faults>>
            BY <1>1 DEF vars, campaign, setup, evidence, policy
        <2>2. \A S \in SUBSET Sessions : Verdict(S)' = Verdict(S)
            BY <2>1, VerdictKept
        <2>3. Typed'
            BY <2>1 DEF IInv, Typed, TypeOK, States
        <2>4. JudgedRight'
            BY <2>1, <2>2 DEF IInv, JudgedRight
        <2>5. ClosedStagesStand'
            BY <2>1 DEF IInv, ClosedStagesStand, Cohort
        <2>6. QED
            BY <2>1, <2>3, <2>4, <2>5 DEF IInv, ObservedReserved, LevelsReached, AttemptsRun,
                TargetsReached, HeadsBehind
    <1>2. QED
        BY <1>1, StepIInv, ResumeIInv DEF Next

\* The invariant holds in every reachable state.
LEMMA Invariance == Spec => []IInv
    BY InitIInv, IInvKept, PTL DEF Spec

(***************************************************************************)
(* The pairs of a subject: recorded, read by an attempt, consumed.         *)
(***************************************************************************)
\* Only recorded pairs are consumed.
UsedRecorded == \A x \in Policies : used[x] \subseteq pairs[x]

\* An attempt about to commit has not been evaluated at its subject, and the
\* pairs it has read include those that were consumed when it read them.
ReadInOrder ==
    \A s \in Sessions : proc[s].pc = "commit" =>
        /\ judged[Subject(s)][s] = -1
        /\ proc[s].after \subseteq proc[s].thru /\ proc[s].thru \subseteq pairs[Subject(s)]

PInv == IInv /\ UsedRecorded /\ ReadInOrder /\ PairsCountedOnce

\* What a subject's evaluations have counted, after one more of them.
LEMMA CountedOneMore ==
    ASSUME NEW f \in [Sessions -> Int], NEW s \in Sessions, f[s] = 0, NEW n \in Nat, NEW g,
           g = [f EXCEPT ![s] = n]
    PROVE  SumFunctionOnSet(g, Sessions) = SumFunctionOnSet(f, Sessions) + n
    <1> DEFINE R == Sessions \ {s}
    <1>1. IsFiniteSet(Sessions) /\ IsFiniteSet(R)
        BY CanaryAssumption, FS_RemoveElement
    <1>2. /\ \A u \in Sessions : f[u] \in Int /\ g[u] \in Int
          /\ \A u \in R : f[u] \in Int /\ f[u] = g[u]
          /\ g[s] = n
        OBVIOUS
    <1>3. SumFunctionOnSet(f, R) = SumFunctionOnSet(g, R)
        BY <1>1, <1>2, SumSame
    <1>4. SumFunctionOnSet(f, R) \in Int
        BY <1>1, <1>2, SumInt
    <1>5. SumFunctionOnSet(f, Sessions) = f[s] + SumFunctionOnSet(f, R)
        BY <1>1, <1>2, SumWithout
    <1>6. SumFunctionOnSet(g, Sessions) = g[s] + SumFunctionOnSet(g, R)
        BY <1>1, <1>2, SumWithout
    <1> HIDE DEF R
    <1>7. QED
        BY <1>2, <1>3, <1>4, <1>5, <1>6

\* The invariant holds initially.
LEMMA InitPairs == Init => PInv
    <1> SUFFICES ASSUME Init PROVE PInv
        OBVIOUS
    <1>1. IInv
        BY InitIInv
    <1>2. UsedRecorded /\ ReadInOrder
        BY DEF Init, UsedRecorded, ReadInOrder, Idle, At
    <1>3. ASSUME NEW x \in Policies
          PROVE  SumFunctionOnSet(Counted(x), Sessions) = Cardinality(used[x])
        <2>1. \A s \in Sessions : Counted(x)[s] = IF s \in {} THEN 1 ELSE 0
            BY DEF Init, Counted
        <2>2. SumFunctionOnSet(Counted(x), Sessions) = Cardinality({})
            BY <2>1, SumCounts, CanaryAssumption
        <2>3. QED
            BY <2>2 DEF Init
    <1>4. QED
        BY <1>1, <1>2, <1>3 DEF PInv, PairsCountedOnce

\* What a step of a session does to the pairs, the counts and the attempts that
\* are about to commit, other than by committing.
LEMMA PairsKept ==
    ASSUME PInv, NEW s \in Sessions, Step(s), ~Commit(s)
    PROVE  UNCHANGED <<used, judged>> /\ \A x \in Policies : pairs[x] \subseteq pairs'[x]
    <1>1. Subject(s) \in Policies
        BY SubjectsAre DEF PInv, IInv, Typed, Attempts, Subject
    <1>2. CASE Pair(s)
        BY <1>1, <1>2 DEF Pair, policy, PInv, IInv, Typed, TypeOK
    <1>3. CASE ~Pair(s)
        BY <1>3 DEF Step, Plan, Reserve, Open, Bind, Observe, Judge, Aim, Look, Apply, Crash,
            evidence, policy
    <1>4. QED
        BY <1>2, <1>3

\* Only Look brings an attempt to its commit.
LEMMA ReadyOnlyByLook ==
    ASSUME Typed, NEW s \in Sessions, Step(s), proc'[s].pc = "commit"
    PROVE  \/ proc'[s] = proc[s] /\ ~Commit(s)
           \/ Look(s) /\ judged[Subject(s)][s] = -1
    <1>0. proc \in [Sessions -> Attempts]
        BY DEF Typed
    <1>1. \A t \in TaskStates : ~End(s, t)
        BY EndEffect DEF Idle, At
    <1>2. \A first \in {"pair", "aim"} : ~NextSubject(s, first)
        BY NextSubjectEffect
    <1>3. \A pc \in {"bind", "pair", "judge"} : ~Goto(s, pc)
        <2>1. ASSUME NEW pc \in {"bind", "pair", "judge"}, Goto(s, pc) PROVE FALSE
            <3>1. pc \in Counters /\ pc # "commit"
                BY DEF Counters
            <3>2. QED
                BY <2>1, <3>1, GotoEffect
        <2>2. QED
            BY <2>1
    <1>4. ~Judge(s) /\ ~Aim(s)
        BY <1>0, SMT DEF Judge, Aim, Attempts
    <1>5. ~Commit(s) /\ ~Apply(s) /\ ~Crash(s) /\ ~Open(s) /\ ~Bind(s) /\ ~Pair(s) /\ ~Observe(s)
        BY <1>1, <1>2, <1>3 DEF Commit, Apply, Crash, Open, Bind, Pair, Observe, Fail, TaskStates
    <1>6. Plan(s) \/ Reserve(s) => proc'[s] = proc[s]
        BY DEF Plan, Reserve
    <1>7. Look(s) => judged[Subject(s)][s] = -1
        BY <1>2 DEF Look
    <1>8. QED
        BY <1>4, <1>5, <1>6, <1>7 DEF Step

\* A commit consumes exactly the pairs it counts.
LEMMA CommitCounts ==
    ASSUME PInv, NEW s \in Sessions, Commit(s), Typed'
    PROVE  /\ UsedRecorded' /\ PairsCountedOnce' /\ pairs' = pairs
           /\ \A y \in Policies : \A u \in Sessions \ {s} : judged'[y][u] = judged[y][u]
    <1>0. /\ Subject(s) \in Policies /\ proc[s].pc = "commit" /\ pairs' = pairs
          /\ IsFiniteSet(Sessions)
        BY SubjectsAre, CanaryAssumption
            DEF PInv, IInv, Typed, Attempts, Subject, Commit, evidence
    <1>1. CASE UNCHANGED policy
        <2>1. used' = used /\ judged' = judged
            BY <1>1 DEF policy
        <2>2. QED
            BY <1>0, <2>1 DEF PInv, UsedRecorded, PairsCountedOnce, Counted
    <1>2. CASE ~UNCHANGED policy
        <2>0. PICK x \in Policies : x = Subject(s)
            BY <1>0
        <2> DEFINE fresh == Cardinality(proc[s].thru \ proc[s].after)
        <2>1. /\ used[x] = proc[s].after
              /\ used' = [used EXCEPT ![x] = proc[s].thru]
              /\ judged' = [judged EXCEPT ![x][s] = fresh]
            BY <1>2, <2>0 DEF Commit, Unchanged
        <2>2. /\ judged[x][s] = -1 /\ proc[s].thru \subseteq pairs[x]
              /\ proc[s].after \subseteq proc[s].thru /\ proc[s].thru \subseteq Sessions
            BY <1>0, <2>0 DEF PInv, ReadInOrder, IInv, Typed, Attempts
        <2>3. IsFiniteSet(proc[s].thru) /\ fresh \in Nat
              /\ Cardinality(used[x]) \in Nat /\ Cardinality(proc[s].thru) = Cardinality(used[x]) + fresh
            <3> DEFINE T == proc[s].thru
                       A == proc[s].after
            <3>1. IsFiniteSet(T) /\ IsFiniteSet(A) /\ IsFiniteSet(T \ A)
                BY <1>0, <2>2, FS_Subset
            <3>2. (T \ A) \cup A = T /\ (T \ A) \cap A = {}
                BY <2>2
            <3> HIDE DEF T, A
            <3>3. Cardinality(T) = Cardinality(T \ A) + Cardinality(A) - Cardinality({})
                BY <3>1, <3>2, FS_Union
            <3>4. Cardinality(T \ A) \in Nat /\ Cardinality(A) \in Nat /\ Cardinality({}) = 0
                BY <3>1, FS_CardinalityType, FS_EmptySet
            <3>5. QED
                BY <2>1, <3>1, <3>3, <3>4 DEF T, A
        <2> HIDE DEF fresh
        <2>4. /\ judged \in [Policies -> [Sessions -> Int]]
              /\ used \in [Policies -> SUBSET Sessions]
            BY DEF PInv, IInv, Typed, TypeOK
        <2>5. UsedRecorded'
            BY <1>0, <2>1, <2>2, <2>4 DEF PInv, UsedRecorded
        <2>6. \A y \in Policies \ {x} : judged'[y] = judged[y] /\ used'[y] = used[y]
            BY <2>1, <2>4
        <2>7. judged'[x] = [judged[x] EXCEPT ![s] = fresh] /\ used'[x] = proc[s].thru
            BY <2>1, <2>4
        <2>8. \A y \in Policies \ {x} :
                 SumFunctionOnSet(Counted(y)', Sessions) = Cardinality(used'[y])
            BY <2>6 DEF Counted, PInv, PairsCountedOnce
        <2>9. Counted(x) \in [Sessions -> Int] /\ Counted(x)[s] = 0
            BY <2>2, <2>4 DEF Counted
        <2>10. Counted(x)' = [Counted(x) EXCEPT ![s] = fresh]
            <3>1. Counted(x)' = [u \in Sessions |-> IF judged'[x][u] = -1 THEN 0 ELSE judged'[x][u]]
                BY DEF Counted
            <3>2. \A u \in Sessions :
                     (IF judged'[x][u] = -1 THEN 0 ELSE judged'[x][u])
                       = IF u = s THEN fresh ELSE Counted(x)[u]
                BY <2>3, <2>4, <2>7 DEF Counted
            <3>3. QED
                BY <2>9, <3>1, <3>2
        <2>11. SumFunctionOnSet(Counted(x)', Sessions) = Cardinality(used'[x])
            <3>1. PICK f \in [Sessions -> Int] : f = Counted(x)
                BY <2>9
            <3>0. PICK g : g = Counted(x)'
                OBVIOUS
            <3>2. f[s] = 0 /\ g = [f EXCEPT ![s] = fresh]
                BY <2>9, <2>10, <3>0, <3>1
            <3>3. SumFunctionOnSet(g, Sessions) = SumFunctionOnSet(f, Sessions) + fresh
                BY <2>3, <3>2, CountedOneMore
            <3>4. SumFunctionOnSet(f, Sessions) = Cardinality(used[x])
                BY <3>1 DEF PInv, PairsCountedOnce
            <3>5. QED
                BY <2>3, <2>7, <3>0, <3>1, <3>3, <3>4
        <2>12. PairsCountedOnce'
            <3>1. ASSUME NEW y \in Policies
                  PROVE  SumFunctionOnSet(Counted(y)', Sessions) = Cardinality(used'[y])
                <4>1. CASE y = x
                    BY <2>11, <4>1 DEF Counted
                <4>2. CASE y # x
                    BY <2>8, <4>2
                <4>3. QED
                    BY <4>1, <4>2
            <3>2. QED
                BY <3>1, Zenon DEF PairsCountedOnce
        <2>13. \A y \in Policies : \A u \in Sessions \ {s} : judged'[y][u] = judged[y][u]
            <3>1. judged[x] \in [Sessions -> Int]
                BY <2>4
            <3>2. \A u \in Sessions \ {s} : judged'[x][u] = judged[x][u]
                BY <2>7, <3>1
            <3>3. QED
                BY <2>6, <3>2
        <2>14. QED
            BY <1>0, <2>5, <2>12, <2>13
    <1>3. QED
        BY <1>1, <1>2

\* The pairs stay in order through every step of a session.
LEMMA StepPairs ==
    ASSUME PInv, NEW s \in Sessions, Step(s)
    PROVE  PInv'
    <1>0. IInv' /\ Typed /\ Typed' /\ proc \in [Sessions -> Attempts]
        BY StepIInv DEF PInv, IInv, Typed
    <1>1. \A u \in Sessions \ {s} : proc'[u] = proc[u]
        BY StepEffect DEF PInv, IInv
    <1>2. CASE Commit(s)
        <2>1. /\ UsedRecorded' /\ PairsCountedOnce' /\ pairs' = pairs
              /\ \A y \in Policies : \A u \in Sessions \ {s} : judged'[y][u] = judged[y][u]
            BY <1>0, <1>2, CommitCounts
        <2>2. proc'[s].pc # "commit"
            BY <1>0, <1>2, ReadyOnlyByLook DEF Look, Commit
        <2>3. ReadInOrder'
            <3> SUFFICES ASSUME NEW u \in Sessions, proc'[u].pc = "commit"
                         PROVE  /\ judged'[Subject(u)'][u] = -1
                                /\ proc'[u].after \subseteq proc'[u].thru
                                /\ proc'[u].thru \subseteq pairs'[Subject(u)']
                BY DEF ReadInOrder
            <3>1. u # s /\ proc'[u] = proc[u] /\ Subject(u)' = Subject(u) /\ Subject(u) \in Policies
                BY <1>0, <1>1, <2>2, SubjectsAre DEF Subject, Attempts
            <3>2. QED
                BY <2>1, <3>1 DEF PInv, ReadInOrder
        <2>4. QED
            BY <1>0, <2>1, <2>3 DEF PInv
    <1>3. CASE ~Commit(s)
        <2>1. /\ used' = used /\ judged' = judged /\ \A x \in Policies : pairs[x] \subseteq pairs'[x]
            BY <1>3, PairsKept
        <2>2. UsedRecorded' /\ PairsCountedOnce'
            BY <2>1 DEF PInv, UsedRecorded, PairsCountedOnce, Counted
        <2>3. ReadInOrder'
            <3> SUFFICES ASSUME NEW u \in Sessions, proc'[u].pc = "commit"
                         PROVE  /\ judged'[Subject(u)'][u] = -1
                                /\ proc'[u].after \subseteq proc'[u].thru
                                /\ proc'[u].thru \subseteq pairs'[Subject(u)']
                BY DEF ReadInOrder
            <3>1. CASE proc'[u] = proc[u]
                <4>1. Subject(u)' = Subject(u) /\ Subject(u) \in Policies
                    BY <1>0, <3>1, SubjectsAre DEF Subject, Attempts
                <4>2. QED
                    BY <2>1, <3>1, <4>1 DEF PInv, ReadInOrder
            <3>2. CASE u = s /\ Look(s) /\ judged[Subject(s)][s] = -1
                <4>1. /\ proc'[s].sub = proc[s].sub /\ proc'[s].after = used[Subject(s)]
                      /\ proc'[s].thru = pairs[Subject(s)] /\ pairs' = pairs
                    BY <1>0, <3>2, SMT DEF Look, Attempts, evidence
                <4>2. Subject(s)' = Subject(s) /\ Subject(s) \in Policies
                    BY <1>0, <4>1, SubjectsAre DEF Subject, Attempts
                <4>3. QED
                    BY <2>1, <3>2, <4>1, <4>2 DEF PInv, UsedRecorded
            <3>3. QED
                BY <1>0, <1>1, <3>1, <3>2, ReadyOnlyByLook
        <2>4. QED
            BY <1>0, <2>2, <2>3 DEF PInv
    <1>4. QED
        BY <1>2, <1>3

\* The pairs are in order in every reachable state.
LEMMA PairsInvariance == Spec => []PInv
    <1>1. PInv /\ [Next]_vars => PInv'
        <2> SUFFICES ASSUME PInv, [Next]_vars PROVE PInv'
            OBVIOUS
        <2>1. CASE UNCHANGED <<pairs, policy, proc>> /\ IInv'
            <3>1. /\ pairs' = pairs /\ used' = used /\ judged' = judged /\ proc' = proc
                BY <2>1 DEF policy
            <3>2. QED
                BY <2>1, <3>1 DEF PInv, UsedRecorded, ReadInOrder, PairsCountedOnce, Counted, Subject
        <2>2. CASE UNCHANGED vars
            <3>1. [Next]_vars /\ IInv
                BY DEF PInv
            <3>2. IInv'
                BY <3>1, IInvKept
            <3>3. QED
                BY <2>1, <2>2, <3>2 DEF vars, evidence
        <2>3. CASE Resume
            <3>1. IInv'
                BY <2>3, ResumeIInv DEF PInv
            <3>2. QED
                BY <2>1, <2>3, <3>1 DEF Resume, evidence
        <2>4. QED
            BY <2>2, <2>3, StepPairs DEF Next
    <1>2. QED
        BY InitPairs, <1>1, PTL DEF Spec

(***************************************************************************)
(* The theorems.                                                           *)
(***************************************************************************)
\* Every level the campaign has passed is justified by exactly the
\* observations recorded for it (record_cohort_evaluation).
THEOREM StagesStand == Spec => []ClosedStagesStand
    <1>1. IInv => ClosedStagesStand
        BY DEF IInv
    <1>2. QED
        BY <1>1, Invariance, PTL

\* No contract or topology head is ever ahead of the campaign's level,
\* although the evaluations commit before the campaign moves.
THEOREM HeadsFollow == Spec => []HeadsBehindCampaign
    <1>1. IInv => HeadsBehindCampaign
        BY DEF IInv, Typed, HeadsBehind, HeadsBehindCampaign
    <1>2. QED
        BY <1>1, Invariance, PTL

\* However the evaluations of concurrent sessions interleave, each pair is
\* counted as fresh by exactly one of them (commit_memory_evaluation and its
\* siblings compare the cursor they read with the stored one).
THEOREM PairsOnce == Spec => []PairsCountedOnce
    <1>1. PInv => PairsCountedOnce
        BY DEF PInv
    <1>2. QED
        BY <1>1, PairsInvariance, PTL

\* The campaign moves by one level, for what its cohort shows at that moment.
THEOREM EveryStageEarned == Spec => StageEarned
    <1> DEFINE Earned ==
            \/ status = Staged /\ status' = 1
            \/ /\ status \in Levels
               /\ \/ status' = status + 1 /\ Verdict(Cohort(status)) = "advance"
                  \/ status' = Frozen /\ Verdict(Cohort(status)) = "rollback"
    <1>1. IInv /\ [Next]_vars => [Earned]_status
        <2> SUFFICES ASSUME IInv, [Next]_vars, status' # status PROVE Earned
            OBVIOUS
        <2>1. CASE Resume
            BY <2>1 DEF Resume
        <2>2. ASSUME NEW s \in Sessions, Step(s) PROVE Earned
            BY <2>2, CampaignEffect DEF campaign, Moves, After
        <2>3. QED
            BY <2>1, <2>2 DEF Next, vars, campaign
    <1>2. QED
        BY <1>1, Invariance, PTL DEF Spec, StageEarned
===============================================================================
