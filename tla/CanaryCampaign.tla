--------------------------- MODULE CanaryCampaign ---------------------------
(***************************************************************************)
(* A Canary campaign: a candidate contract, topology and bundle climb the  *)
(* validation levels beside the baseline.  The scheduler reserves sessions *)
(* at the campaign's level; when a session's run and its three Shadow runs *)
(* are sealed, an outcome attempt records the pairs and the observation,   *)
(* judges the whole cohort, evaluates the three policy subjects one by one *)
(* and at last moves the campaign.  Each of these is a transaction of its  *)
(* own, and the attempts of different sessions hold different leases.      *)
(*                                                                         *)
(* Within a session there is one attempt at a time (HolderAlone of         *)
(* OutcomeStages).  A contract's or topology's head is the number of the   *)
(* level it has passed, Top being Active; the bundle's is a memory state.  *)
(* The three horizons of a pair or an observation count as one.            *)
(***************************************************************************)
EXTENDS Integers, Sequences, FiniteSets, FiniteSetsExt

CONSTANTS Sessions,    \* session keys of the campaign's market days
          Top,         \* validation levels; four in the code
          Required,    \* fresh pairs, and sessions, the policy asks for
          MinSamples,  \* forecast scores a calibration needs; 30 in the code
          MaxFaults    \* bound on crashes

ASSUME CanaryAssumption ==
  /\ IsFiniteSet(Sessions)
  /\ Top \in Nat \ {0} /\ Required \in Nat \ {0} /\ MinSamples \in Nat /\ MaxFaults \in Nat

Staged == 0
Levels == 1 .. Top
Completed == Top + 1
Frozen == -1

Subjects == <<"contract", "topology", "bundle">>
Policies == {"contract", "topology", "bundle"}
Verdicts == {"advance", "hold", "defer", "rollback"}
\* The states of a memory subject.
Candidate == 0
Active == 1
Proven == 2
Contested == 3
Retired == 4
NoState == -1

\* What the sealed Shadows show of the candidate against its parent.
Findings == {"better", "equal", "worse", "unmeasured"}
\* What the parent's own Outcome is worth to learning.
Learning == {"eligible", "unmeasured", "degraded"}

VARIABLES
  status,   \* the campaign's: Staged, a level, Completed or Frozen
  last,     \* the verdict of the campaign's last transition
  rows,     \* the recorded cohort evaluations: what was judged, and how
  level,    \* the level each session was reserved at, 0 while it is not
  shows,    \* what each session's Shadows and parent show
  task,     \* the status of each session's outcome task
  proc,     \* the attempt at it
  obs,      \* the sessions whose observation is recorded
  pairs,    \* for each subject, the sessions whose pairs are recorded
  used,     \* for each subject, those pairs an evaluation has consumed
  judged,   \* fresh pairs each subject's evaluation counted, -1 without one
  head,     \* the policy heads
  activated,\* has the candidate contract ever been the active one?
  faults

campaign == <<status, last, rows>>
setup == <<level, shows>>
evidence == <<obs, pairs>>
policy == <<used, judged, head, activated>>
vars == <<campaign, setup, task, proc, evidence, policy, faults>>

\* An attempt at a subject, with the cohort it has judged.
At(pc, sub, set, verdict) ==
  [pc |-> pc, sub |-> sub, set |-> set, verdict |-> verdict,
   target |-> NoState, from |-> NoState, after |-> {}, thru |-> {}]
Idle == At("idle", 1, {}, "none")

States(x) == IF x = "bundle" THEN Candidate .. Retired ELSE 0 .. Top

TypeOK ==
  /\ status \in Frozen .. Completed /\ last \in Verdicts \cup {"none"}
  /\ rows \subseteq [level : Levels, set : SUBSET Sessions, verdict : Verdicts]
  /\ level \in [Sessions -> 0 .. Top]
  /\ shows \in [Sessions -> [finding : Findings, learning : Learning]]
  /\ task \in [Sessions -> {"absent", "planned", "queued", "running", "succeeded", "failed"}]
  /\ \A s \in Sessions :
       /\ proc[s].pc \in {"idle", "bind", "pair", "observe", "judge", "aim", "look", "commit", "apply"}
       /\ proc[s].sub \in 1 .. Len(Subjects) /\ proc[s].set \subseteq Sessions
       /\ proc[s].verdict \in Verdicts \cup {"none"}
       /\ {proc[s].target, proc[s].from} \subseteq States(Subjects[proc[s].sub]) \cup {NoState}
       /\ proc[s].after \cup proc[s].thru \subseteq Sessions
  /\ obs \subseteq Sessions
  /\ pairs \in [Policies -> SUBSET Sessions] /\ used \in [Policies -> SUBSET Sessions]
  /\ judged \in [Policies -> [Sessions -> Int]]
  /\ \A x \in Policies : head[x] \in States(x)
  /\ activated \in BOOLEAN /\ faults \in 0 .. MaxFaults

Init ==
  /\ status = Staged /\ last = "none" /\ rows = {}
  /\ level = [s \in Sessions |-> 0]
  /\ shows = [s \in Sessions |-> [finding |-> "equal", learning |-> "eligible"]]
  /\ task = [s \in Sessions |-> "absent"]
  /\ proc = [s \in Sessions |-> Idle]
  /\ obs = {}
  /\ pairs = [x \in Policies |-> {}] /\ used = [x \in Policies |-> {}]
  /\ judged = [x \in Policies |-> [s \in Sessions |-> -1]]
  /\ head = [x \in Policies |-> 0]
  /\ activated = FALSE /\ faults = 0

----------------------------------------------------------------------------
(* The verdict on a cohort, and what it asks of a policy head.             *)

\* The sessions of a level whose observation is recorded.
Cohort(l) == {s \in obs : level[s] = l}

Showing(S, what) == {s \in S : shows[s].finding = what}

\* Sessions that do better must make up for those that only do as well.
UtilityMet(S) == 2 * Cardinality(Showing(S, "better")) >= Cardinality(S)

\* Only measured degradation rolls back; what is missing defers.
Verdict(S) ==
  IF Showing(S, "worse") # {} THEN "rollback"
  ELSE IF \/ Cardinality(S) < Required \/ Cardinality(S) < MinSamples
          \/ Showing(S, "unmeasured") # {} THEN "defer"
  ELSE IF ~UtilityMet(S) THEN "hold" ELSE "advance"

\* The head an attempt aims at, from the head it reads first.
TargetNext(x, l, v, current) ==
  IF x = "bundle" THEN IF v = "advance" THEN NoState ELSE current
  ELSE IF v = "advance" THEN IF current < Top THEN current + 1 ELSE Top
  ELSE IF v = "rollback" THEN 0 ELSE current
Target(x, l, v, current) ==
  IF x = "bundle" THEN IF v = "advance" THEN NoState ELSE current
  ELSE IF v = "advance" THEN l
  ELSE IF v = "rollback" THEN 0 ELSE current

\* Where the head would go from its present state.
Proposed(x, from, target, degraded) ==
  IF x = "bundle"
  THEN IF degraded THEN IF from \in {Contested, Retired} THEN Retired ELSE Contested
       ELSE IF target # NoState THEN target
       ELSE IF from \in {Candidate, Active} THEN from + 1 ELSE from
  ELSE IF degraded THEN 0 ELSE target

Forward(x, from, to) ==
  IF x = "bundle"
  THEN <<from, to>> \in {<<Candidate, Active>>, <<Active, Proven>>, <<Contested, Active>>}
  ELSE to = from + 1

\* A forward step needs measured quality and enough fresh pairs.
NextState(x, s, from, target, fresh) ==
  LET to == Proposed(x, from, target, shows[s].learning = "degraded")
  IN IF Forward(x, from, to) /\ (shows[s].learning = "unmeasured" \/ fresh < Required)
     THEN from ELSE to

\* The edges the Store accepts.
Allowed(x, from, to) ==
  IF x = "bundle"
  THEN \/ from = Candidate /\ to \in {Active, Contested, Retired}
       \/ from = Active /\ to \in {Proven, Contested, Retired}
       \/ from = Proven /\ to \in {Contested, Retired}
       \/ from = Contested /\ to \in {Active, Retired}
  ELSE to = from + 1 \/ (from # 0 /\ to = 0)

----------------------------------------------------------------------------
(* The campaign and its sessions.                                          *)

\* The staged campaign is resumed.
Resume ==
  /\ status = Staged /\ status' = 1 /\ last' = "advance"
  /\ UNCHANGED <<rows, setup, task, proc, evidence, policy, faults>>

\* The scheduler's tick reads the campaign, finds the candidate contract not
\* activated, and prepares the four workflows.
Plan(s) ==
  /\ task[s] = "absent" /\ status \in Levels /\ ~activated
  /\ task' = [task EXCEPT ![s] = "planned"]
  /\ level' = [level EXCEPT ![s] = status]
  /\ UNCHANGED <<campaign, shows, proc, evidence, policy, faults>>

Reservable(s) == status = level[s]

\* The reservation is committed while the campaign stands at that level.
\* In time the run and its Shadows are sealed and show something.
Reserve(s) ==
  /\ task[s] = "planned"
  /\ IF Reservable(s)
     THEN /\ task' = [task EXCEPT ![s] = "queued"]
          /\ \E f \in Findings, l \in Learning : shows' = [shows EXCEPT ![s] = [finding |-> f, learning |-> l]]
          /\ UNCHANGED level
     ELSE /\ task' = [task EXCEPT ![s] = "absent"]
          /\ level' = [level EXCEPT ![s] = 0]
          /\ UNCHANGED shows
  /\ UNCHANGED <<campaign, proc, evidence, policy, faults>>

----------------------------------------------------------------------------
(* An attempt at a session's outcome task.                                 *)

Subject(s) == Subjects[proc[s].sub]

Goto(s, pc) == proc' = [proc EXCEPT ![s].pc = pc]
End(s, t) == proc' = [proc EXCEPT ![s] = Idle] /\ task' = [task EXCEPT ![s] = t]
Fail(s) == End(s, "failed")

NextSubject(s, first) ==
  LET more == proc[s].sub < Len(Subjects)
      then == IF first = "pair" THEN "observe" ELSE "apply"
  IN  proc' = [proc EXCEPT ![s] = At(IF more THEN first ELSE then,
                                     IF more THEN proc[s].sub + 1 ELSE 1,
                                     proc[s].set, proc[s].verdict)]

\* Once the campaign has left the session's level, or without a narrative,
\* there is nothing to compare.
Open(s) ==
  /\ task[s] = "queued"
  /\ \/ status = level[s] /\ Goto(s, "bind") /\ task' = [task EXCEPT ![s] = "running"]
     \/ End(s, "succeeded")
  /\ UNCHANGED <<campaign, setup, evidence, policy, faults>>

\* The active analyst contract must still be the baseline.
Bind(s) ==
  /\ proc[s].pc = "bind"
  /\ IF head["contract"] = Top THEN Fail(s) ELSE Goto(s, "pair") /\ UNCHANGED task
  /\ UNCHANGED <<campaign, setup, evidence, policy, faults>>

\* The subjects' pairs, each in a transaction of its own and recorded once.
Pair(s) ==
  /\ proc[s].pc = "pair"
  /\ pairs' = [pairs EXCEPT ![Subject(s)] = @ \cup {s}]
  /\ NextSubject(s, "pair")
  /\ UNCHANGED <<campaign, setup, task, obs, policy, faults>>

\* The observation is recorded only while the campaign stands at its level.
ObserveLate(s) ==
  /\ proc[s].pc = "observe"
  /\ obs' = obs \cup {s} /\ Goto(s, "judge") /\ UNCHANGED task
  /\ UNCHANGED <<campaign, setup, pairs, policy, faults>>
Observe(s) ==
  /\ proc[s].pc = "observe"
  /\ IF status = level[s]
     THEN obs' = obs \cup {s} /\ Goto(s, "judge") /\ UNCHANGED task
     ELSE Fail(s) /\ UNCHANGED obs
  /\ UNCHANGED <<campaign, setup, pairs, policy, faults>>

\* The cohort is read after that commit and judged as a whole.
Judge(s) ==
  /\ proc[s].pc = "judge"
  /\ proc' = [proc EXCEPT ![s].set = Cohort(level[s]), ![s].verdict = Verdict(Cohort(level[s])),
                          ![s].pc = "aim"]
  /\ UNCHANGED <<campaign, setup, task, evidence, policy, faults>>

Aim(s) ==
  /\ proc[s].pc = "aim"
  /\ proc' = [proc EXCEPT ![s].target = Target(Subject(s), level[s], proc[s].verdict, head[Subject(s)]),
                          ![s].pc = "look"]
  /\ UNCHANGED <<campaign, setup, task, evidence, policy, faults>>

\* An evaluation of this subject and Outcome that exists is only read;
\* otherwise the head and the pairs are, once more.
Look(s) ==
  /\ proc[s].pc = "look"
  /\ LET x == Subject(s) IN
     IF judged[x][s] # -1 THEN NextSubject(s, "aim")
     ELSE proc' = [proc EXCEPT ![s].from = head[x], ![s].after = used[x], ![s].thru = pairs[x],
                               ![s].pc = "commit"]
  /\ UNCHANGED <<campaign, setup, task, evidence, policy, faults>>

\* The head and the consumed pairs must be the ones that were read.
UnreadPairs(s) == head[Subject(s)] = proc[s].from
Unchanged(s) == head[Subject(s)] = proc[s].from /\ used[Subject(s)] = proc[s].after

\* A contract that becomes Active enters the catalogue, and it shows for good
\* that it once did, also after the baseline is back.
Catalogue(x, to) == activated \/ (x = "contract" /\ to = Top)

\* The evaluation: the subject's head may move, the pairs read are consumed.
Commit(s) ==
  /\ proc[s].pc = "commit"
  /\ LET x == Subject(s)
         from == proc[s].from
         fresh == Cardinality(proc[s].thru \ proc[s].after)
         to == NextState(x, s, from, proc[s].target, fresh)
     IN IF Unchanged(s) /\ (to = from \/ Allowed(x, from, to))
        THEN /\ used' = [used EXCEPT ![x] = proc[s].thru]
             /\ judged' = [judged EXCEPT ![x][s] = fresh]
             /\ head' = [head EXCEPT ![x] = to]
             /\ activated' = Catalogue(x, to)
             /\ NextSubject(s, "aim")
             /\ UNCHANGED task
        ELSE Fail(s) /\ UNCHANGED policy
  /\ UNCHANGED <<campaign, setup, evidence, faults>>

\* Has this very transition been made already?
Repeated(l, v) ==
  /\ last = v
  /\ CASE v = "advance" -> status = l + 1
       [] v = "rollback" -> status = Frozen
       [] OTHER -> status = l

Summarises(s) == proc[s].set = Cohort(level[s])

FreezeUnknown(l, v) == IF v = "advance" THEN l + 1 ELSE IF v \in {"rollback", "defer"} THEN Frozen ELSE l
After(l, v) == IF v = "advance" THEN l + 1 ELSE IF v = "rollback" THEN Frozen ELSE l

\* The campaign moves with an evaluation that summarises the recorded cohort.
Apply(s) ==
  /\ proc[s].pc = "apply"
  /\ LET l == level[s]
         v == proc[s].verdict
         row == [level |-> l, set |-> proc[s].set, verdict |-> v]
     IN IF Summarises(s) /\ Repeated(l, v) /\ row \in rows
        THEN End(s, "succeeded") /\ UNCHANGED campaign
        ELSE IF Summarises(s) /\ ~Repeated(l, v) /\ status = l
        THEN /\ rows' = rows \cup {row} /\ last' = v /\ status' = After(l, v)
             /\ End(s, "succeeded")
        ELSE Fail(s) /\ UNCHANGED campaign
  /\ UNCHANGED <<setup, evidence, policy, faults>>

\* The attempt is lost between two of its transactions, and retried.
Crash(s) ==
  /\ task[s] = "running" /\ faults < MaxFaults /\ faults' = faults + 1
  /\ End(s, "queued")
  /\ UNCHANGED <<campaign, setup, evidence, policy>>

Step(s) ==
  \/ Plan(s) \/ Reserve(s) \/ Open(s) \/ Bind(s) \/ Pair(s) \/ Observe(s) \/ Judge(s)
  \/ Aim(s) \/ Look(s) \/ Commit(s) \/ Apply(s) \/ Crash(s)

Next == Resume \/ \E s \in Sessions : Step(s)

Spec == Init /\ [][Next]_vars

----------------------------------------------------------------------------
(* Properties.                                                             *)

\* A level that has been passed stays justified: exactly the observations
\* recorded for it now were judged "advance", although sessions of a level
\* go on recording while another attempt judges and moves the campaign.
ClosedStagesStand ==
  \A l \in Levels : status > l =>
    [level |-> l, set |-> Cohort(l), verdict |-> "advance"] \in rows

\* The campaign climbs one level at a time, only when the cohort as it is
\* recorded at that moment earns it, and freezes only for measured
\* degradation; Completed and Frozen are final, whatever late attempts do.
StageEarned ==
  [][ \/ status = Staged /\ status' = 1
      \/ /\ status \in Levels
         /\ \/ status' = status + 1 /\ Verdict(Cohort(status)) = "advance"
            \/ status' = Frozen /\ Verdict(Cohort(status)) = "rollback" ]_status

\* However the evaluations of concurrent sessions interleave, and although
\* they move the heads before the campaign moves, no contract or topology
\* head is ever ahead of the level under validation.
HeadsBehindCampaign ==
  TypeOK /\ (status # Frozen => head["contract"] <= status /\ head["topology"] <= status)

\* A pair counts as fresh in one evaluation only: what all evaluations of a
\* subject have counted is what its cursor has passed.
Counted(x) == [s \in Sessions |-> IF judged[x][s] = -1 THEN 0 ELSE judged[x][s]]
PairsCountedOnce ==
  \A x \in Policies : SumFunctionOnSet(Counted(x), Sessions) = Cardinality(used[x])

\* A Hold or Defer verdict keeps the campaign at its level and the task of
\* the session that brought it succeeds.
DeferGoesOn ==
  [][ \A s \in Sessions :
        (/\ proc[s].pc = "apply" /\ status = level[s] /\ Summarises(s)
         /\ proc[s].verdict \in {"hold", "defer"}) => task'[s] # "failed" ]_vars
=============================================================================
