------------------------------- MODULE RunLog -------------------------------
(***************************************************************************)
(* The private log of one Run: what the workers append to it, how a        *)
(* finished stage becomes an archive that nobody overwrites, and what a    *)
(* restarted Core concludes from the files and the Store it finds.         *)
(*                                                                         *)
(* A segment is the log of one stage in one session of the Core: a         *)
(* plaintext source that grows line by line, and in the end a ZIP.  Of its *)
(* lines only those about attempts and model calls are kept, as sets; an   *)
(* attempt makes one call at most, so the two have the same name.          *)
(***************************************************************************)
EXTENDS Integers, FiniteSets, SequencesExt

CONSTANTS Task, Stage,
          StageOf,     \* the stage whose log a task writes
          After,       \* the tasks that are done before a task starts
          Decision,    \* the stage that every Run must have a log of, T0
          MaxAttempts, \* the attempts that a task may take
          MaxFaults    \* bound on ends of a Core, lost calls and failed writes

RunLogAssumption ==
  /\ StageOf \in [Task -> Stage] /\ After \in [Task -> SUBSET Task]
  /\ Decision \in Stage /\ MaxAttempts \in [Task -> Nat] /\ MaxFaults \in Nat

VARIABLES
  core,      \* the Core process
  broken,    \* the log is unavailable in this session
  uncertain, \* the Run is known to have a call of unknown outcome
  live,      \* the segment that a stage appends to
  arch,      \* the archive under way
  pc,        \* where the handler of each task is
  fresh,     \* the calls of this session
  segs,      \* the files of all segments
  archived,  \* in the Store: the archives confirmed, in order, for each stage
  blocked,   \* in the Store: the Run is blocked because of such a call
  opened,    \* in the Store: T0 has a log
  status, att, accounted, \* in the Store: tasks, attempts, settled calls
  faults

memory == <<broken, uncertain, live, arch, pc, fresh>>
store == <<archived, blocked, opened, status, att, accounted>>
vars == <<core, memory, segs, store, faults>>

Calls == UNION {{t} \X (1 .. MaxAttempts[t]) : t \in Task}
Log == [asked : SUBSET Calls, ended : SUBSET Calls, unknown : SUBSET Calls,
        unreconciled : SUBSET Calls, active : SUBSET Calls]
NoLog == [asked |-> {}, ended |-> {}, unknown |-> {}, unreconciled |-> {}, active |-> {}]

\* Locked: the steps of seal_segment, under the logger's lock.
Locked == {"temp", "whole", "linked"}
Idle == [pc |-> "idle", seg |-> 0]

TypeOK ==
  /\ core \in {"down", "recovering", "up", "stopping", "refused"}
  /\ {broken, uncertain, blocked, opened} \subseteq BOOLEAN
  /\ \A s \in DOMAIN segs :
       /\ segs[s].log \in Log /\ segs[s].frozen \in Log
       /\ segs[s].stage \in Stage /\ segs[s].prev \in 0 .. Len(segs)
       /\ segs[s].src \in {"whole", "torn", "gone"}
       /\ segs[s].tmp \in {"none", "torn", "whole"}
       /\ segs[s].zip => segs[s].src # "torn"
  /\ \A g \in Stage : /\ live[g] \in 0 .. Len(segs)
                      /\ live[g] # 0 => segs[live[g]].stage = g
                      /\ Range(archived[g]) \subseteq DOMAIN segs
  /\ arch.pc \in {"idle", "chosen", "mark", "sealed", "archived", "settled"} \cup Locked
  /\ arch.seg \in 0 .. Len(segs)
  /\ status \in [Task -> {"todo", "running", "done", "failed"}]
  /\ \A t \in Task : att[t] \in 0 .. MaxAttempts[t]
  /\ fresh \subseteq Calls /\ accounted \subseteq Calls
  /\ pc \in [Task -> {"idle", "claimed", "working", "asked", "answered", "accounted", "result"}]
  /\ \A t \in Task : pc[t] \notin {"idle", "result"} => status[t] = "running"
------------------------------------------------------------------------------
(***************************************************************************)
(* The log.                                                                *)
(***************************************************************************)
Init ==
  /\ core = "up" /\ broken = FALSE /\ uncertain = FALSE
  /\ live = [g \in Stage |-> 0] /\ arch = Idle /\ segs = <<>>
  /\ archived = [g \in Stage |-> <<>>] /\ blocked = FALSE /\ opened = FALSE
  /\ status = [t \in Task |-> "todo"] /\ att = [t \in Task |-> 0]
  /\ pc = [t \in Task |-> "idle"] /\ fresh = {} /\ accounted = {} /\ faults = 0

\* previous_archive: the latest archive of the stage that the Store confirms.
PreviousArchive(g) == IF archived[g] = <<>> THEN 0 ELSE Last(archived[g])

\* Lines are refused while the log is unavailable or the Run is in doubt.
Accepts == ~broken /\ ~uncertain
NotSealing == arch.pc \notin Locked

Opening(g) ==
  [stage |-> g, prev |-> PreviousArchive(g), log |-> NoLog, src |-> "whole",
   tmp |-> "none", zip |-> FALSE, frozen |-> NoLog, before |-> 0, done |-> FALSE]

\* The lines of the stage's live segment.
LiveLog(g) == IF live[g] = 0 THEN NoLog ELSE segs[live[g]].log

\* RunLogger.record: the lines become the live segment's; the first one creates
\* the segment and tells the Store.
Record(g, lines) ==
  /\ NotSealing
  /\ IF live[g] = 0
     THEN /\ segs' = Append(segs, [Opening(g) EXCEPT !.log = lines])
          /\ live' = [live EXCEPT ![g] = Len(segs) + 1]
          /\ opened' = (opened \/ g = Decision)
     ELSE /\ segs' = [segs EXCEPT ![live[g]].log = lines]
          /\ UNCHANGED <<live, opened>>

\* inspect_source
Pending(s) == LET l == segs[s].log IN l.asked \ (l.ended \cup l.unknown)
Unaccounted(s) == segs[s].log.ended \ accounted
Doubtful(l) == l.unknown # {} \/ l.unreconciled # {}

\* uncertain_run_log_ids: the doubts that the Store knows of.
StoreDoubts ==
  blocked \/ \E g \in Stage : \E s \in Range(archived[g]) : Doubtful(segs[s].frozen)
------------------------------------------------------------------------------
(***************************************************************************)
(* The workers.                                                            *)
(***************************************************************************)
Call(t) == <<t, att[t]>>
Requeued(t) == IF att[t] < MaxAttempts[t] THEN "todo" ELSE "failed"
Ended(t, how) == /\ status' = [status EXCEPT ![t] = how]
                 /\ pc' = [pc EXCEPT ![t] = "idle"]
Goes(t, to) == pc' = [pc EXCEPT ![t] = to]
Settled == {"done", "failed"}

Claim(t) ==
  /\ core = "up" /\ ~broken /\ status[t] = "todo" /\ att[t] < MaxAttempts[t]
  /\ pc[t] = "idle" /\ \A p \in After[t] : status[p] = "done"
  /\ status' = [status EXCEPT ![t] = "running"]
  /\ att' = [att EXCEPT ![t] = @ + 1] /\ Goes(t, "claimed")
  /\ UNCHANGED <<core, broken, uncertain, live, arch, fresh, segs, archived, blocked,
                 opened, accounted, faults>>

\* Nothing is done before the claim is in the log; otherwise the attempt is put
\* off and does not count.
LogClaim(t) ==
  /\ pc[t] = "claimed"
  /\ IF Accepts
     THEN /\ Record(StageOf[t], [LiveLog(StageOf[t]) EXCEPT !.active = @ \cup {Call(t)}])
          /\ Goes(t, "working") /\ UNCHANGED <<status, att>>
     ELSE /\ NotSealing /\ Ended(t, "todo") /\ att' = [att EXCEPT ![t] = @ - 1]
          /\ UNCHANGED <<live, opened, segs>>
  /\ UNCHANGED <<core, broken, uncertain, arch, fresh, archived, blocked, accounted, faults>>

\* RunLogUnavailable puts a Task off.
PutOff(t) == NotSealing /\ Ended(t, "todo") /\ UNCHANGED <<live, opened, segs>>

\* llm.request is durable before the provider is called.
Ask(t) ==
  /\ pc[t] = "working"
  /\ IF Accepts
     THEN /\ Record(StageOf[t], [LiveLog(StageOf[t]) EXCEPT !.asked = @ \cup {Call(t)}])
          /\ Goes(t, "asked") /\ fresh' = fresh \cup {Call(t)} /\ UNCHANGED status
     ELSE PutOff(t) /\ UNCHANGED fresh
  /\ UNCHANGED <<core, broken, uncertain, arch, archived, blocked, att, accounted, faults>>

\* llm.terminal, for an answer and for an error.  An answer that cannot be
\* recorded is no answer.
Answer(t) ==
  /\ pc[t] = "asked"
  /\ IF Accepts
     THEN /\ Record(StageOf[t], [LiveLog(StageOf[t]) EXCEPT !.ended = @ \cup {Call(t)}])
          /\ Goes(t, "answered") /\ UNCHANGED status
     ELSE PutOff(t)
  /\ UNCHANGED <<core, broken, uncertain, arch, fresh, archived, blocked, att,
                 accounted, faults>>

\* The turn is durable in the Store.  Calls without a turn skip this.
Account(t) ==
  /\ pc[t] = "answered" /\ Goes(t, "accounted")
  /\ accounted' = accounted \cup {Call(t)}
  /\ UNCHANGED <<core, broken, uncertain, live, arch, fresh, segs, archived, blocked,
                 opened, status, att, faults>>

\* The attempt succeeds: every call of it is settled.
Commit(t) ==
  /\ pc[t] \in {"working", "answered", "accounted"}
  /\ status' = [status EXCEPT ![t] = "done"] /\ Goes(t, "result")
  /\ accounted' = accounted \cup ({Call(t)} \cap fresh)
  /\ segs' = LET s == live[StageOf[t]]
             IN  IF s = 0 THEN segs ELSE [segs EXCEPT ![s].done = TRUE]
  /\ UNCHANGED <<core, broken, uncertain, live, arch, fresh, archived, blocked, opened,
                 att, faults>>

CloseAttempt(t) ==
  Record(StageOf[t], [LiveLog(StageOf[t]) EXCEPT !.active = @ \ {Call(t)}])

LogResult(t) ==
  /\ pc[t] = "result" /\ Goes(t, "idle")
  /\ IF Accepts THEN CloseAttempt(t) ELSE NotSealing /\ UNCHANGED <<live, opened, segs>>
  /\ UNCHANGED <<core, broken, uncertain, arch, fresh, archived, blocked, status, att,
                 accounted, faults>>

\* The attempt fails.  Without its line it is put off and not charged.
Fail(t) ==
  /\ pc[t] \in {"working", "answered", "accounted"}
  /\ IF Accepts THEN CloseAttempt(t) /\ Ended(t, Requeued(t)) ELSE PutOff(t)
  /\ UNCHANGED <<core, broken, uncertain, arch, fresh, archived, blocked, att,
                 accounted, faults>>

\* Mutant: the guard of a dropped call only writes its line.
DropQuietly(t) ==
  /\ pc[t] \in {"working", "asked", "answered", "accounted"} /\ faults < MaxFaults
  /\ IF pc[t] = "asked" /\ Accepts
     THEN Record(StageOf[t], [LiveLog(StageOf[t]) EXCEPT !.unknown = @ \cup {Call(t)}])
     ELSE NotSealing /\ UNCHANGED <<segs, live, opened>>
  /\ Ended(t, Requeued(t)) /\ faults' = faults + 1
  /\ UNCHANGED <<core, broken, uncertain, blocked, arch, fresh, archived, att, accounted>>

\* The handler is dropped: its time is up or its lease is lost.  A call under
\* way is marked, and the Run with it; the attempt stays open in the log.
Drop(t) ==
  /\ pc[t] \in {"working", "asked", "answered", "accounted"} /\ faults < MaxFaults
  /\ IF pc[t] = "asked" /\ Accepts
     THEN /\ Record(StageOf[t], [LiveLog(StageOf[t]) EXCEPT !.unknown = @ \cup {Call(t)}])
          /\ blocked' = TRUE /\ uncertain' = TRUE
     ELSE NotSealing /\ UNCHANGED <<segs, live, opened, blocked, uncertain>>
  /\ Ended(t, Requeued(t)) /\ faults' = faults + 1
  /\ UNCHANGED <<core, broken, arch, fresh, archived, att, accounted>>

\* A line cannot be written or synced: the log is unavailable from now on, and
\* the source may end in a part of a line.
LoseLog ==
  /\ core = "up" /\ ~broken /\ NotSealing /\ faults < MaxFaults /\ faults' = faults + 1
  /\ broken' = TRUE
  /\ \/ UNCHANGED segs
     \/ \E g \in Stage : live[g] # 0 /\ segs' = [segs EXCEPT ![live[g]].src = "torn"]
  /\ UNCHANGED <<core, uncertain, live, arch, pc, fresh, store>>
------------------------------------------------------------------------------
(***************************************************************************)
(* The archiver, which runs beside the workers and once more after them.   *)
(***************************************************************************)
Busy(g) == \E t \in Task : StageOf[t] = g /\ status[t] = "running"

\* A stage is over: the Run is terminal, or an outcome was committed since the
\* segment began, or its task failed.
StageOver(g) ==
  LET mine == {t \in Task : StageOf[t] = g}
  IN  /\ ~Busy(g)
      /\ IF g = Decision THEN \A t \in mine : status[t] \in Settled
         ELSE segs[live[g]].done \/ \E t \in mine : status[t] = "failed"

\* archive_ready_run_stages, archive_remaining_after_shutdown
Choose(g) ==
  /\ arch = Idle /\ live[g] # 0
  /\ \/ core = "up" /\ segs[live[g]].log.active = {} /\ StageOver(g)
     \/ core = "stopping"
  /\ arch' = [pc |-> "chosen", seg |-> live[g]]
  /\ UNCHANGED <<core, broken, uncertain, live, pc, fresh, segs, store, faults>>

\* Mutant: answers are archived although the Store knows nothing of them.
Unclosed(s) == Pending(s) # {}
Incomplete(s) ==
  \/ Pending(s) # {}
  \/ segs[s].log.unreconciled = {} /\ Unaccounted(s) # {}

\* seal_segment looks at the source again, under the lock; what it cannot
\* archive makes the log unavailable.
Seal ==
  /\ arch.pc = "chosen"
  /\ IF broken THEN arch' = Idle /\ UNCHANGED <<broken, segs>>
     ELSE IF Incomplete(arch.seg)
     THEN arch' = Idle /\ broken' = TRUE /\ UNCHANGED segs
     ELSE /\ arch' = [arch EXCEPT !.pc = "temp"]
          /\ segs' = [segs EXCEPT ![arch.seg].tmp = "torn"] /\ UNCHANGED broken
  /\ UNCHANGED <<core, uncertain, live, pc, fresh, store, faults>>

Archiving(from, to) == arch.pc = from /\ arch' = [arch EXCEPT !.pc = to]

WriteZip ==
  /\ Archiving("temp", "whole")
  /\ segs' = [segs EXCEPT ![arch.seg].tmp = "whole", ![arch.seg].frozen = segs[arch.seg].log,
                          ![arch.seg].before = segs[arch.seg].prev]
  /\ UNCHANGED <<core, broken, uncertain, live, pc, fresh, store, faults>>

LinkZip ==
  /\ Archiving("whole", "linked")
  /\ segs' = [segs EXCEPT ![arch.seg].zip = TRUE]
  /\ UNCHANGED <<core, broken, uncertain, live, pc, fresh, store, faults>>

\* The lock is given back with the segment out of the logger's memory.
RemoveTemporary ==
  /\ Archiving("linked", "sealed")
  /\ segs' = [segs EXCEPT ![arch.seg].tmp = "none"]
  /\ live' = [g \in Stage |-> IF live[g] = arch.seg THEN 0 ELSE live[g]]
  /\ UNCHANGED <<core, broken, uncertain, pc, fresh, store, faults>>

RecordArchived ==
  /\ Archiving("sealed", "archived")
  /\ archived' = [archived EXCEPT ![segs[arch.seg].stage] =
                    IF core = "recovering" /\ arch.seg \in Range(@) THEN @
                    ELSE Append(@, arch.seg)]
  /\ UNCHANGED <<core, broken, uncertain, live, pc, fresh, segs, blocked, opened, status,
                 att, accounted, faults>>

\* Mutant: the plaintext goes as soon as the ZIP is there.
CleanEarly ==
  /\ arch.pc \in {"sealed", "archived", "settled"} /\ arch' = Idle
  /\ segs' = [segs EXCEPT ![arch.seg].src = "gone"]
  /\ UNCHANGED <<core, broken, uncertain, live, pc, fresh, store, faults>>

\* Only a confirmed archive lets its plaintext go.
Clean ==
  /\ arch.pc = (IF core = "recovering" THEN "settled" ELSE "archived") /\ arch' = Idle
  /\ segs' = [segs EXCEPT ![arch.seg].src = "gone"]
  /\ UNCHANGED <<core, broken, uncertain, live, pc, fresh, store, faults>>

ArchiveFails ==
  /\ core \in {"up", "stopping"} /\ arch.pc \in Locked \cup {"sealed", "archived"}
  /\ faults < MaxFaults /\ faults' = faults + 1
  /\ broken' = TRUE /\ arch' = Idle
  /\ UNCHANGED <<core, uncertain, live, pc, fresh, segs, store>>

\* A normal stop waits for the workers, then archives what is left.
Stop ==
  /\ core = "up" /\ \A t \in Task : pc[t] = "idle"
  /\ arch = Idle /\ faults < MaxFaults /\ faults' = faults + 1 /\ core' = "stopping"
  /\ UNCHANGED <<memory, segs, store>>

Forget ==
  /\ core' = "down" /\ broken' = FALSE /\ uncertain' = FALSE
  /\ live' = [g \in Stage |-> 0] /\ arch' = Idle /\ fresh' = {}
  /\ pc' = [t \in Task |-> "idle"]

Stopped ==
  /\ core = "stopping" /\ arch = Idle /\ (broken \/ \A g \in Stage : live[g] = 0)
  /\ Forget /\ UNCHANGED <<segs, store, faults>>

\* The Core dies, perhaps within a line.  The leases of its attempts run out.
Crash ==
  /\ core \in {"recovering", "up", "stopping"} /\ faults < MaxFaults /\ faults' = faults + 1
  /\ Forget
  /\ status' = [t \in Task |-> IF status[t] = "running" THEN Requeued(t) ELSE status[t]]
  /\ \/ UNCHANGED segs
     \/ \E s \in DOMAIN segs :
          /\ \/ arch.pc = "mark" /\ arch.seg = s
             \/ NotSealing /\ core = "up" /\ ~broken /\ \E g \in Stage : live[g] = s
          /\ segs' = [segs EXCEPT ![s].src = "torn"]
  /\ UNCHANGED <<archived, blocked, opened, att, accounted>>
------------------------------------------------------------------------------
(***************************************************************************)
(* Startup: recover_orphans.                                               *)
(***************************************************************************)
Start ==
  /\ core = "down" /\ core' = "recovering" /\ uncertain' = StoreDoubts
  /\ UNCHANGED <<broken, live, arch, pc, fresh, segs, store, faults>>

Refuse == core' = "refused" /\ UNCHANGED <<arch, segs>>
Orphans == {s \in DOMAIN segs : segs[s].src # "gone" /\ \A g \in Stage : live[g] # s}

\* verify_published: the ZIP has what the source has, and names the archive
\* that the Store now has as the latest.
Verifies(s) ==
  /\ segs[s].frozen = segs[s].log
  /\ segs[s].before = PreviousArchive(segs[s].stage)

\* A source with a partial line, a partial ZIP and a ZIP that differs from its
\* source are left for inspection.
Inspect(s) ==
  /\ core = "recovering" /\ arch = Idle /\ s \in Orphans
  /\ LET go(to) == arch' = [pc |-> to, seg |-> s] /\ UNCHANGED core
         f == segs[s]
     IN  CASE f.src = "torn" -> Refuse
           [] f.src = "whole" /\ f.zip ->
                IF Verifies(s) THEN go("sealed") /\ UNCHANGED segs ELSE Refuse
           [] f.src = "whole" /\ ~f.zip /\ f.tmp # "none" ->
                IF f.tmp = "whole" /\ Verifies(s) THEN go("whole") /\ UNCHANGED segs
                ELSE Refuse
           [] OTHER ->
                /\ go("mark")
                /\ segs' = [segs EXCEPT ![s].prev = PreviousArchive(f.stage)]
  /\ UNCHANGED <<broken, uncertain, live, pc, fresh, store, faults>>

\* Answers that the Store knows nothing of, and that are not marked yet.
ToReconcile(s) == Unaccounted(s) \ segs[s].log.unreconciled

Mark(c) ==
  /\ arch.pc = "mark"
  /\ LET s == arch.seg
     IN  \/ /\ c \in Pending(s)
            /\ segs' = [segs EXCEPT ![s].log.unknown = @ \cup {c}]
         \/ /\ Pending(s) = {} /\ c \in ToReconcile(s)
            /\ segs' = [segs EXCEPT ![s].log.unreconciled = @ \cup {c}]
  /\ UNCHANGED <<core, memory, store, faults>>

SealInterrupted ==
  /\ Archiving("mark", "temp") /\ Pending(arch.seg) = {} /\ ToReconcile(arch.seg) = {}
  /\ segs' = [segs EXCEPT ![arch.seg].tmp = "torn"]
  /\ UNCHANGED <<core, broken, uncertain, live, pc, fresh, store, faults>>

\* Mutant: a doubt that the archive shows is not remembered.
SettleQuietly ==
  /\ core = "recovering" /\ Archiving("archived", "settled")
  /\ UNCHANGED <<core, blocked, uncertain, broken, live, pc, fresh, segs, archived, opened,
                 status, att, accounted, faults>>

\* The Run of a doubtful archive makes no further calls.
RecordBlocked ==
  /\ core = "recovering" /\ Archiving("archived", "settled")
  /\ LET doubt == Doubtful(segs[arch.seg].frozen) \/ Unaccounted(arch.seg) # {}
     IN  blocked' = (blocked \/ doubt) /\ uncertain' = (uncertain \/ doubt)
  /\ UNCHANGED <<core, broken, live, pc, fresh, segs, archived, opened, status, att,
                 accounted, faults>>

Unstarted == ~opened /\ archived[Decision] = <<>> /\ live[Decision] = 0

\* The Run was created and died before its first line.
OpenRequired ==
  /\ core = "recovering" /\ arch = Idle /\ Orphans = {} /\ Unstarted
  /\ IF Accepts THEN Record(Decision, LiveLog(Decision)) /\ UNCHANGED core
     ELSE core' = "refused" /\ UNCHANGED <<segs, live, opened>>
  /\ UNCHANGED <<broken, uncertain, arch, pc, fresh, archived, blocked, status, att,
                 accounted, faults>>

Serve ==
  /\ core = "recovering" /\ arch = Idle /\ Orphans = {} /\ ~Unstarted
  /\ core' = "up" /\ UNCHANGED <<memory, segs, store, faults>>

Next ==
  \/ \E t \in Task : \/ Claim(t)
                     \/ LogClaim(t)
                     \/ Ask(t)
                     \/ Answer(t)
                     \/ Account(t)
                     \/ Commit(t)
                     \/ LogResult(t)
                     \/ Fail(t)
                     \/ Drop(t)
  \/ LoseLog
  \/ \E g \in Stage : Choose(g)
  \/ Seal
  \/ WriteZip
  \/ LinkZip
  \/ RemoveTemporary
  \/ RecordArchived
  \/ Clean
  \/ ArchiveFails
  \/ Stop
  \/ Stopped
  \/ Crash
  \/ Start
  \/ \E s \in DOMAIN segs : Inspect(s)
  \/ \E c \in Calls : Mark(c)
  \/ SealInterrupted
  \/ RecordBlocked
  \/ OpenRequired
  \/ Serve

Spec == Init /\ [][Next]_vars
------------------------------------------------------------------------------
(***************************************************************************)
(* Properties.                                                             *)
(***************************************************************************)
AllArchived == UNION {Range(archived[g]) : g \in Stage}
Asked == UNION {segs[s].log.asked : s \in DOMAIN segs}

\* No line is lost: what a published ZIP was frozen from has not grown since,
\* and a source goes only when the Store has confirmed its ZIP.  And the chain
\* of a stage's archives leads back: each names one that was confirmed before
\* it, and none is confirmed twice.
NothingLost ==
  /\ TypeOK
  /\ \A s \in DOMAIN segs :
       /\ segs[s].zip => segs[s].frozen = segs[s].log
       /\ segs[s].src = "gone" => segs[s].zip /\ s \in AllArchived
  /\ \A g \in Stage : \A i \in DOMAIN archived[g] :
       LET earlier == {archived[g][j] : j \in 1 .. i - 1}
       IN  /\ archived[g][i] \notin earlier
           /\ segs[archived[g][i]].before \in earlier \cup {0}

\* A Core that serves knows of every doubt that an earlier one left: each call
\* of an earlier session is settled in the Store, or the Run is held back.
DoubtIsKept ==
  core = "up" => \A c \in Asked : c \in fresh \/ c \in accounted \/ uncertain

\* An archive that calls itself complete has no call that the Store, the
\* authority on what was spent, does not know of.
CompleteIsComplete ==
  \A s \in DOMAIN segs :
    (segs[s].zip /\ ~Doubtful(segs[s].frozen)) => segs[s].frozen.asked \subseteq accounted

\* No provider is called while an earlier call of the Run may have had an
\* effect that nobody has accounted for; only a call that is under way, or was
\* answered, in this very session does not stand in the way.
NoBlindReplay ==
  [][\A c \in fresh' \ fresh : \A d \in Asked :
       d \in accounted \/ (d \in fresh /\ \A s \in DOMAIN segs : d \notin segs[s].log.unknown)]_vars
==============================================================================
