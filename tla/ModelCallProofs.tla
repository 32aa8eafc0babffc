--------------------------- MODULE ModelCallProofs ---------------------------
(***************************************************************************)
(* What the two records of model calls promise: RunLog for any number of   *)
(* tasks, stages, attempts and faults, ResearchTurns for any contract,     *)
(* batch of reads and number of faults.                                    *)
(*                                                                         *)
(* RunLog.  A line is only written into the live segment of its            *)
(* stage, never while a seal holds the lock, so the lines that a ZIP is    *)
(* written from are those of its source for good (SourcesInv, LiveInv);    *)
(* the archiver goes on from one step to the next on one segment, and a    *)
(* restarted Core takes that segment up at the step that its files show    *)
(* (ArchiveInv).  A seal needs an end, or a doubt, for each call of its    *)
(* log, so an archive without a doubt has settled calls only (CompleteInv).*)
(* A restarted Core hence knows of the doubts of a segment that is gone    *)
(* from the Store, of those of any other when it has archived it, and it   *)
(* serves when none is left (DoubtInv).                                    *)
(*                                                                         *)
(* ResearchTurns.  Recovery folds the events in the order of the attempts, *)
(* which late rejections take them out of the order of the log.  Any       *)
(* checkpoint that can be restored agrees with the log on calls, tokens,   *)
(* reads, submissions and turns (Ledger, over any part of the log that is  *)
(* an initial segment of the replay); a log that has grown by one event    *)
(* replays its old part as before (ReplayGrows).  An attempt hence begins  *)
(* with the ledger of the log (BeginRecalls), and each step keeps the two  *)
(* together (TokensInv, ToolsInv, SubsInv, UnknownInv, ConversationInv).   *)
(*                                                                         *)
(* ResultFrozen is about what attempts that never meet agree on.  A replay *)
(* hears the rejections that no later submission answers (Voice); one that *)
(* another attempt's submission has overtaken makes the log one that no    *)
(* attempt can start from (Unheard, OvertakenInv).  So an attempt that     *)
(* starts knows what is left to repair (RejectionsInv, KnowsInv), it is    *)
(* bound to the result that the last submission of the log proposed        *)
(* (BoundInv), and each later result keeps what that one froze             *)
(* (FrozenInv).                                                            *)
(***************************************************************************)
EXTENDS RunLog, ResearchTurns, SumTheorems, SequenceTheorems

----
\* Types.

Segment ==
  [stage : Stage, prev : Nat, log : Log, src : {"whole", "torn", "gone"},
   tmp : {"none", "torn", "whole"}, zip : BOOLEAN, frozen : Log, before : Nat,
   done : BOOLEAN]
Segs == 1 .. Len(segs)
Steps == {"idle", "chosen", "mark", "sealed", "archived", "settled"} \cup Locked

FilesTyped ==
  /\ segs \in Seq(Segment) /\ broken \in BOOLEAN
  /\ live \in [Stage -> Nat]
  /\ \A g \in Stage : live[g] # 0 => live[g] \in Segs /\ segs[live[g]].stage = g
  /\ archived \in [Stage -> Seq(Nat)]
  /\ \A g \in Stage : \A i \in 1 .. Len(archived[g]) : archived[g][i] \in Segs
  /\ arch \in [pc : Steps, seg : Nat]
  /\ arch.pc # "idle" => arch.seg \in Segs
  /\ arch.pc = "idle" => arch = Idle

\* What an attempt does, it does in a Core that is up.
TasksTyped ==
  /\ core \in {"down", "recovering", "up", "stopping", "refused"}
  /\ uncertain \in BOOLEAN /\ blocked \in BOOLEAN /\ opened \in BOOLEAN
  /\ status \in [Task -> {"todo", "running", "done", "failed"}]
  /\ att \in [Task -> Nat] /\ \A t \in Task : att[t] <= MaxAttempts[t]
  /\ fresh \subseteq Calls /\ accounted \subseteq Calls
  /\ pc \in [Task -> {"idle", "claimed", "working", "asked", "answered", "accounted", "result"}]
  /\ \A t \in Task : pc[t] \notin {"idle", "result"} => status[t] = "running"
  /\ \A t \in Task : pc[t] # "idle" => att[t] >= 1 /\ core = "up"

Typed == FilesTyped /\ TasksTyped

----
\* The invariants.

Confirmed(s) == s \in Range(archived[segs[s].stage])

\* A ZIP has every line of its source, no source goes before its ZIP is
\* confirmed, and a segment follows one that is.
SourcesInv ==
  \A s \in Segs :
    /\ segs[s].zip => segs[s].frozen = segs[s].log /\ segs[s].src # "torn"
    /\ segs[s].src = "gone" => segs[s].zip /\ Confirmed(s)
    /\ segs[s].prev \in Range(archived[segs[s].stage]) \cup {0}
    /\ segs[s].before \in Range(archived[segs[s].stage]) \cup {0}

\* The archives of a stage, each with those confirmed before it.
ChainInv ==
  \A g \in Stage : \A i \in 1 .. Len(archived[g]) :
    LET s == archived[g][i]
    IN  /\ segs[s].stage = g /\ segs[s].zip
        /\ \A j \in 1 .. i - 1 : archived[g][j] # s
        /\ segs[s].before = 0 \/ \E j \in 1 .. i - 1 : archived[g][j] = segs[s].before

\* A stage appends to a segment that is not archived; once its ZIP is there no
\* line is accepted any more, nor behind a part of a line.
LiveInv ==
  \A g \in Stage : live[g] # 0 =>
    /\ live[g] \notin Range(archived[g])
    /\ segs[live[g]].zip => broken \/ (arch.pc = "linked" /\ arch.seg = live[g])
    /\ segs[live[g]].src = "torn" => broken

\* What is known of the segment under way at each step of its archive.
ArchiveInv ==
  LET s == arch.seg
  IN  /\ arch.pc = "chosen" => live[segs[s].stage] = s
      /\ arch.pc \in {"mark", "settled"} => core = "recovering"
      /\ arch.pc = "mark" => ~segs[s].zip
      /\ arch.pc \in Locked \cup {"mark"} => segs[s].src # "torn"
      /\ arch.pc = "whole" => segs[s].frozen = segs[s].log
      /\ arch.pc \in {"linked", "sealed", "archived", "settled"} => segs[s].zip
      /\ arch.pc \in {"archived", "settled"} => Confirmed(s)
      /\ arch.pc \in Locked \cup {"chosen", "mark"} => ~Confirmed(s)
      /\ arch.pc = "sealed" /\ core # "recovering" => ~Confirmed(s)
      /\ arch.pc \in {"mark", "sealed", "archived", "settled"} =>
           live[segs[s].stage] # s

FilesInv == SourcesInv /\ ChainInv /\ LiveInv /\ ArchiveInv

\* A log that says nothing of a doubt has only calls that are settled.
Complete(l) == Doubtful(l) \/ l.asked \subseteq accounted

CompleteInv ==
  /\ \A s \in Segs : segs[s].zip \/ segs[s].tmp = "whole" => Complete(segs[s].frozen)
  /\ arch.pc = "temp" => Complete(segs[arch.seg].log)
  /\ arch.pc = "whole" => segs[arch.seg].tmp = "whole"

\* An attempt that has not asked yet has no call in any log.
NotYet(t) == pc[t] \in {"claimed", "working"}
CallsInv ==
  \A s \in Segs : \A c \in segs[s].log.asked \cup segs[s].log.unknown :
    c[2] <= att[c[1]] /\ (NotYet(c[1]) => c[2] < att[c[1]])

\* A serving Core knows of every doubt that an earlier one left; one that
\* recovers knows of those in the segments it has dealt with.
Known(s) == uncertain \/ segs[s].log.asked \subseteq accounted
DoubtInv ==
  /\ core \notin {"up", "stopping"} => fresh = {}
  /\ \A g \in Stage : live[g] # 0 => segs[live[g]].log.asked \subseteq fresh
  /\ core = "recovering" => \A s \in Segs :
       segs[s].src = "gone" \/ (arch.pc = "settled" /\ arch.seg = s) => Known(s)
  /\ core = "up" /\ ~uncertain => \A s \in Segs :
       /\ segs[s].log.asked \subseteq fresh \cup accounted
       /\ segs[s].log.unknown \cap fresh = {}

----
\* Changes of one segment.

\* All segments but one stay as they are.
Changed(s) ==
  /\ segs' \in Seq(Segment) /\ Len(segs') = Len(segs)
  /\ \A i \in Segs : i # s => segs'[i] = segs[i]

\* Of a segment, everything but F stays as it is.
Kept(s, F) ==
  /\ segs'[s].stage = segs[s].stage
  /\ "prev" \notin F => segs'[s].prev = segs[s].prev
  /\ "log" \notin F => segs'[s].log = segs[s].log
  /\ "src" \notin F => segs'[s].src = segs[s].src
  /\ "tmp" \notin F => segs'[s].tmp = segs[s].tmp
  /\ "zip" \notin F => segs'[s].zip = segs[s].zip
  /\ "frozen" \notin F =>
       segs'[s].frozen = segs[s].frozen /\ segs'[s].before = segs[s].before

\* One segment is put in the place of another.
LEMMA SegmentChange ==
  ASSUME segs \in Seq(Segment), NEW s \in Segs, NEW r \in Segment,
         segs' = [segs EXCEPT ![s] = r]
  PROVE  Changed(s) /\ segs'[s] = r
  BY ExceptSeq DEF Changed, Segs

\* The lines change.
LEMMA LogChange ==
  ASSUME segs \in Seq(Segment), NEW s \in Segs, NEW l \in Log,
         segs' = [segs EXCEPT ![s].log = l]
  PROVE  /\ Changed(s) /\ Kept(s, {"log"})
         /\ segs'[s].log = l
<1> DEFINE r == [segs[s] EXCEPT !.log = l]
<1>1. segs[s] \in Segment
  BY ElementOfSeq DEF Segs
<1>2. r \in Segment
  BY <1>1, Zenon DEF Segment
<1>3. /\ r.log = l
      /\ r.stage = segs[s].stage /\ r.prev = segs[s].prev /\ r.src = segs[s].src
      /\ r.tmp = segs[s].tmp /\ r.zip = segs[s].zip /\ r.frozen = segs[s].frozen
      /\ r.before = segs[s].before /\ r.done = segs[s].done
  BY <1>1 DEF Segment
<1>4. segs' = [segs EXCEPT ![s] = r]
  OBVIOUS
<1> HIDE DEF r
<1>5. Changed(s) /\ segs'[s] = r
  BY <1>2, <1>4, SegmentChange
<1> QED
  BY <1>3, <1>5 DEF Kept

\* An outcome was committed.
LEMMA DoneChange ==
  ASSUME segs \in Seq(Segment), NEW s \in Segs,
         segs' = [segs EXCEPT ![s].done = TRUE]
  PROVE  /\ Changed(s) /\ Kept(s, {})
         /\ segs'[s].done = TRUE
<1> DEFINE r == [segs[s] EXCEPT !.done = TRUE]
<1>1. segs[s] \in Segment
  BY ElementOfSeq DEF Segs
<1>2. r \in Segment
  BY <1>1, Zenon DEF Segment
<1>3. /\ r.done = TRUE
      /\ r.stage = segs[s].stage /\ r.prev = segs[s].prev /\ r.log = segs[s].log
      /\ r.src = segs[s].src /\ r.tmp = segs[s].tmp /\ r.zip = segs[s].zip
      /\ r.frozen = segs[s].frozen /\ r.before = segs[s].before
  BY <1>1 DEF Segment
<1>4. segs' = [segs EXCEPT ![s] = r]
  OBVIOUS
<1> HIDE DEF r
<1>5. Changed(s) /\ segs'[s] = r
  BY <1>2, <1>4, SegmentChange
<1> QED
  BY <1>3, <1>5 DEF Kept

\* The source is torn, or goes.
LEMMA SourceChange ==
  ASSUME segs \in Seq(Segment), NEW s \in Segs, NEW v \in {"torn", "gone"},
         segs' = [segs EXCEPT ![s].src = v]
  PROVE  /\ Changed(s) /\ Kept(s, {"src"})
         /\ segs'[s].src = v
<1> DEFINE r == [segs[s] EXCEPT !.src = v]
<1>1. segs[s] \in Segment
  BY ElementOfSeq DEF Segs
<1>2. r \in Segment
  BY <1>1, Zenon DEF Segment
<1>3. /\ r.src = v
      /\ r.stage = segs[s].stage /\ r.prev = segs[s].prev /\ r.log = segs[s].log
      /\ r.tmp = segs[s].tmp /\ r.zip = segs[s].zip /\ r.frozen = segs[s].frozen
      /\ r.before = segs[s].before /\ r.done = segs[s].done
  BY <1>1 DEF Segment
<1>4. segs' = [segs EXCEPT ![s] = r]
  OBVIOUS
<1> HIDE DEF r
<1>5. Changed(s) /\ segs'[s] = r
  BY <1>2, <1>4, SegmentChange
<1> QED
  BY <1>3, <1>5 DEF Kept

\* The temporary file comes and goes.
LEMMA TemporaryChange ==
  ASSUME segs \in Seq(Segment), NEW s \in Segs, NEW v \in {"none", "torn"},
         segs' = [segs EXCEPT ![s].tmp = v]
  PROVE  /\ Changed(s) /\ Kept(s, {"tmp"})
         /\ segs'[s].tmp = v
<1> DEFINE r == [segs[s] EXCEPT !.tmp = v]
<1>1. segs[s] \in Segment
  BY ElementOfSeq DEF Segs
<1>2. r \in Segment
  BY <1>1, Zenon DEF Segment
<1>3. /\ r.tmp = v
      /\ r.stage = segs[s].stage /\ r.prev = segs[s].prev /\ r.log = segs[s].log
      /\ r.src = segs[s].src /\ r.zip = segs[s].zip /\ r.frozen = segs[s].frozen
      /\ r.before = segs[s].before /\ r.done = segs[s].done
  BY <1>1 DEF Segment
<1>4. segs' = [segs EXCEPT ![s] = r]
  OBVIOUS
<1> HIDE DEF r
<1>5. Changed(s) /\ segs'[s] = r
  BY <1>2, <1>4, SegmentChange
<1> QED
  BY <1>3, <1>5 DEF Kept

\* The ZIP is linked.
LEMMA ZipChange ==
  ASSUME segs \in Seq(Segment), NEW s \in Segs,
         segs' = [segs EXCEPT ![s].zip = TRUE]
  PROVE  /\ Changed(s) /\ Kept(s, {"zip"})
         /\ segs'[s].zip = TRUE
<1> DEFINE r == [segs[s] EXCEPT !.zip = TRUE]
<1>1. segs[s] \in Segment
  BY ElementOfSeq DEF Segs
<1>2. r \in Segment
  BY <1>1, Zenon DEF Segment
<1>3. /\ r.zip = TRUE
      /\ r.stage = segs[s].stage /\ r.prev = segs[s].prev /\ r.log = segs[s].log
      /\ r.src = segs[s].src /\ r.tmp = segs[s].tmp /\ r.frozen = segs[s].frozen
      /\ r.before = segs[s].before /\ r.done = segs[s].done
  BY <1>1 DEF Segment
<1>4. segs' = [segs EXCEPT ![s] = r]
  OBVIOUS
<1> HIDE DEF r
<1>5. Changed(s) /\ segs'[s] = r
  BY <1>2, <1>4, SegmentChange
<1> QED
  BY <1>3, <1>5 DEF Kept

\* A segment is opened again behind another one.
LEMMA PreviousChange ==
  ASSUME segs \in Seq(Segment), NEW s \in Segs, NEW v \in Nat,
         segs' = [segs EXCEPT ![s].prev = v]
  PROVE  /\ Changed(s) /\ Kept(s, {"prev"})
         /\ segs'[s].prev = v
<1> DEFINE r == [segs[s] EXCEPT !.prev = v]
<1>1. segs[s] \in Segment
  BY ElementOfSeq DEF Segs
<1>2. r \in Segment
  BY <1>1, Zenon DEF Segment
<1>3. /\ r.prev = v
      /\ r.stage = segs[s].stage /\ r.log = segs[s].log /\ r.src = segs[s].src
      /\ r.tmp = segs[s].tmp /\ r.zip = segs[s].zip /\ r.frozen = segs[s].frozen
      /\ r.before = segs[s].before /\ r.done = segs[s].done
  BY <1>1 DEF Segment
<1>4. segs' = [segs EXCEPT ![s] = r]
  OBVIOUS
<1> HIDE DEF r
<1>5. Changed(s) /\ segs'[s] = r
  BY <1>2, <1>4, SegmentChange
<1> QED
  BY <1>3, <1>5 DEF Kept

\* A new segment at the end.
Opens(g, l) ==
  LET n == Len(segs) + 1
  IN  /\ segs' \in Seq(Segment) /\ Len(segs') = n
      /\ \A i \in Segs : segs'[i] = segs[i]
      /\ segs'[n].stage = g /\ segs'[n].prev = PreviousArchive(g) /\ segs'[n].log = l
      /\ segs'[n].src = "whole" /\ segs'[n].tmp = "none" /\ ~segs'[n].zip
      /\ segs'[n].frozen = NoLog /\ segs'[n].before = 0
      /\ live[g] = 0 /\ live' = [live EXCEPT ![g] = n]

\* More lines in the segment that a stage appends to.
Extends(g, l) ==
  /\ live[g] \in Segs /\ Changed(live[g]) /\ Kept(live[g], {"log"})
  /\ segs'[live[g]].log = l
  /\ live' = live

\* The archives of a stage are the members of their sequence.
LEMMA ArchivesAre ==
  ASSUME FilesTyped, NEW g \in Stage
  PROVE  \A s : s \in Range(archived[g]) <=> \E i \in 1 .. Len(archived[g]) : archived[g][i] = s
<1>1. archived[g] \in Seq(Nat)
  BY DEF FilesTyped
<1> QED
  BY <1>1, RangeEquality

\* The latest archive is one of them.
LEMMA PreviousIsArchive ==
  ASSUME FilesTyped, NEW g \in Stage
  PROVE  /\ PreviousArchive(g) \in Range(archived[g]) \cup {0}
         /\ PreviousArchive(g) \in Nat
<1>1. archived[g] \in Seq(Nat)
  BY DEF FilesTyped
<1>2. CASE archived[g] = <<>>
  BY <1>2 DEF PreviousArchive
<1>3. CASE archived[g] # <<>>
  <2>1. Len(archived[g]) \in Nat \ {0}
    BY <1>1, <1>3, EmptySeq
  <2>2. Len(archived[g]) \in 1 .. Len(archived[g])
    BY <2>1
  <2>3. Last(archived[g]) \in Range(archived[g])
    BY <2>2, ArchivesAre DEF Last
  <2>4. Last(archived[g]) \in Nat
    BY <1>1, <2>2, ElementOfSeq DEF Last
  <2> QED
    BY <1>3, <2>3, <2>4 DEF PreviousArchive
<1> QED
  BY <1>2, <1>3

\* RunLogger.record extends the live segment or opens one.
LEMMA RecordCases ==
  ASSUME FilesTyped, NEW g \in Stage, NEW l \in Log, Record(g, l)
  PROVE  NotSealing /\ (Opens(g, l) \/ Extends(g, l))
<1>0. segs \in Seq(Segment) /\ (live[g] # 0 => live[g] \in Segs) /\ NotSealing
      /\ Len(segs) \in Nat
  BY LenProperties DEF FilesTyped, Record
<1>1. CASE live[g] = 0
  <2> DEFINE o == Opening(g)
             r == [o EXCEPT !.log = l]
  <2>1. /\ o.stage = g /\ o.prev = PreviousArchive(g)
        /\ o.src = "whole" /\ o.tmp = "none" /\ ~o.zip
        /\ o.frozen = NoLog /\ o.before = 0
    BY DEF Opening
  <2>2. segs' = Append(segs, r) /\ live' = [live EXCEPT ![g] = Len(segs) + 1]
    BY <1>1 DEF Record
  <2>3. NoLog \in Log
    BY DEF NoLog, Log
  <2>4. o \in Segment
    BY <2>3, PreviousIsArchive DEF Segment, Opening
  <2> HIDE DEF o
  <2>5. r \in Segment
    BY <2>4, Zenon DEF Segment
  <2>6. /\ r.stage = g /\ r.prev = PreviousArchive(g) /\ r.log = l
        /\ r.src = "whole" /\ r.tmp = "none" /\ ~r.zip
        /\ r.frozen = NoLog /\ r.before = 0
    BY <2>1, <2>4 DEF Segment
  <2> HIDE DEF r
  <2>7. /\ segs' \in Seq(Segment) /\ Len(segs') = Len(segs) + 1
        /\ \A i \in Segs : segs'[i] = segs[i]
        /\ segs'[Len(segs) + 1] = r
    BY <1>0, <2>2, <2>5, AppendProperties DEF Segs
  <2>8. Opens(g, l)
    BY <1>1, <2>2, <2>6, <2>7 DEF Opens
  <2> QED
    BY <1>0, <2>8
<1>2. CASE live[g] # 0
  <2>1. segs' = [segs EXCEPT ![live[g]].log = l] /\ live' = live
    BY <1>2 DEF Record
  <2>2. Changed(live[g]) /\ Kept(live[g], {"log"}) /\ segs'[live[g]].log = l
    BY <1>0, <1>2, <2>1, LogChange
  <2>3. Extends(g, l)
    BY <1>0, <1>2, <2>1, <2>2 DEF Extends
  <2> QED
    BY <1>0, <2>3
<1> QED
  BY <1>1, <1>2
----
\* The steps of the tasks.

TaskMoves(t) ==
  \/ Claim(t) \/ LogClaim(t) \/ Ask(t) \/ Answer(t) \/ Account(t) \/ Commit(t)
  \/ LogResult(t) \/ Fail(t) \/ Drop(t)

\* A call is an attempt of a task.
LEMMA CallParts ==
  ASSUME RunLogAssumption, NEW c \in Calls
  PROVE  c[1] \in Task /\ c[2] \in Nat
<1>1. PICK t \in Task : c \in {t} \X (1 .. MaxAttempts[t])
  BY DEF Calls
<1> QED
  BY <1>1 DEF RunLogAssumption

\* An attempt under way has a call of its own.
LEMMA CallOf ==
  ASSUME RunLogAssumption, TasksTyped, NEW t \in Task, pc[t] # "idle"
  PROVE  Call(t) \in Calls /\ core = "up"
<1>1. att[t] \in 1 .. MaxAttempts[t]
  BY DEF TasksTyped, RunLogAssumption
<1>2. Call(t) \in {t} \X (1 .. MaxAttempts[t])
  BY <1>1 DEF Call
<1> QED
  BY <1>2 DEF Calls, TasksTyped

\* What a line adds to the log of a stage.
LEMMA LiveLogTyped ==
  ASSUME FilesTyped, NEW g \in Stage, NEW c \in Calls
  PROVE  LET l == LiveLog(g)
         IN  /\ l \in Log
             /\ [l EXCEPT !.active = @ \cup {c}] \in Log
             /\ [l EXCEPT !.active = @ \ {c}] \in Log
             /\ [l EXCEPT !.asked = @ \cup {c}] \in Log
             /\ [l EXCEPT !.ended = @ \cup {c}] \in Log
             /\ [l EXCEPT !.unknown = @ \cup {c}] \in Log
<1> DEFINE l == LiveLog(g)
<1>1. l \in Log
  <2>1. CASE live[g] = 0
    BY <2>1 DEF LiveLog, NoLog, Log
  <2>2. CASE live[g] # 0
    <3>1. segs[live[g]] \in Segment
      BY <2>2, ElementOfSeq DEF FilesTyped, Segs
    <3> QED
      BY <2>2, <3>1 DEF LiveLog, Segment
  <2> QED
    BY <2>1, <2>2
<1> HIDE DEF l
<1>2. /\ l.active \subseteq Calls /\ l.asked \subseteq Calls /\ l.ended \subseteq Calls
      /\ l.unknown \subseteq Calls
  BY <1>1 DEF Log
<1>3. /\ l.active \cup {c} \subseteq Calls /\ l.active \ {c} \subseteq Calls
      /\ l.asked \cup {c} \subseteq Calls /\ l.ended \cup {c} \subseteq Calls
      /\ l.unknown \cup {c} \subseteq Calls
  BY <1>2
<1>4. [l EXCEPT !.active = @ \cup {c}] \in Log
  BY <1>1, <1>3, Zenon DEF Log
<1>5. [l EXCEPT !.active = @ \ {c}] \in Log
  BY <1>1, <1>3, Zenon DEF Log
<1>6. [l EXCEPT !.asked = @ \cup {c}] \in Log
  BY <1>1, <1>3, Zenon DEF Log
<1>7. [l EXCEPT !.ended = @ \cup {c}] \in Log
  BY <1>1, <1>3, Zenon DEF Log
<1>8. [l EXCEPT !.unknown = @ \cup {c}] \in Log
  BY <1>1, <1>3, Zenon DEF Log
<1> QED
  BY <1>1, <1>4, <1>5, <1>6, <1>7, <1>8 DEF l

\* Every step of a task keeps the types of the tasks.
LEMMA TaskMovesTyped ==
  ASSUME RunLogAssumption, Typed, NEW t \in Task, TaskMoves(t)
  PROVE  TasksTyped'
<1>0. pc[t] # "idle" => Call(t) \in Calls /\ core = "up"
  BY CallOf DEF Typed
<1>1. CASE Claim(t)
  BY <1>1 DEF Claim, Goes, Typed, TasksTyped, RunLogAssumption
<1>2. CASE LogClaim(t)
  <2>1. CASE Accepts
    BY <1>2, <2>1 DEF LogClaim, Goes, Record, Typed, TasksTyped
  <2>2. CASE ~Accepts
    <3>1. att[t] \in Nat /\ att[t] >= 1 /\ MaxAttempts[t] \in Nat
      BY <1>2 DEF LogClaim, Typed, TasksTyped, RunLogAssumption
    <3>2. att' = [att EXCEPT ![t] = att[t] - 1] /\ opened' = opened
      BY <1>2, <2>2 DEF LogClaim
    <3>3. att' \in [Task -> Nat] /\ \A k \in Task : att'[k] <= att[k]
      BY <3>1, <3>2 DEF Typed, TasksTyped
    <3>4. \A k \in Task : att'[k] <= MaxAttempts[k] /\ (k # t => att'[k] = att[k])
      BY <3>1, <3>2, <3>3 DEF Typed, TasksTyped, RunLogAssumption
    <3> QED
      BY <1>2, <2>2, <3>2, <3>3, <3>4 DEF LogClaim, Ended, Typed, TasksTyped
  <2> QED
    BY <2>1, <2>2
<1>3. CASE Ask(t)
  BY <1>0, <1>3 DEF Ask, Goes, PutOff, Ended, Record, Typed, TasksTyped
<1>4. CASE Answer(t)
  BY <1>4 DEF Answer, Goes, PutOff, Ended, Record, Typed, TasksTyped
<1>5. CASE Account(t)
  BY <1>0, <1>5 DEF Account, Goes, Typed, TasksTyped
<1>6. CASE Commit(t)
  BY <1>0, <1>6 DEF Commit, Goes, Typed, TasksTyped
<1>7. CASE LogResult(t)
  BY <1>7 DEF LogResult, Goes, CloseAttempt, Record, Typed, TasksTyped
<1>8. CASE Fail(t)
  BY <1>8 DEF Fail, Goes, PutOff, CloseAttempt, Record, Ended, Requeued, Typed, TasksTyped
<1>9. CASE Drop(t)
  BY <1>9 DEF Drop, Record, Ended, Requeued, Typed, TasksTyped
<1> QED
  BY <1>1, <1>2, <1>3, <1>4, <1>5, <1>6, <1>7, <1>8, <1>9 DEF TaskMoves

\* A call of an attempt up to the latest, and not of one that has yet to ask.
Spent(c) == c[2] <= att[c[1]] /\ (NotYet(c[1]) => c[2] < att[c[1]])

\* A step that writes lines, which ask the calls A and doubt the calls U.
Writes(A, U) ==
  /\ UNCHANGED <<arch, archived, broken>>
  /\ \/ UNCHANGED <<segs, live>>
     \/ \E s \in Segs : Changed(s) /\ Kept(s, {}) /\ UNCHANGED live
     \/ \E g \in Stage, l \in Log :
          /\ ~broken /\ NotSealing /\ (Opens(g, l) \/ Extends(g, l))
          /\ l.asked \subseteq LiveLog(g).asked \cup A
          /\ l.unknown \subseteq LiveLog(g).unknown \cup U

\* Only what a line says of a call matters here.
LEMMA LinesSay ==
  ASSUME NEW l \in Log, NEW c
  PROVE  /\ [l EXCEPT !.active = @ \cup {c}].asked = l.asked
         /\ [l EXCEPT !.active = @ \cup {c}].unknown = l.unknown
         /\ [l EXCEPT !.active = @ \ {c}].asked = l.asked
         /\ [l EXCEPT !.active = @ \ {c}].unknown = l.unknown
         /\ [l EXCEPT !.ended = @ \cup {c}].asked = l.asked
         /\ [l EXCEPT !.ended = @ \cup {c}].unknown = l.unknown
         /\ [l EXCEPT !.asked = @ \cup {c}].asked = l.asked \cup {c}
         /\ [l EXCEPT !.asked = @ \cup {c}].unknown = l.unknown
         /\ [l EXCEPT !.unknown = @ \cup {c}].asked = l.asked
         /\ [l EXCEPT !.unknown = @ \cup {c}].unknown = l.unknown \cup {c}
  BY DEF Log

\* A record writes the calls and the doubts that its line has.
LEMMA RecordWrites ==
  ASSUME FilesTyped, NEW g \in Stage, NEW l \in Log, Record(g, l), Accepts,
         UNCHANGED <<arch, archived, broken>>, NEW A, NEW U,
         l.asked \subseteq LiveLog(g).asked \cup A,
         l.unknown \subseteq LiveLog(g).unknown \cup U
  PROVE  Writes(A, U)
<1>1. NotSealing /\ (Opens(g, l) \/ Extends(g, l))
  BY RecordCases
<1> QED
  BY <1>1 DEF Writes, Accepts

\* What a step of a task does to the files, and what the Core knows of it.
TaskStep ==
  /\ core = "up" /\ core' = core /\ accounted \subseteq accounted'
  /\ \A c \in Calls : Spent(c) => Spent(c)'
  /\ \/ Writes({}, {}) /\ UNCHANGED <<fresh, uncertain>>
     \/ \E c \in Calls :
          /\ Writes({c}, {}) /\ fresh' = fresh \cup {c} /\ UNCHANGED uncertain
          /\ ~uncertain /\ ~Spent(c) /\ Spent(c)'
     \/ \E c \in Calls :
          /\ Writes({}, {c}) /\ UNCHANGED fresh /\ uncertain' /\ Spent(c)'

\* Every action of a task is such a step.
LEMMA TaskSteps ==
  ASSUME RunLogAssumption, Typed, NEW t \in Task, TaskMoves(t)
  PROVE  TaskStep
<1> DEFINE g == StageOf[t]
           l == LiveLog(g)
<1>0. PICK c : c = Call(t)
  OBVIOUS
<1>1. g \in Stage /\ FilesTyped /\ TasksTyped
  BY DEF Typed, RunLogAssumption
<1>2. pc[t] # "idle" => c \in Calls /\ core = "up"
  BY <1>0, <1>1, CallOf
<1>3. \A k \in Calls : k[1] \in Task /\ k[2] \in Nat
  BY CallParts
<1>4. c[1] = t /\ c[2] = att[t] /\ att[t] \in Nat
  BY <1>0, <1>1 DEF Call, TasksTyped
<1>5. att \in [Task -> Nat] /\ pc = [k \in Task |-> pc[k]]
  BY <1>1 DEF TasksTyped
<1>6. ASSUME att' = att, pc' = [pc EXCEPT ![t] = pc'[t]],
             ~NotYet(t)' \/ NotYet(t)
      PROVE  \A k \in Calls : Spent(k) => Spent(k)'
  BY <1>3, <1>5, <1>6 DEF Spent, NotYet
<1>7. ASSUME UNCHANGED <<segs, live, arch, archived, broken>>
      PROVE  Writes({}, {})
  BY <1>7 DEF Writes
<1>8. CASE Claim(t)
  <2>1. \A k \in Calls : Spent(k) => Spent(k)'
    BY <1>3, <1>5, <1>8 DEF Spent, NotYet, Claim, Goes
  <2>2. UNCHANGED <<segs, live, arch, archived, broken, core, fresh, uncertain, accounted>>
        /\ core = "up"
    BY <1>8 DEF Claim
  <2> QED
    BY <1>7, <2>1, <2>2 DEF TaskStep
<1>9. CASE LogClaim(t)
  <2>1. UNCHANGED <<arch, archived, broken, core, fresh, uncertain, accounted>>
        /\ pc[t] = "claimed"
    BY <1>9 DEF LogClaim
  <2>2. \A k \in Calls : Spent(k) => Spent(k)'
    BY <1>3, <1>5, <1>9 DEF Spent, NotYet, LogClaim, Goes, Ended
  <2>3. Writes({}, {})
    <3>1. CASE Accepts
      <4>1. Record(g, [l EXCEPT !.active = @ \cup {c}])
        BY <1>0, <1>9, <3>1 DEF LogClaim
      <4>2. /\ [l EXCEPT !.active = @ \cup {c}] \in Log /\ l \in Log
        BY <1>1, <1>2, <2>1, LiveLogTyped
      <4> HIDE DEF l
      <4> DEFINE m == [l EXCEPT !.active = @ \cup {c}]
      <4>3. m.asked = l.asked /\ m.unknown = l.unknown /\ m \in Log /\ Record(g, m)
        BY <4>1, <4>2, LinesSay
      <4> HIDE DEF m
      <4> QED
        BY <1>1, <2>1, <3>1, <4>3, RecordWrites DEF l
    <3>2. CASE ~Accepts
      BY <1>7, <1>9, <2>1, <3>2 DEF LogClaim
    <3> QED
      BY <3>1, <3>2
  <2> QED
    BY <1>1, <1>2, <2>1, <2>2, <2>3 DEF TaskStep
<1>10. CASE Ask(t)
  <2>1. UNCHANGED <<arch, archived, broken, core, uncertain, accounted, att>>
        /\ pc[t] = "working"
    BY <1>10 DEF Ask
  <2>2. \A k \in Calls : Spent(k) => Spent(k)'
    BY <1>3, <1>5, <1>10 DEF Spent, NotYet, Ask, Goes, PutOff, Ended
  <2>3. CASE Accepts
    <3>1. Record(g, [l EXCEPT !.asked = @ \cup {c}])
      BY <1>0, <1>10, <2>3 DEF Ask
    <3>2. /\ [l EXCEPT !.asked = @ \cup {c}] \in Log /\ l \in Log
      BY <1>1, <1>2, <2>1, LiveLogTyped
    <3>3. Writes({c}, {})
      <4> HIDE DEF l
      <4> DEFINE m == [l EXCEPT !.asked = @ \cup {c}]
      <4>1. m.asked = l.asked \cup {c} /\ m.unknown = l.unknown /\ m \in Log /\ Record(g, m)
        BY <3>1, <3>2, LinesSay
      <4> HIDE DEF m
      <4> QED
        BY <1>1, <2>1, <2>3, <4>1, RecordWrites DEF l
    <3>4. fresh' = fresh \cup {c} /\ ~uncertain
      BY <1>0, <1>10, <2>3 DEF Ask, Accepts
    <3>5. ~Spent(c) /\ Spent(c)'
      <4>1. att'[t] = att[t] /\ pc'[t] = "asked"
        BY <1>5, <1>10, <2>1, <2>3 DEF Ask, Goes
      <4> QED
        BY <1>4, <2>1, <4>1 DEF Spent, NotYet
    <3> QED
      BY <1>2, <2>1, <2>2, <3>3, <3>4, <3>5 DEF TaskStep
  <2>4. CASE ~Accepts
    <3>1. UNCHANGED <<segs, live, fresh>>
      BY <1>10, <2>4 DEF Ask, PutOff
    <3> QED
      BY <1>2, <1>7, <2>1, <2>2, <3>1 DEF TaskStep
  <2> QED
    BY <2>3, <2>4
<1>11. CASE Answer(t)
  <2>1. UNCHANGED <<arch, archived, broken, core, fresh, uncertain, accounted, att>>
        /\ pc[t] = "asked"
    BY <1>11 DEF Answer
  <2>2. \A k \in Calls : Spent(k) => Spent(k)'
    BY <1>3, <1>5, <1>11 DEF Spent, NotYet, Answer, Goes, PutOff, Ended
  <2>3. Writes({}, {})
    <3>1. CASE Accepts
      <4>1. Record(g, [l EXCEPT !.ended = @ \cup {c}])
        BY <1>0, <1>11, <3>1 DEF Answer
      <4>2. /\ [l EXCEPT !.ended = @ \cup {c}] \in Log /\ l \in Log
        BY <1>1, <1>2, <2>1, LiveLogTyped
      <4> HIDE DEF l
      <4> DEFINE m == [l EXCEPT !.ended = @ \cup {c}]
      <4>3. m.asked = l.asked /\ m.unknown = l.unknown /\ m \in Log /\ Record(g, m)
        BY <4>1, <4>2, LinesSay
      <4> HIDE DEF m
      <4> QED
        BY <1>1, <2>1, <3>1, <4>3, RecordWrites DEF l
    <3>2. CASE ~Accepts
      BY <1>7, <1>11, <2>1, <3>2 DEF Answer, PutOff
    <3> QED
      BY <3>1, <3>2
  <2> QED
    BY <1>2, <2>1, <2>2, <2>3 DEF TaskStep
<1>12. CASE Account(t)
  <2>1. UNCHANGED <<segs, live, arch, archived, broken, core, fresh, uncertain, att>>
        /\ pc[t] = "answered" /\ accounted \subseteq accounted'
    BY <1>12 DEF Account
  <2>2. \A k \in Calls : Spent(k) => Spent(k)'
    BY <1>3, <1>5, <1>12 DEF Spent, NotYet, Account, Goes
  <2> QED
    BY <1>2, <1>7, <2>1, <2>2 DEF TaskStep
<1>13. CASE Commit(t)
  <2>1. UNCHANGED <<live, arch, archived, broken, core, fresh, uncertain, att>>
        /\ pc[t] # "idle" /\ accounted \subseteq accounted'
    BY <1>13 DEF Commit
  <2>2. \A k \in Calls : Spent(k) => Spent(k)'
    BY <1>3, <1>5, <1>13 DEF Spent, NotYet, Commit, Goes
  <2>3. Writes({}, {})
    <3>1. CASE live[g] = 0
      BY <1>7, <1>13, <2>1, <3>1 DEF Commit
    <3>2. CASE live[g] # 0
      <4>1. segs' = [segs EXCEPT ![live[g]].done = TRUE]
        BY <1>13, <3>2 DEF Commit
      <4>2. live[g] \in Segs /\ segs \in Seq(Segment)
        BY <1>1, <3>2 DEF FilesTyped
      <4>3. Changed(live[g]) /\ Kept(live[g], {})
        BY <4>1, <4>2, DoneChange
      <4> QED
        BY <2>1, <4>2, <4>3 DEF Writes
    <3> QED
      BY <3>1, <3>2
  <2> QED
    BY <1>2, <2>1, <2>2, <2>3 DEF TaskStep
<1>14. ASSUME pc[t] # "idle", CloseAttempt(t), Accepts, UNCHANGED <<arch, archived, broken>>
       PROVE  Writes({}, {})
  <2>1. Record(g, [l EXCEPT !.active = @ \ {c}])
    BY <1>0, <1>14 DEF CloseAttempt
  <2>2. /\ [l EXCEPT !.active = @ \ {c}] \in Log /\ l \in Log
    BY <1>1, <1>2, <1>14, LiveLogTyped
  <2> HIDE DEF l
  <2> DEFINE m == [l EXCEPT !.active = @ \ {c}]
  <2>3. m.asked = l.asked /\ m.unknown = l.unknown /\ m \in Log /\ Record(g, m)
    BY <2>1, <2>2, LinesSay
  <2> HIDE DEF m
  <2> QED
    BY <1>1, <1>14, <2>3, RecordWrites DEF l
<1>15. CASE LogResult(t)
  <2>1. UNCHANGED <<arch, archived, broken, core, fresh, uncertain, accounted, att>>
        /\ pc[t] = "result"
    BY <1>15 DEF LogResult
  <2>2. \A k \in Calls : Spent(k) => Spent(k)'
    BY <1>3, <1>5, <1>15 DEF Spent, NotYet, LogResult, Goes
  <2>3. Writes({}, {})
    BY <1>7, <1>14, <1>15, <2>1 DEF LogResult
  <2> QED
    BY <1>2, <2>1, <2>2, <2>3 DEF TaskStep
<1>16. CASE Fail(t)
  <2>1. UNCHANGED <<arch, archived, broken, core, fresh, uncertain, accounted, att>>
        /\ pc[t] # "idle"
    BY <1>16 DEF Fail
  <2>2. \A k \in Calls : Spent(k) => Spent(k)'
    BY <1>3, <1>5, <1>16 DEF Spent, NotYet, Fail, PutOff, Ended
  <2>3. Writes({}, {})
    BY <1>7, <1>14, <1>16, <2>1 DEF Fail, PutOff
  <2> QED
    BY <1>2, <2>1, <2>2, <2>3 DEF TaskStep
<1>17. CASE Drop(t)
  <2>1. UNCHANGED <<arch, archived, broken, core, fresh, accounted, att>>
        /\ pc[t] # "idle" /\ pc' = [pc EXCEPT ![t] = "idle"]
    BY <1>17 DEF Drop, Ended
  <2>2. \A k \in Calls : Spent(k) => Spent(k)'
    BY <1>3, <1>5, <2>1 DEF Spent, NotYet
  <2>3. CASE pc[t] = "asked" /\ Accepts
    <3>1. Record(g, [l EXCEPT !.unknown = @ \cup {c}]) /\ uncertain'
      BY <1>0, <1>17, <2>3 DEF Drop
    <3>2. /\ [l EXCEPT !.unknown = @ \cup {c}] \in Log /\ l \in Log
      BY <1>1, <1>2, <2>1, LiveLogTyped
    <3>3. Writes({}, {c})
      <4> HIDE DEF l
      <4> DEFINE m == [l EXCEPT !.unknown = @ \cup {c}]
      <4>1. m.asked = l.asked /\ m.unknown = l.unknown \cup {c} /\ m \in Log /\ Record(g, m)
        BY <3>1, <3>2, LinesSay
      <4> HIDE DEF m
      <4> QED
        BY <1>1, <2>1, <2>3, <4>1, RecordWrites DEF l
    <3>4. Spent(c)'
      <4>1. att'[t] = att[t] /\ pc'[t] = "idle"
        BY <1>5, <2>1
      <4> QED
        BY <1>4, <4>1 DEF Spent, NotYet
    <3> QED
      BY <1>2, <2>1, <2>2, <3>1, <3>3, <3>4 DEF TaskStep
  <2>4. CASE ~(pc[t] = "asked" /\ Accepts)
    <3>1. UNCHANGED <<segs, live, uncertain>>
      BY <1>17, <2>4 DEF Drop
    <3> QED
      BY <1>2, <1>7, <2>1, <2>2, <3>1 DEF TaskStep
  <2> QED
    BY <2>3, <2>4
<1> QED
  BY <1>8, <1>9, <1>10, <1>11, <1>12, <1>13, <1>15, <1>16, <1>17 DEF TaskMoves
----
\* The steps of an archive.

\* The archive goes on; of its segment, F changes.
Moves(to, F) ==
  /\ arch.seg \in Segs /\ arch' \in [pc : Steps, seg : Nat]
  /\ arch'.pc = to /\ arch'.seg = arch.seg
  /\ Changed(arch.seg) /\ Kept(arch.seg, F)

\* A step only moves the archive on.
LEMMA ArchivingMoves ==
  ASSUME FilesTyped, NEW to \in Steps, arch' = [arch EXCEPT !.pc = to]
  PROVE  arch' \in [pc : Steps, seg : Nat] /\ arch'.pc = to /\ arch'.seg = arch.seg
  BY DEF FilesTyped

\* The segment under way exists.
LEMMA UnderWay ==
  ASSUME FilesTyped, arch.pc # "idle"
  PROVE  /\ arch.seg \in Segs /\ segs \in Seq(Segment)
         /\ segs[arch.seg] \in Segment /\ segs[arch.seg].stage \in Stage
         /\ segs[arch.seg].log \in Log /\ segs[arch.seg].prev \in Nat
<1>1. arch.seg \in Segs /\ segs \in Seq(Segment)
  BY DEF FilesTyped
<1>2. segs[arch.seg] \in Segment
  BY <1>1, ElementOfSeq DEF Segs
<1> QED
  BY <1>1, <1>2 DEF Segment

\* seal_segment starts its ZIP only when the log is complete.
LEMMA SealStep ==
  ASSUME FilesTyped, Seal
  PROVE  /\ arch.pc = "chosen"
         /\ \/ arch' = Idle /\ UNCHANGED segs /\ (broken' = broken \/ broken' = TRUE)
            \/ /\ ~broken /\ ~Incomplete(arch.seg) /\ UNCHANGED broken
               /\ Moves("temp", {"tmp"}) /\ segs'[arch.seg].tmp = "torn"
<1> DEFINE s == arch.seg
<1>1. arch.pc = "chosen" /\ s \in Segs /\ segs \in Seq(Segment)
  BY UnderWay DEF Seal
<1>2. CASE broken \/ Incomplete(s)
  BY <1>1, <1>2 DEF Seal
<1>3. CASE ~broken /\ ~Incomplete(s)
  <2>1. segs' = [segs EXCEPT ![s].tmp = "torn"] /\ UNCHANGED broken
        /\ arch' = [arch EXCEPT !.pc = "temp"]
    BY <1>3 DEF Seal
  <2>2. Changed(s) /\ Kept(s, {"tmp"}) /\ segs'[s].tmp = "torn"
    BY <1>1, <2>1, TemporaryChange
  <2>3. Moves("temp", {"tmp"})
    BY <1>1, <2>1, <2>2, ArchivingMoves DEF Moves, Steps, Locked
  <2> QED
    BY <1>1, <1>3, <2>1, <2>2, <2>3
<1> QED
  BY <1>2, <1>3

\* What a restarted Core seals has nothing left to mark.
LEMMA SealInterruptedStep ==
  ASSUME FilesTyped, SealInterrupted
  PROVE  /\ arch.pc = "mark" /\ Pending(arch.seg) = {} /\ ToReconcile(arch.seg) = {}
         /\ Moves("temp", {"tmp"}) /\ segs'[arch.seg].tmp = "torn"
<1> DEFINE s == arch.seg
<1>1. arch.pc = "mark" /\ s \in Segs /\ segs \in Seq(Segment)
  BY UnderWay DEF SealInterrupted, Archiving
<1>2. segs' = [segs EXCEPT ![s].tmp = "torn"] /\ arch' = [arch EXCEPT !.pc = "temp"]
  BY DEF SealInterrupted, Archiving
<1>3. Changed(s) /\ Kept(s, {"tmp"}) /\ segs'[s].tmp = "torn"
  BY <1>1, <1>2, TemporaryChange
<1>4. Moves("temp", {"tmp"})
  BY <1>1, <1>2, <1>3, ArchivingMoves DEF Moves, Steps, Locked
<1> QED
  BY <1>1, <1>3, <1>4 DEF SealInterrupted

\* The ZIP is written from the lines that are there.
LEMMA WriteZipStep ==
  ASSUME FilesTyped, WriteZip
  PROVE  /\ arch.pc = "temp" /\ Moves("whole", {"tmp", "frozen"})
         /\ segs'[arch.seg].tmp = "whole" /\ segs'[arch.seg].frozen = segs[arch.seg].log
         /\ segs'[arch.seg].before = segs[arch.seg].prev
<1> DEFINE s == arch.seg
<1>1. /\ arch.pc = "temp" /\ s \in Segs /\ segs \in Seq(Segment)
      /\ segs[s].log \in Log /\ segs[s].prev \in Nat
  BY UnderWay DEF WriteZip, Archiving
<1>2. arch' = [arch EXCEPT !.pc = "whole"]
  BY DEF WriteZip, Archiving
<1> DEFINE l == segs[s].log
           v == segs[s].prev
           r == [segs[s] EXCEPT !.tmp = "whole", !.frozen = l, !.before = v]
<1>3. segs' = [segs EXCEPT ![s] = r]
  BY DEF WriteZip
<1>4. segs[s] \in Segment
  BY <1>1, UnderWay
<1> HIDE DEF l, v
<1>5. r \in Segment
  BY <1>1, <1>4, Zenon DEF Segment, l, v
<1>6. /\ r.tmp = "whole" /\ r.frozen = l /\ r.before = v
      /\ r.stage = segs[s].stage /\ r.prev = segs[s].prev /\ r.log = segs[s].log
      /\ r.src = segs[s].src /\ r.zip = segs[s].zip
  BY <1>4 DEF Segment
<1> HIDE DEF r
<1>7. Changed(s) /\ segs'[s] = r
  BY <1>1, <1>3, <1>5, SegmentChange
<1>8. Moves("whole", {"tmp", "frozen"})
  BY <1>1, <1>2, <1>6, <1>7, ArchivingMoves DEF Moves, Kept, Steps, Locked
<1> QED
  BY <1>1, <1>6, <1>7, <1>8 DEF l, v

\* The ZIP appears under its name.
LEMMA LinkZipStep ==
  ASSUME FilesTyped, LinkZip
  PROVE  arch.pc = "whole" /\ Moves("linked", {"zip"}) /\ segs'[arch.seg].zip
<1> DEFINE s == arch.seg
<1>1. arch.pc = "whole" /\ s \in Segs /\ segs \in Seq(Segment)
  BY UnderWay DEF LinkZip, Archiving
<1>2. segs' = [segs EXCEPT ![s].zip = TRUE] /\ arch' = [arch EXCEPT !.pc = "linked"]
  BY DEF LinkZip, Archiving
<1>3. Changed(s) /\ Kept(s, {"zip"}) /\ segs'[s].zip
  BY <1>1, <1>2, ZipChange
<1> QED
  BY <1>1, <1>2, <1>3, ArchivingMoves DEF Moves, Steps, Locked

\* The logger lets go of the segment.
LEMMA RemoveTemporaryStep ==
  ASSUME FilesTyped, RemoveTemporary
  PROVE  /\ arch.pc = "linked" /\ Moves("sealed", {"tmp"})
         /\ segs'[arch.seg].tmp = "none"
         /\ live' \in [Stage -> Nat]
         /\ \A g \in Stage : live'[g] # 0 => live'[g] = live[g] /\ live[g] # arch.seg
<1> DEFINE s == arch.seg
<1>1. arch.pc = "linked" /\ s \in Segs /\ segs \in Seq(Segment)
  BY UnderWay DEF RemoveTemporary, Archiving
<1>2. segs' = [segs EXCEPT ![s].tmp = "none"] /\ arch' = [arch EXCEPT !.pc = "sealed"]
  BY DEF RemoveTemporary, Archiving
<1>3. Changed(s) /\ Kept(s, {"tmp"}) /\ segs'[s].tmp = "none"
  BY <1>1, <1>2, TemporaryChange
<1>4. /\ live' \in [Stage -> Nat]
      /\ \A g \in Stage : live'[g] # 0 => live'[g] = live[g] /\ live[g] # arch.seg
  BY DEF RemoveTemporary, FilesTyped
<1> QED
  BY <1>1, <1>2, <1>3, <1>4, ArchivingMoves DEF Moves, Steps

\* A plaintext goes.
LEMMA CleanStep ==
  ASSUME FilesTyped, Clean
  PROVE  /\ arch.pc = (IF core = "recovering" THEN "settled" ELSE "archived")
         /\ arch.seg \in Segs /\ arch' = Idle
         /\ Changed(arch.seg) /\ Kept(arch.seg, {"src"}) /\ segs'[arch.seg].src = "gone"
<1> DEFINE s == arch.seg
<1>1. s \in Segs /\ segs \in Seq(Segment)
      /\ arch.pc = (IF core = "recovering" THEN "settled" ELSE "archived")
  BY UnderWay DEF Clean
<1>2. segs' = [segs EXCEPT ![s].src = "gone"] /\ arch' = Idle
  BY DEF Clean
<1>3. Changed(s) /\ Kept(s, {"src"}) /\ segs'[s].src = "gone"
  BY <1>1, <1>2, SourceChange
<1> QED
  BY <1>1, <1>2, <1>3

\* A call of unknown outcome is marked; nothing is asked.
LEMMA MarkStep ==
  ASSUME FilesTyped, NEW c \in Calls, Mark(c)
  PROVE  /\ arch.pc = "mark" /\ Moves("mark", {"log"}) /\ UNCHANGED arch
         /\ segs'[arch.seg].log.asked = segs[arch.seg].log.asked
         /\ \/ segs'[arch.seg].log.unknown = segs[arch.seg].log.unknown
            \/ /\ c \in segs[arch.seg].log.asked
               /\ segs'[arch.seg].log.unknown = segs[arch.seg].log.unknown \cup {c}
<1> DEFINE s == arch.seg
           l == segs[s].log
<1>1. arch.pc = "mark" /\ s \in Segs /\ segs \in Seq(Segment) /\ l \in Log
  BY UnderWay DEF Mark
<1>2. UNCHANGED arch /\ arch \in [pc : Steps, seg : Nat]
  BY DEF Mark, memory, FilesTyped
<1>3. CASE c \in Pending(s) /\ segs' = [segs EXCEPT ![s].log.unknown = @ \cup {c}]
  <2> DEFINE m == [l EXCEPT !.unknown = @ \cup {c}]
  <2>1. segs' = [segs EXCEPT ![s].log = m]
    BY <1>3
  <2>2. c \in l.asked
    BY <1>3 DEF Pending
  <2> HIDE DEF l
  <2>3. m \in Log
    <3>1. l.unknown \cup {c} \subseteq Calls
      BY <1>1 DEF Log
    <3> QED
      BY <1>1, <3>1, Zenon DEF Log
  <2>4. m.asked = l.asked /\ m.unknown = l.unknown \cup {c}
    BY <1>1 DEF Log
  <2> HIDE DEF m
  <2>5. Changed(s) /\ Kept(s, {"log"}) /\ segs'[s].log = m
    BY <1>1, <2>1, <2>3, LogChange
  <2> QED
    BY <1>1, <1>2, <2>2, <2>4, <2>5 DEF Moves, l
<1>4. CASE segs' = [segs EXCEPT ![s].log.unreconciled = @ \cup {c}]
  <2> DEFINE m == [l EXCEPT !.unreconciled = @ \cup {c}]
  <2>1. segs' = [segs EXCEPT ![s].log = m]
    BY <1>4
  <2> HIDE DEF l
  <2>2. m \in Log
    <3>1. l.unreconciled \cup {c} \subseteq Calls
      BY <1>1 DEF Log
    <3> QED
      BY <1>1, <3>1, Zenon DEF Log
  <2>3. m.asked = l.asked /\ m.unknown = l.unknown
    BY <1>1 DEF Log
  <2> HIDE DEF m
  <2>4. Changed(s) /\ Kept(s, {"log"}) /\ segs'[s].log = m
    BY <1>1, <2>1, <2>2, LogChange
  <2> QED
    BY <1>1, <1>2, <2>3, <2>4 DEF Moves, l
<1> QED
  BY <1>3, <1>4 DEF Mark

\* The file is torn for the stage that writes it, and the log is unavailable.
LEMMA LoseLogStep ==
  ASSUME FilesTyped, LoseLog
  PROVE  /\ ~broken /\ broken' = TRUE /\ NotSealing /\ core' = core
         /\ UNCHANGED <<live, arch, archived>>
         /\ \/ UNCHANGED segs
            \/ \E g \in Stage : /\ live[g] \in Segs /\ Changed(live[g])
                                /\ Kept(live[g], {"src"}) /\ segs'[live[g]].src = "torn"
<1>1. /\ ~broken /\ broken' = TRUE /\ NotSealing /\ core' = core
      /\ UNCHANGED <<live, arch, archived>>
  BY DEF LoseLog, store
<1>2. ASSUME NEW g \in Stage, live[g] # 0,
             segs' = [segs EXCEPT ![live[g]].src = "torn"]
      PROVE  /\ live[g] \in Segs /\ Changed(live[g])
             /\ Kept(live[g], {"src"}) /\ segs'[live[g]].src = "torn"
  <2>1. live[g] \in Segs /\ segs \in Seq(Segment)
    BY <1>2 DEF FilesTyped
  <2> QED
    BY <1>2, <2>1, SourceChange
<1> QED
  BY <1>1, <1>2 DEF LoseLog

\* A Core that dies may leave a part of a line where it was writing.
LEMMA CrashStep ==
  ASSUME FilesTyped, Crash
  PROVE  /\ core' = "down" /\ broken' = FALSE /\ arch' = Idle /\ fresh' = {}
         /\ live' = [g \in Stage |-> 0] /\ pc' = [t \in Task |-> "idle"]
         /\ UNCHANGED <<archived, att, accounted>>
         /\ \/ UNCHANGED segs
            \/ \E s \in Segs :
                 /\ \/ arch.pc = "mark" /\ arch.seg = s
                    \/ NotSealing /\ ~broken /\ \E g \in Stage : live[g] = s
                 /\ Changed(s) /\ Kept(s, {"src"}) /\ segs'[s].src = "torn"
<1>1. /\ core' = "down" /\ broken' = FALSE /\ arch' = Idle /\ fresh' = {}
      /\ live' = [g \in Stage |-> 0] /\ pc' = [t \in Task |-> "idle"]
      /\ UNCHANGED <<archived, att, accounted>>
  BY DEF Crash, Forget
<1>2. segs \in Seq(Segment) /\ DOMAIN segs = Segs
  BY LenProperties DEF FilesTyped, Segs
<1>3. ASSUME NEW s \in Segs, segs' = [segs EXCEPT ![s].src = "torn"]
      PROVE  Changed(s) /\ Kept(s, {"src"}) /\ segs'[s].src = "torn"
  BY <1>2, <1>3, SourceChange
<1> QED
  BY <1>1, <1>2, <1>3 DEF Crash

\* What a restarted Core does with a segment it finds.
LEMMA InspectStep ==
  ASSUME FilesTyped, NEW s \in DOMAIN segs, Inspect(s)
  PROVE  /\ s \in Segs /\ core = "recovering" /\ arch = Idle
         /\ \A g \in Stage : live[g] # s
         /\ UNCHANGED <<broken, uncertain, live, pc, fresh, store>>
         /\ \/ core' = "refused" /\ UNCHANGED <<arch, segs>>
            \/ /\ core' = core /\ UNCHANGED segs /\ segs[s].src = "whole"
               /\ segs[s].frozen = segs[s].log
               /\ \/ segs[s].zip /\ arch' = [pc |-> "sealed", seg |-> s]
                  \/ /\ ~segs[s].zip /\ segs[s].tmp = "whole"
                     /\ arch' = [pc |-> "whole", seg |-> s]
            \/ /\ core' = core /\ ~segs[s].zip /\ segs[s].src = "whole"
               /\ Changed(s) /\ Kept(s, {"prev"})
               /\ segs'[s].prev = PreviousArchive(segs[s].stage)
               /\ arch' = [pc |-> "mark", seg |-> s]
<1>1. segs \in Seq(Segment) /\ s \in Segs
  BY LenProperties DEF FilesTyped, Segs
<1>2. segs[s] \in Segment
  BY <1>1, ElementOfSeq DEF Segs
<1>3. /\ core = "recovering" /\ arch = Idle /\ s \in Orphans
      /\ UNCHANGED <<broken, uncertain, live, pc, fresh, store>>
  BY DEF Inspect
<1>4. segs[s].src # "gone" /\ \A g \in Stage : live[g] # s
  BY <1>3 DEF Orphans
<1>5. segs[s].stage \in Stage /\ segs[s].src \in {"whole", "torn"} /\ segs[s].zip \in BOOLEAN
      /\ segs[s].tmp \in {"none", "torn", "whole"}
  BY <1>2, <1>4 DEF Segment
<1>6. CASE segs[s].src = "torn"
  BY <1>1, <1>3, <1>4, <1>6 DEF Inspect, Refuse
<1>7. CASE segs[s].src = "whole" /\ segs[s].zip
  BY <1>1, <1>3, <1>4, <1>7 DEF Inspect, Refuse, Verifies
<1>8. CASE segs[s].src = "whole" /\ ~segs[s].zip /\ segs[s].tmp # "none"
  BY <1>1, <1>3, <1>4, <1>8 DEF Inspect, Refuse, Verifies
<1>9. CASE segs[s].src = "whole" /\ ~segs[s].zip /\ segs[s].tmp = "none"
  <2>1. /\ arch' = [pc |-> "mark", seg |-> s] /\ core' = core
        /\ segs' = [segs EXCEPT ![s].prev = PreviousArchive(segs[s].stage)]
    BY <1>9 DEF Inspect
  <2>2. PreviousArchive(segs[s].stage) \in Nat
    BY <1>5, PreviousIsArchive
  <2>3. Changed(s) /\ Kept(s, {"prev"}) /\ segs'[s].prev = PreviousArchive(segs[s].stage)
    BY <1>1, <2>1, <2>2, PreviousChange
  <2> QED
    BY <1>1, <1>3, <1>4, <1>9, <2>1, <2>3
<1> QED
  BY <1>5, <1>6, <1>7, <1>8, <1>9

\* The required log of T0 is opened, or the Core refuses to start.
LEMMA OpenRequiredStep ==
  ASSUME RunLogAssumption, FilesTyped, OpenRequired
  PROVE  /\ core = "recovering" /\ arch = Idle
         /\ UNCHANGED <<fresh, uncertain, pc, att, accounted>>
         /\ Writes({}, {}) /\ (core' = core \/ core' = "refused")
<1>1. /\ core = "recovering" /\ arch = Idle /\ Decision \in Stage
      /\ UNCHANGED <<fresh, uncertain, pc, att, accounted, arch, broken, archived>>
  BY DEF OpenRequired, RunLogAssumption
<1>2. CASE Accepts
  <2>1. Record(Decision, LiveLog(Decision)) /\ core' = core
    BY <1>2 DEF OpenRequired
  <2>2. LiveLog(Decision) \in Log
    <3>1. CASE live[Decision] = 0
      BY <3>1 DEF LiveLog, NoLog, Log
    <3>2. CASE live[Decision] # 0
      <4>1. segs[live[Decision]] \in Segment
        BY <1>1, <3>2, ElementOfSeq DEF FilesTyped, Segs
      <4> QED
        BY <3>2, <4>1 DEF LiveLog, Segment
    <3> QED
      BY <3>1, <3>2
  <2>3. Writes({}, {})
    BY <1>1, <1>2, <2>1, <2>2, RecordWrites
  <2> QED
    BY <1>1, <2>1, <2>3
<1>3. CASE ~Accepts
  BY <1>1, <1>3 DEF OpenRequired, Writes
<1> QED
  BY <1>2, <1>3

\* A confirmed archive is the last of its stage.
LEMMA RecordArchivedStep ==
  ASSUME FilesTyped, RecordArchived
  PROVE  LET g == segs[arch.seg].stage
         IN  /\ arch.pc = "sealed" /\ arch.seg \in Segs /\ g \in Stage
             /\ UNCHANGED <<segs, live, core, broken>>
             /\ arch' \in [pc : Steps, seg : Nat]
             /\ arch'.pc = "archived" /\ arch'.seg = arch.seg
             /\ archived' = [archived EXCEPT ![g] = archived'[g]]
             /\ \/ Confirmed(arch.seg) /\ core = "recovering" /\ archived' = archived
                \/ /\ Confirmed(arch.seg) => core # "recovering"
                   /\ archived'[g] = Append(archived[g], arch.seg)
<1> DEFINE g == segs[arch.seg].stage
<1>1. arch.pc = "sealed" /\ arch.seg \in Segs /\ g \in Stage
  BY UnderWay DEF RecordArchived, Archiving
<1>2. arch' = [arch EXCEPT !.pc = "archived"] /\ UNCHANGED <<segs, live, core, broken>>
  BY DEF RecordArchived, Archiving
<1>3. arch' \in [pc : Steps, seg : Nat] /\ arch'.pc = "archived" /\ arch'.seg = arch.seg
  BY <1>2, ArchivingMoves DEF Steps
<1>4. archived' = [archived EXCEPT ![g] =
                     IF core = "recovering" /\ arch.seg \in Range(archived[g]) THEN archived[g]
                     ELSE Append(archived[g], arch.seg)]
  BY DEF RecordArchived
<1>5. archived \in [Stage -> Seq(Nat)]
  BY DEF FilesTyped
<1> HIDE DEF g
<1>6. CASE core = "recovering" /\ arch.seg \in Range(archived[g])
  <2>1. archived' = [archived EXCEPT ![g] = archived[g]]
    BY <1>4, <1>6
  <2>2. archived' = archived
    BY <1>1, <1>5, <2>1
  <2> QED
    BY <1>1, <1>2, <1>3, <1>5, <1>6, <2>2 DEF g, Confirmed
<1>7. CASE ~(core = "recovering" /\ arch.seg \in Range(archived[g]))
  <2>1. archived' = [archived EXCEPT ![g] = Append(archived[g], arch.seg)]
    BY <1>4, <1>7
  <2>2. archived'[g] = Append(archived[g], arch.seg)
    BY <1>1, <1>5, <2>1
  <2> QED
    BY <1>1, <1>2, <1>3, <1>5, <1>7, <2>1, <2>2 DEF g, Confirmed
<1> QED
  BY <1>6, <1>7
----
\* Every variable has its type.

\* The segments that there are keep their stages.
LEMMA FilesTypedKept ==
  ASSUME FilesTyped, segs' \in Seq(Segment), Len(segs) <= Len(segs'),
         \A i \in Segs : segs'[i].stage = segs[i].stage,
         broken' \in BOOLEAN, UNCHANGED archived,
         live' \in [Stage -> Nat],
         \A g \in Stage : live'[g] # 0 =>
           live'[g] = live[g] \/ (live'[g] \in Segs' /\ segs'[live'[g]].stage = g),
         arch' = Idle \/ /\ arch' \in [pc : Steps, seg : Nat] /\ arch'.pc # "idle"
                         /\ arch'.seg \in Segs
  PROVE  FilesTyped'
<1>1. Len(segs) \in Nat /\ Len(segs') \in Nat
  BY LenProperties DEF FilesTyped
<1>2. Segs \subseteq Segs'
  BY <1>1 DEF Segs
<1>3. \A g \in Stage : live'[g] # 0 => live'[g] \in Segs' /\ segs'[live'[g]].stage = g
  BY <1>2 DEF FilesTyped
<1>4. \A g \in Stage : \A i \in 1 .. Len(archived'[g]) : archived'[g][i] \in Segs'
  BY <1>2 DEF FilesTyped
<1>5. /\ arch' \in [pc : Steps, seg : Nat]
      /\ arch'.pc # "idle" => arch'.seg \in Segs'
      /\ arch'.pc = "idle" => arch' = Idle
  BY <1>2 DEF Idle, Steps
<1>6. archived' \in [Stage -> Seq(Nat)]
  BY DEF FilesTyped
<1> QED
  BY <1>3, <1>4, <1>5, <1>6 DEF FilesTyped

\* A change of one segment that leaves its stage.
LEMMA ChangedTyped ==
  ASSUME FilesTyped, NEW s \in Segs, Changed(s), segs'[s].stage = segs[s].stage,
         broken' \in BOOLEAN, UNCHANGED archived,
         live' \in [Stage -> Nat],
         \A g \in Stage : live'[g] # 0 => live'[g] = live[g],
         arch' = Idle \/ /\ arch' \in [pc : Steps, seg : Nat] /\ arch'.pc # "idle"
                         /\ arch'.seg \in Segs
  PROVE  FilesTyped'
<1>1. Len(segs) \in Nat
  BY LenProperties DEF FilesTyped
<1>2. segs' \in Seq(Segment) /\ Len(segs) <= Len(segs')
      /\ \A i \in Segs : segs'[i].stage = segs[i].stage
  BY <1>1 DEF Changed
<1> QED
  BY <1>2, FilesTypedKept

\* Lines keep the types of the files.
LEMMA WritesTyped ==
  ASSUME FilesTyped, NEW A, NEW U, Writes(A, U)
  PROVE  FilesTyped'
<1>0. Len(segs) \in Nat /\ segs \in Seq(Segment) /\ live \in [Stage -> Nat]
      /\ broken \in BOOLEAN /\ UNCHANGED <<arch, archived, broken>>
  BY LenProperties DEF FilesTyped, Writes
<1>1. arch' = Idle \/ /\ arch' \in [pc : Steps, seg : Nat] /\ arch'.pc # "idle"
                      /\ arch'.seg \in Segs
  BY <1>0 DEF FilesTyped
<1>2. CASE UNCHANGED <<segs, live>>
  BY <1>0, <1>1, <1>2, FilesTypedKept
<1>3. ASSUME NEW s \in Segs, Changed(s), Kept(s, {}), UNCHANGED live
      PROVE  FilesTyped'
  BY <1>0, <1>1, <1>3, ChangedTyped DEF Kept
<1>4. ASSUME NEW g \in Stage, NEW l \in Log, Opens(g, l)
      PROVE  FilesTyped'
  <2>1. /\ segs' \in Seq(Segment) /\ Len(segs') = Len(segs) + 1
        /\ \A i \in Segs : segs'[i].stage = segs[i].stage
        /\ segs'[Len(segs) + 1].stage = g /\ live' = [live EXCEPT ![g] = Len(segs) + 1]
    BY <1>4 DEF Opens
  <2>2. Len(segs) + 1 \in Segs'
    BY <1>0, <2>1 DEF Segs
  <2>3. live' \in [Stage -> Nat]
    BY <1>0, <2>1
  <2>4. \A h \in Stage : live'[h] # 0 =>
          live'[h] = live[h] \/ (live'[h] \in Segs' /\ segs'[live'[h]].stage = h)
    BY <1>0, <2>1, <2>2
  <2>5. Len(segs) <= Len(segs')
    BY <1>0, <2>1
  <2> QED
    BY <1>0, <1>1, <2>1, <2>3, <2>4, <2>5, FilesTypedKept
<1>5. ASSUME NEW g \in Stage, NEW l \in Log, Extends(g, l)
      PROVE  FilesTyped'
  BY <1>0, <1>1, <1>5, ChangedTyped DEF Extends, Kept
<1> QED
  BY <1>2, <1>3, <1>4, <1>5 DEF Writes

\* A step of an archive keeps the types of the files.
LEMMA MovesTyped ==
  ASSUME FilesTyped, NEW to \in Steps \ {"idle"}, NEW F, Moves(to, F),
         UNCHANGED <<broken, archived>>, live' \in [Stage -> Nat],
         \A g \in Stage : live'[g] # 0 => live'[g] = live[g]
  PROVE  FilesTyped'
<1>1. broken' \in BOOLEAN
  BY DEF FilesTyped
<1>2. arch.seg \in Segs /\ Changed(arch.seg) /\ segs'[arch.seg].stage = segs[arch.seg].stage
  BY DEF Moves, Kept
<1>3. arch' \in [pc : Steps, seg : Nat] /\ arch'.pc # "idle" /\ arch'.seg \in Segs
  BY DEF Moves
<1> QED
  BY <1>1, <1>2, <1>3, ChangedTyped

\* The steps that leave the files alone, perhaps those of memory too.
FilesAlone == UNCHANGED <<segs, broken, archived, live>>

\* So does one that leaves the files alone.
LEMMA FilesAloneTyped ==
  ASSUME FilesTyped, UNCHANGED <<segs, archived>>, broken' \in BOOLEAN,
         live' = live \/ live' = [g \in Stage |-> 0],
         arch' = arch \/ arch' = Idle
           \/ /\ arch' \in [pc : Steps, seg : Nat] /\ arch'.pc # "idle" /\ arch'.seg \in Segs
  PROVE  FilesTyped'
<1>1. Len(segs) \in Nat /\ segs \in Seq(Segment)
  BY LenProperties DEF FilesTyped
<1>2. arch' = Idle \/ /\ arch' \in [pc : Steps, seg : Nat] /\ arch'.pc # "idle"
                      /\ arch'.seg \in Segs
  BY DEF FilesTyped
<1>3. live' \in [Stage -> Nat] /\ \A g \in Stage : live'[g] # 0 => live'[g] = live[g]
  BY DEF FilesTyped
<1> QED
  BY <1>1, <1>2, <1>3, FilesTypedKept

\* The other steps of the Core: of its archiver, its end and its start.
CoreMoves ==
  \/ LoseLog \/ (\E g \in Stage : Choose(g)) \/ Seal \/ WriteZip \/ LinkZip
  \/ RemoveTemporary \/ RecordArchived \/ Clean \/ ArchiveFails \/ Stop \/ Stopped
  \/ Crash \/ Start \/ (\E s \in DOMAIN segs : Inspect(s)) \/ (\E c \in Calls : Mark(c))
  \/ SealInterrupted \/ RecordBlocked \/ OpenRequired \/ Serve

\* Every step is one of a task or one of the Core.
LEMMA NextMoves ==
  ASSUME Next
  PROVE  (\E t \in Task : TaskMoves(t)) \/ CoreMoves
  BY DEF Next, TaskMoves, CoreMoves

\* A step of the Core keeps the types of the files.
LEMMA CoreMovesFilesTyped ==
  ASSUME RunLogAssumption, FilesTyped, CoreMoves
  PROVE  FilesTyped'
<1>0. /\ Len(segs) \in Nat /\ segs \in Seq(Segment) /\ live \in [Stage -> Nat]
      /\ archived \in [Stage -> Seq(Nat)]
      /\ arch.pc # "idle" => arch.seg \in Segs
      /\ broken \in BOOLEAN
      /\ arch' = arch => arch' = Idle
           \/ /\ arch' \in [pc : Steps, seg : Nat] /\ arch'.pc # "idle" /\ arch'.seg \in Segs
  BY LenProperties DEF FilesTyped
<1>1. CASE LoseLog
  <2>1. /\ broken' = TRUE /\ UNCHANGED <<live, arch, archived>>
        /\ \/ UNCHANGED segs
           \/ \E g \in Stage : /\ live[g] \in Segs /\ Changed(live[g])
                               /\ Kept(live[g], {"src"})
    BY <1>1, LoseLogStep
  <2>2. CASE UNCHANGED segs
    BY <1>0, <2>1, <2>2, FilesTypedKept
  <2>3. ASSUME NEW g \in Stage, live[g] \in Segs, Changed(live[g]), Kept(live[g], {"src"})
        PROVE  FilesTyped'
    BY <1>0, <2>1, <2>3, ChangedTyped DEF Kept
  <2> QED
    BY <2>1, <2>2, <2>3
<1>2. ASSUME NEW g \in Stage, Choose(g) PROVE FilesTyped'
  <2>1. FilesAlone /\ arch' = [pc |-> "chosen", seg |-> live[g]] /\ live[g] \in Segs
    BY <1>2 DEF Choose, store, FilesAlone, FilesTyped
  <2>2. arch' \in [pc : Steps, seg : Nat] /\ arch'.pc # "idle" /\ arch'.seg \in Segs
    BY <2>1 DEF Steps, Segs
  <2> QED
    BY <1>0, <2>1, <2>2, FilesAloneTyped DEF FilesAlone
<1>3. CASE Seal
  <2>1. UNCHANGED <<live, archived>>
    BY <1>3 DEF Seal, store
  <2>2. CASE arch' = Idle /\ UNCHANGED segs /\ (broken' = broken \/ broken' = TRUE)
    <3>1. broken' \in BOOLEAN
      BY <1>0, <2>2
    <3> QED
      BY <2>1, <2>2, <3>1, FilesAloneTyped
  <2>3. CASE UNCHANGED broken /\ Moves("temp", {"tmp"})
    BY <1>0, <2>1, <2>3, MovesTyped DEF Steps, Locked
  <2> QED
    BY <1>3, <2>2, <2>3, SealStep
<1>4. CASE WriteZip
  <2>1. UNCHANGED <<live, archived, broken>>
    BY <1>4 DEF WriteZip, store
  <2> QED
    BY <1>0, <1>4, <2>1, WriteZipStep, MovesTyped DEF Steps, Locked
<1>5. CASE LinkZip
  <2>1. UNCHANGED <<live, archived, broken>>
    BY <1>5 DEF LinkZip, store
  <2> QED
    BY <1>0, <1>5, <2>1, LinkZipStep, MovesTyped DEF Steps, Locked
<1>6. CASE RemoveTemporary
  <2>1. UNCHANGED <<archived, broken>>
    BY <1>6 DEF RemoveTemporary, store
  <2> QED
    BY <1>0, <1>6, <2>1, RemoveTemporaryStep, MovesTyped DEF Steps, Locked
<1>7. CASE RecordArchived
  <2> DEFINE g == segs[arch.seg].stage
  <2>1. /\ arch.seg \in Segs /\ g \in Stage
        /\ UNCHANGED <<segs, live, broken>>
        /\ arch' \in [pc : Steps, seg : Nat] /\ arch'.pc # "idle" /\ arch'.seg = arch.seg
        /\ archived' = [archived EXCEPT ![g] = archived'[g]]
        /\ archived' = archived \/ archived'[g] = Append(archived[g], arch.seg)
    BY <1>7, RecordArchivedStep
  <2>2. CASE archived' = archived
    BY <1>0, <2>1, <2>2, FilesAloneTyped DEF FilesAlone
  <2>3. CASE archived'[g] = Append(archived[g], arch.seg)
    <3> HIDE DEF g
    <3>1. archived[g] \in Seq(Nat) /\ arch.seg \in Nat /\ Len(archived[g]) \in Nat
      BY <1>0, <2>1, LenProperties DEF Segs
    <3>2. /\ archived'[g] \in Seq(Nat) /\ Len(archived'[g]) = Len(archived[g]) + 1
          /\ \A i \in 1 .. Len(archived[g]) : archived'[g][i] = archived[g][i]
          /\ archived'[g][Len(archived[g]) + 1] = arch.seg
      BY <2>3, <3>1, AppendProperties
    <3>3. archived' \in [Stage -> Seq(Nat)]
      BY <1>0, <2>1, <3>2
    <3>4. \A h \in Stage : \A i \in 1 .. Len(archived'[h]) : archived'[h][i] \in Segs'
      <4> TAKE h \in Stage
      <4> TAKE i \in 1 .. Len(archived'[h])
      <4>1. CASE h # g
        BY <1>0, <2>1, <4>1 DEF FilesTyped, Segs
      <4>2. CASE h = g
        <5>1. i \in 1 .. Len(archived[g]) \/ i = Len(archived[g]) + 1
          BY <3>1, <3>2, <4>2
        <5> QED
          BY <2>1, <3>2, <4>2, <5>1 DEF FilesTyped, Segs
      <4> QED
        BY <4>1, <4>2
    <3> QED
      BY <2>1, <3>3, <3>4 DEF FilesTyped, Segs
  <2> QED
    BY <2>1, <2>2, <2>3
<1>8. CASE Clean
  <2>1. UNCHANGED <<live, archived, broken>>
    BY <1>8 DEF Clean, store
  <2> QED
    BY <1>0, <1>8, <2>1, CleanStep, ChangedTyped DEF Kept
<1>9. CASE ArchiveFails
  BY <1>0, <1>9, FilesAloneTyped DEF ArchiveFails, store
<1>10. CASE Stop \/ Start \/ Serve
  BY <1>0, <1>10, FilesAloneTyped DEF Stop, Start, Serve, memory, store, FilesAlone
<1>11. CASE Stopped
  BY <1>0, <1>11, FilesAloneTyped DEF Stopped, Forget, store
<1>12. CASE Crash
  <2>1. /\ broken' = FALSE /\ arch' = Idle /\ live' = [g \in Stage |-> 0]
        /\ UNCHANGED archived
        /\ \/ UNCHANGED segs
           \/ \E s \in Segs : Changed(s) /\ Kept(s, {"src"})
    BY <1>12, CrashStep
  <2>2. live' \in [Stage -> Nat] /\ \A g \in Stage : live'[g] # 0 => FALSE
    BY <2>1
  <2>3. CASE UNCHANGED segs
    BY <1>0, <2>1, <2>2, <2>3, FilesAloneTyped
  <2>4. ASSUME NEW s \in Segs, Changed(s), Kept(s, {"src"})
        PROVE  FilesTyped'
    BY <2>1, <2>2, <2>4, ChangedTyped DEF Kept
  <2> QED
    BY <2>1, <2>3, <2>4
<1>13. ASSUME NEW s \in DOMAIN segs, Inspect(s) PROVE FilesTyped'
  <2>1. /\ s \in Segs /\ arch = Idle
        /\ UNCHANGED <<broken, live, archived>>
        /\ \/ UNCHANGED <<arch, segs>>
           \/ UNCHANGED segs /\ arch' \in {[pc |-> "sealed", seg |-> s], [pc |-> "whole", seg |-> s]}
           \/ Changed(s) /\ Kept(s, {"prev"}) /\ arch' = [pc |-> "mark", seg |-> s]
    BY <1>13, InspectStep DEF store
  <2>2. arch' # arch => /\ arch' \in [pc : Steps, seg : Nat] /\ arch'.pc # "idle"
                        /\ arch'.seg \in Segs
    BY <2>1 DEF Steps, Locked, Segs
  <2>3. CASE UNCHANGED segs
    BY <1>0, <2>1, <2>2, <2>3, FilesAloneTyped DEF FilesAlone
  <2>4. CASE Changed(s) /\ Kept(s, {"prev"}) /\ arch' = [pc |-> "mark", seg |-> s]
    <3>1. /\ arch' \in [pc : Steps, seg : Nat] /\ arch'.pc # "idle" /\ arch'.seg \in Segs
      BY <2>1, <2>4 DEF Steps, Segs
    <3> QED
      BY <1>0, <2>1, <2>4, <3>1, ChangedTyped DEF Kept
  <2> QED
    BY <2>1, <2>3, <2>4
<1>14. ASSUME NEW c \in Calls, Mark(c) PROVE FilesTyped'
  <2>1. UNCHANGED <<live, archived, broken>>
    BY <1>14 DEF Mark, memory, store
  <2> QED
    BY <1>0, <1>14, <2>1, MarkStep, MovesTyped DEF Steps
<1>15. CASE SealInterrupted
  <2>1. UNCHANGED <<live, archived, broken>>
    BY <1>15 DEF SealInterrupted, store
  <2> QED
    BY <1>0, <1>15, <2>1, SealInterruptedStep, MovesTyped DEF Steps, Locked
<1>16. CASE RecordBlocked
  <2>1. FilesAlone /\ arch.pc = "archived" /\ arch' = [arch EXCEPT !.pc = "settled"]
    BY <1>16 DEF RecordBlocked, Archiving, FilesAlone
  <2>2. arch' \in [pc : Steps, seg : Nat] /\ arch'.pc = "settled" /\ arch'.seg = arch.seg
    BY <2>1, ArchivingMoves DEF Steps
  <2> QED
    BY <1>0, <2>1, <2>2, FilesAloneTyped DEF FilesAlone
<1>17. CASE OpenRequired
  BY <1>17, OpenRequiredStep, WritesTyped
<1> QED
  BY <1>1, <1>2, <1>3, <1>4, <1>5, <1>6, <1>7, <1>8, <1>9, <1>10, <1>11, <1>12, <1>13,
     <1>14, <1>15, <1>16, <1>17 DEF CoreMoves

\* The tasks are where they were, or with a Core that died or stopped.
LEMMA CoreMovesTasksTyped ==
  ASSUME RunLogAssumption, Typed, CoreMoves
  PROVE  TasksTyped'
<1>1. CASE LoseLog \/ Stop
  BY <1>1 DEF LoseLog, Stop, memory, store, Typed, TasksTyped
<1>2. CASE (\E g \in Stage : Choose(g)) \/ ArchiveFails
  BY <1>2 DEF Choose, ArchiveFails, store, Typed, TasksTyped
<1>3. CASE Seal \/ WriteZip \/ LinkZip \/ RemoveTemporary \/ Clean \/ SealInterrupted
  BY <1>3 DEF Seal, WriteZip, LinkZip, RemoveTemporary, Clean, SealInterrupted, Archiving,
              store, Typed, TasksTyped
<1>4. CASE RecordArchived
  BY <1>4 DEF RecordArchived, Archiving, Typed, TasksTyped
<1>5. CASE Stopped
  BY <1>5 DEF Stopped, Forget, store, Typed, TasksTyped
<1>6. CASE Crash
  <2>1. /\ core' = "down" /\ uncertain' = FALSE /\ fresh' = {}
        /\ pc' = [t \in Task |-> "idle"] /\ UNCHANGED <<blocked, opened, att, accounted>>
        /\ status' = [t \in Task |-> IF status[t] = "running" THEN Requeued(t) ELSE status[t]]
    BY <1>6 DEF Crash, Forget
  <2>2. status' \in [Task -> {"todo", "running", "done", "failed"}]
    BY <2>1 DEF Requeued, Typed, TasksTyped
  <2> QED
    BY <2>1, <2>2 DEF Typed, TasksTyped
<1>7. CASE Start \/ Serve
  BY <1>7 DEF Start, Serve, memory, store, StoreDoubts, Typed, TasksTyped
<1>8. ASSUME NEW s \in DOMAIN segs, Inspect(s) PROVE TasksTyped'
  <2>1. /\ UNCHANGED <<uncertain, pc, fresh, store>> /\ core' \in {core, "refused"}
        /\ core = "recovering"
    BY <1>8, InspectStep DEF Typed
  <2> QED
    BY <2>1 DEF store, Typed, TasksTyped
<1>9. ASSUME NEW c \in Calls, Mark(c) PROVE TasksTyped'
  BY <1>9 DEF Mark, memory, store, Typed, TasksTyped
<1>10. CASE RecordBlocked
  <2>1. blocked' \in BOOLEAN /\ uncertain' \in BOOLEAN
    BY <1>10 DEF RecordBlocked, Typed, TasksTyped
  <2> QED
    BY <1>10, <2>1 DEF RecordBlocked, Archiving, Typed, TasksTyped
<1>11. CASE OpenRequired
  <2>1. /\ UNCHANGED <<uncertain, pc, fresh, blocked, status, att, accounted>>
        /\ core = "recovering" /\ core' \in {core, "refused"}
    BY <1>11, OpenRequiredStep DEF Typed, OpenRequired
  <2>2. opened' \in BOOLEAN
    BY <1>11 DEF OpenRequired, Record, Typed, TasksTyped
  <2> QED
    BY <2>1, <2>2 DEF Typed, TasksTyped
<1> QED
  BY <1>1, <1>2, <1>3, <1>4, <1>5, <1>6, <1>7, <1>8, <1>9, <1>10, <1>11 DEF CoreMoves

\* Every step keeps the types.
LEMMA NextTyped ==
  ASSUME RunLogAssumption, Typed, [Next]_vars
  PROVE  Typed'
<1>1. ASSUME NEW t \in Task, TaskMoves(t) PROVE Typed'
  <2>1. FilesTyped'
    BY <1>1, TaskSteps, WritesTyped DEF TaskStep, Typed
  <2> QED
    BY <1>1, <2>1, TaskMovesTyped DEF Typed
<1>2. CASE CoreMoves
  BY <1>2, CoreMovesFilesTyped, CoreMovesTasksTyped DEF Typed
<1>3. CASE UNCHANGED vars
  <2>1. FilesTyped'
    <3>1. UNCHANGED <<segs, live, archived, arch, broken>>
      BY <1>3 DEF vars, memory, store
    <3>2. broken' \in BOOLEAN
      BY <3>1 DEF Typed, FilesTyped
    <3> QED
      BY <3>1, <3>2, FilesAloneTyped DEF Typed
  <2>2. TasksTyped'
    BY <1>3 DEF vars, memory, store, Typed, TasksTyped
  <2> QED
    BY <2>1, <2>2 DEF Typed
<1> QED
  BY <1>1, <1>2, <1>3, NextMoves

\* The types hold at first.
LEMMA InitTyped ==
  ASSUME RunLogAssumption, Init
  PROVE  Typed
<1>1. <<>> \in Seq(Segment) /\ <<>> \in Seq(Nat) /\ Len(<<>>) = 0
  BY EmptySeq
<1>2. arch = Idle /\ Idle \in [pc : Steps, seg : Nat] /\ Idle.pc = "idle"
  BY DEF Init, Idle, Steps
<1>3. FilesTyped
  <2>1. segs \in Seq(Segment) /\ broken \in BOOLEAN /\ live \in [Stage -> Nat]
        /\ \A g \in Stage : live[g] = 0
    BY <1>1 DEF Init
  <2>2. archived \in [Stage -> Seq(Nat)]
    BY <1>1 DEF Init
  <2>3. \A g \in Stage : 1 .. Len(archived[g]) = {}
    BY <1>1 DEF Init
  <2> QED
    BY <1>2, <2>1, <2>2, <2>3 DEF FilesTyped
<1>4. TasksTyped
  <2>1. MaxAttempts \in [Task -> Nat]
    BY DEF RunLogAssumption
  <2>2. /\ status \in [Task -> {"todo", "running", "done", "failed"}]
        /\ pc \in [Task -> {"idle", "claimed", "working", "asked", "answered", "accounted",
                            "result"}]
        /\ \A t \in Task : pc[t] = "idle"
    BY DEF Init
  <2>3. att \in [Task -> Nat] /\ \A t \in Task : att[t] <= MaxAttempts[t]
    BY <2>1 DEF Init
  <2>4. /\ core = "up" /\ uncertain \in BOOLEAN /\ blocked \in BOOLEAN /\ opened \in BOOLEAN
        /\ fresh = {} /\ accounted = {}
    BY DEF Init
  <2> QED
    BY <2>2, <2>3, <2>4 DEF TasksTyped
<1> QED
  BY <1>3, <1>4 DEF Typed

\* Every variable has its type, for any tasks, stages, attempts and faults.
THEOREM TypesHold == RunLogAssumption => (Spec => []Typed)
<1> SUFFICES ASSUME RunLogAssumption PROVE Spec => []Typed
  OBVIOUS
<1>1. Init => Typed
  BY InitTyped
<1>2. Typed /\ [Next]_vars => Typed'
  BY NextTyped
<1> QED
  BY <1>1, <1>2, PTL DEF Spec
----
\* The files.

\* With no archive under way there is nothing to know of it.
LEMMA IdleArchive ==
  ASSUME arch' = Idle
  PROVE  ArchiveInv'
  BY DEF ArchiveInv, Idle, Locked

\* What is archived exists, belongs to its stage and has a ZIP.
LEMMA ConfirmedHasZip ==
  ASSUME FilesTyped, ChainInv
  PROVE  \A g \in Stage : \A s \in Range(archived[g]) :
           s \in Segs /\ segs[s].stage = g /\ segs[s].zip
  BY ArchivesAre DEF ChainInv, FilesTyped

\* A change of one segment that keeps what a ZIP and a chain rest on.
LEMMA SourcesKept ==
  ASSUME FilesTyped, SourcesInv, ChainInv, NEW s \in Segs, Changed(s),
         UNCHANGED archived, segs'[s].stage = segs[s].stage,
         segs[s].zip => segs'[s].zip,
         segs'[s].before = segs[s].before \/ ~Confirmed(s),
         segs'[s].zip => segs'[s].frozen = segs'[s].log /\ segs'[s].src # "torn",
         segs'[s].src = "gone" => segs'[s].zip /\ Confirmed(s),
         segs'[s].prev \in Range(archived[segs[s].stage]) \cup {0},
         segs'[s].before \in Range(archived[segs[s].stage]) \cup {0}
  PROVE  SourcesInv' /\ ChainInv'
<1>1. Segs' = Segs /\ \A i \in Segs : i # s => segs'[i] = segs[i]
  BY DEF Changed, Segs
<1>2. SourcesInv'
  BY <1>1 DEF SourcesInv, Confirmed
<1>3. \A g \in Stage : \A i \in 1 .. Len(archived[g]) :
        archived[g][i] \in Segs /\ archived[g][i] \in Range(archived[g])
  BY ArchivesAre DEF FilesTyped
<1>4. ChainInv'
  BY <1>1, <1>3 DEF ChainInv, Confirmed
<1> QED
  BY <1>2, <1>4

\* The segments and the archives as they were.
LEMMA SourcesAlone ==
  ASSUME SourcesInv, ChainInv, UNCHANGED <<segs, archived>>
  PROVE  SourcesInv' /\ ChainInv'
  BY DEF SourcesInv, ChainInv, Confirmed, Segs

\* Lines never reach a segment that is being archived, or was.
LEMMA WritesFiles ==
  ASSUME FilesTyped, FilesInv, NEW A, NEW U, Writes(A, U), core' = core \/ arch = Idle
  PROVE  FilesInv'
<1>0. /\ SourcesInv /\ ChainInv /\ LiveInv /\ ArchiveInv
      /\ UNCHANGED <<arch, archived, broken>> /\ Len(segs) \in Nat
      /\ live \in [Stage -> Nat]
      /\ arch.pc # "idle" => arch.seg \in Segs /\ segs[arch.seg].stage \in Stage
      /\ \A g \in Stage : live[g] # 0 => live[g] \in Segs /\ segs[live[g]].stage = g
  BY LenProperties, UnderWay DEF FilesInv, Writes, FilesTyped
<1>1. CASE UNCHANGED <<segs, live>>
  <2>1. LiveInv'
    BY <1>0, <1>1 DEF LiveInv
  <2>2. ArchiveInv'
    BY <1>0, <1>1, IdleArchive DEF ArchiveInv, Confirmed
  <2> QED
    BY <1>0, <1>1, <2>1, <2>2, SourcesAlone DEF FilesInv
<1>2. ASSUME NEW s \in Segs, Changed(s), Kept(s, {}), UNCHANGED live
      PROVE  FilesInv'
  <2>1. SourcesInv' /\ ChainInv'
    BY <1>0, <1>2, SourcesKept DEF Kept, SourcesInv
  <2>2. LiveInv'
    BY <1>0, <1>2 DEF Changed, Kept, LiveInv
  <2>3. ArchiveInv'
    <3>1. CASE arch = Idle
      BY <1>0, <3>1, IdleArchive
    <3>2. CASE arch # Idle
      <4>1. arch.seg \in Segs /\ core' = core
        BY <1>0, <3>2 DEF FilesTyped
      <4>2. /\ segs'[arch.seg].stage = segs[arch.seg].stage
            /\ segs'[arch.seg].zip = segs[arch.seg].zip
            /\ segs'[arch.seg].src = segs[arch.seg].src
            /\ segs'[arch.seg].log = segs[arch.seg].log
            /\ segs'[arch.seg].frozen = segs[arch.seg].frozen
        BY <1>2, <4>1 DEF Changed, Kept
      <4> QED
        BY <1>0, <1>2, <4>1, <4>2 DEF ArchiveInv, Confirmed
    <3> QED
      BY <3>1, <3>2
  <2> QED
    BY <2>1, <2>2, <2>3 DEF FilesInv
<1>3. ASSUME NEW g \in Stage, NEW l \in Log, Opens(g, l)
      PROVE  FilesInv'
  <2> DEFINE n == Len(segs) + 1
  <2>1. /\ \A i \in Segs : segs'[i] = segs[i]
        /\ segs'[n].stage = g /\ segs'[n].prev = PreviousArchive(g)
        /\ segs'[n].src = "whole" /\ ~segs'[n].zip /\ segs'[n].before = 0
        /\ live[g] = 0 /\ live' = [live EXCEPT ![g] = n]
        /\ Len(segs') = n
    BY <1>3 DEF Opens
  <2>2. Segs' = Segs \cup {n} /\ n \notin Segs /\ n \in Nat
    BY <1>0, <2>1 DEF Segs
  <2>3. \A h \in Stage : Range(archived[h]) \subseteq Segs
    BY <1>0, ConfirmedHasZip
  <2> HIDE DEF n
  <2>4. SourcesInv'
    <3>1. \A i \in Segs : segs'[i] = segs[i]
      BY <2>1
    <3>2. segs'[n].prev \in Range(archived[segs'[n].stage]) \cup {0}
      BY <2>1, PreviousIsArchive
    <3> QED
      BY <1>0, <2>1, <2>2, <3>1, <3>2 DEF SourcesInv, Confirmed
  <2>5. ChainInv'
    <3>1. \A h \in Stage : \A i \in 1 .. Len(archived[h]) :
            archived[h][i] \in Segs /\ segs'[archived[h][i]] = segs[archived[h][i]]
      BY <2>1 DEF FilesTyped
    <3> QED
      BY <1>0, <3>1 DEF ChainInv
  <2>6. LiveInv'
    <3>1. /\ live'[g] = n /\ n \notin Range(archived[g])
          /\ \A h \in Stage : h # g => live'[h] = live[h]
      BY <1>0, <2>1, <2>2, <2>3
    <3> QED
      BY <1>0, <2>1, <3>1 DEF LiveInv
  <2>7. ArchiveInv'
    <3>1. CASE arch = Idle
      BY <1>0, <3>1, IdleArchive
    <3>2. CASE arch # Idle
      <4>1. arch.seg \in Segs /\ core' = core /\ segs'[arch.seg] = segs[arch.seg]
            /\ arch.seg # 0 /\ arch.seg # n
        BY <1>0, <2>1, <2>2, <3>2 DEF FilesTyped, Segs
      <4>2. \A h \in Stage : live'[h] = live[h] \/ (live[h] = 0 /\ live'[h] = n)
        BY <1>0, <2>1
      <4> QED
        BY <1>0, <3>2, <4>1, <4>2 DEF ArchiveInv, Confirmed, FilesTyped
    <3> QED
      BY <3>1, <3>2
  <2> QED
    BY <2>4, <2>5, <2>6, <2>7 DEF FilesInv
<1>4. ASSUME NEW g \in Stage, NEW l \in Log, Extends(g, l), ~broken, NotSealing
      PROVE  FilesInv'
  <2> DEFINE s == live[g]
  <2>1. s \in Segs /\ Changed(s) /\ Kept(s, {"log"}) /\ live' = live
    BY <1>4 DEF Extends
  <2>2. ~segs[s].zip
    BY <1>0, <1>4, <2>1 DEF LiveInv, NotSealing, Locked, Segs
  <2> HIDE DEF s
  <2>3. SourcesInv' /\ ChainInv'
    BY <1>0, <2>1, <2>2, SourcesKept DEF Kept, SourcesInv
  <2>4. LiveInv'
    BY <1>0, <2>1 DEF Changed, Kept, LiveInv
  <2>5. ArchiveInv'
    <3>1. CASE arch = Idle
      BY <1>0, <3>1, IdleArchive
    <3>2. CASE arch # Idle
      <4>1. arch.seg \in Segs /\ core' = core
        BY <1>0, <3>2 DEF FilesTyped
      <4>2. /\ segs'[arch.seg].stage = segs[arch.seg].stage
            /\ segs'[arch.seg].zip = segs[arch.seg].zip
            /\ segs'[arch.seg].src = segs[arch.seg].src
        BY <2>1, <4>1 DEF Changed, Kept
      <4>3. arch.pc \notin Locked
        BY <1>4 DEF NotSealing
      <4> QED
        BY <1>0, <2>1, <4>1, <4>2, <4>3 DEF ArchiveInv, Confirmed, Locked
    <3> QED
      BY <3>1, <3>2
  <2> QED
    BY <2>3, <2>4, <2>5 DEF FilesInv
<1> QED
  BY <1>1, <1>2, <1>3, <1>4 DEF Writes

\* What the files hold while an archive goes on: facts that every step needs.
LEMMA FilesFacts ==
  ASSUME FilesTyped, FilesInv
  PROVE  /\ SourcesInv /\ ChainInv /\ LiveInv /\ ArchiveInv
         /\ Len(segs) \in Nat /\ live \in [Stage -> Nat] /\ segs \in Seq(Segment)
         /\ arch.pc # "idle" => /\ arch.seg \in Segs /\ arch.seg # 0
                                /\ segs[arch.seg].stage \in Stage
         /\ \A g \in Stage : live[g] # 0 => live[g] \in Segs /\ segs[live[g]].stage = g
  BY LenProperties, UnderWay DEF FilesInv, FilesTyped, Segs

\* The archive goes on: its segment changes, and the others do not.
LEMMA MovesKept ==
  ASSUME FilesTyped, FilesInv, NEW to, NEW F, Moves(to, F)
  PROVE  /\ arch.seg \in Segs /\ arch.seg # 0 /\ segs[arch.seg].stage \in Stage
         /\ segs'[arch.seg].stage = segs[arch.seg].stage
         /\ arch'.pc = to /\ arch'.seg = arch.seg
         /\ Changed(arch.seg) /\ Kept(arch.seg, F)
         /\ UNCHANGED archived => (Confirmed(arch.seg)' <=> Confirmed(arch.seg))
<1>1. arch.seg \in Segs /\ arch.seg # 0
  BY LenProperties DEF Moves, FilesTyped, Segs
<1>2. segs[arch.seg] \in Segment
  BY <1>1, ElementOfSeq DEF FilesTyped, Segs
<1>3. segs[arch.seg].stage \in Stage
  BY <1>2 DEF Segment
<1> QED
  BY <1>1, <1>3 DEF Moves, Kept, Confirmed

\* An archive begins with the segment that the stage appends to.
LEMMA ChooseFiles ==
  ASSUME FilesTyped, FilesInv, NEW g \in Stage, Choose(g)
  PROVE  FilesInv'
<1>0. /\ SourcesInv /\ ChainInv /\ LiveInv
      /\ live[g] \in Segs /\ segs[live[g]].stage = g
      /\ UNCHANGED <<segs, archived, live, broken>>
      /\ arch = Idle /\ arch' = [pc |-> "chosen", seg |-> live[g]]
  BY FilesFacts DEF Choose, store
<1>1. LiveInv'
  BY <1>0 DEF LiveInv, Idle
<1>2. ArchiveInv'
  BY <1>0 DEF ArchiveInv, LiveInv, Confirmed, Locked, Segs
<1> QED
  BY <1>0, <1>1, <1>2, SourcesAlone DEF FilesInv

\* The segment that is sealed is whole, and not archived yet.
LEMMA SealFiles ==
  ASSUME FilesTyped, FilesInv, Seal
  PROVE  FilesInv'
<1> DEFINE s == arch.seg
<1>0. /\ SourcesInv /\ ChainInv /\ LiveInv /\ ArchiveInv
      /\ UNCHANGED <<archived, live, core>> /\ arch.pc = "chosen"
      /\ s \in Segs /\ s # 0 /\ segs[s].stage \in Stage
      /\ \A g \in Stage : live[g] # 0 => live[g] \in Segs
  BY FilesFacts DEF Seal, store
<1>1. CASE arch' = Idle /\ UNCHANGED segs /\ (broken' = broken \/ broken' = TRUE)
  <2>1. LiveInv'
    BY <1>0, <1>1 DEF LiveInv
  <2> QED
    BY <1>0, <1>1, <2>1, SourcesAlone, IdleArchive DEF FilesInv
<1>2. CASE ~broken /\ UNCHANGED broken /\ Moves("temp", {"tmp"})
  <2>1. /\ arch'.pc = "temp" /\ arch'.seg = s /\ Changed(s) /\ Kept(s, {"tmp"})
        /\ Confirmed(s)' <=> Confirmed(s)
    BY <1>0, <1>2, MovesKept
  <2>2. segs[s].src # "torn" /\ ~Confirmed(s)
    BY <1>0, <1>2 DEF ArchiveInv, LiveInv
  <2>3. SourcesInv' /\ ChainInv'
    BY <1>0, <2>1, SourcesKept DEF Kept, SourcesInv
  <2>4. LiveInv'
    BY <1>0, <1>2, <2>1 DEF Changed, Kept, LiveInv
  <2>5. ArchiveInv'
    BY <1>0, <2>1, <2>2 DEF ArchiveInv, Kept, Locked
  <2> QED
    BY <2>3, <2>4, <2>5 DEF FilesInv
<1> QED
  BY <1>1, <1>2, SealStep

\* A seal after a restart writes into a temporary file only.
LEMMA SealInterruptedFiles ==
  ASSUME FilesTyped, FilesInv, SealInterrupted
  PROVE  FilesInv'
<1> DEFINE s == arch.seg
<1>0. /\ SourcesInv /\ ChainInv /\ LiveInv /\ ArchiveInv
      /\ UNCHANGED <<archived, live, core, broken>> /\ arch.pc = "mark"
      /\ Moves("temp", {"tmp"})
      /\ \A g \in Stage : live[g] # 0 => live[g] \in Segs
  BY FilesFacts, SealInterruptedStep DEF SealInterrupted, store
<1>1. /\ arch'.pc = "temp" /\ arch'.seg = s /\ Changed(s) /\ Kept(s, {"tmp"})
      /\ Confirmed(s)' <=> Confirmed(s)
      /\ s \in Segs
  BY <1>0, MovesKept
<1>2. segs[s].src # "torn" /\ ~Confirmed(s)
  BY <1>0 DEF ArchiveInv
<1>3. SourcesInv' /\ ChainInv'
  BY <1>0, <1>1, SourcesKept DEF Kept, SourcesInv
<1>4. LiveInv'
  BY <1>0, <1>1 DEF Changed, Kept, LiveInv
<1>5. ArchiveInv'
  BY <1>0, <1>1, <1>2 DEF ArchiveInv, Kept, Locked
<1> QED
  BY <1>3, <1>4, <1>5 DEF FilesInv

\* What is frozen is every line there is, behind a confirmed archive.
LEMMA WriteZipFiles ==
  ASSUME FilesTyped, FilesInv, WriteZip
  PROVE  FilesInv'
<1> DEFINE s == arch.seg
<1>0. /\ SourcesInv /\ ChainInv /\ LiveInv /\ ArchiveInv
      /\ UNCHANGED <<archived, live, core, broken>> /\ arch.pc = "temp"
      /\ Moves("whole", {"tmp", "frozen"})
      /\ segs'[s].frozen = segs[s].log /\ segs'[s].before = segs[s].prev
      /\ \A g \in Stage : live[g] # 0 => live[g] \in Segs
  BY FilesFacts, WriteZipStep DEF WriteZip, store
<1>1. /\ arch'.pc = "whole" /\ arch'.seg = s /\ Changed(s) /\ Kept(s, {"tmp", "frozen"})
      /\ Confirmed(s)' <=> Confirmed(s)
      /\ s \in Segs
  BY <1>0, MovesKept
<1>2. segs[s].src # "torn" /\ ~Confirmed(s)
  BY <1>0 DEF ArchiveInv, Locked
<1>3. SourcesInv' /\ ChainInv'
  BY <1>0, <1>1, <1>2, SourcesKept DEF Kept, SourcesInv
<1>4. LiveInv'
  BY <1>0, <1>1 DEF Changed, Kept, LiveInv
<1>5. ArchiveInv'
  BY <1>0, <1>1, <1>2 DEF ArchiveInv, Kept, Locked
<1> QED
  BY <1>3, <1>4, <1>5 DEF FilesInv

\* The ZIP that appears has every line of its source.
LEMMA LinkZipFiles ==
  ASSUME FilesTyped, FilesInv, LinkZip
  PROVE  FilesInv'
<1> DEFINE s == arch.seg
<1>0. /\ SourcesInv /\ ChainInv /\ LiveInv /\ ArchiveInv
      /\ UNCHANGED <<archived, live, core, broken>> /\ arch.pc = "whole"
      /\ Moves("linked", {"zip"}) /\ segs'[s].zip
  BY FilesFacts, LinkZipStep DEF LinkZip, store
<1>1. /\ arch'.pc = "linked" /\ arch'.seg = s /\ Changed(s) /\ Kept(s, {"zip"})
      /\ Confirmed(s)' <=> Confirmed(s)
      /\ s \in Segs
  BY <1>0, MovesKept
<1>2. segs[s].src # "torn" /\ ~Confirmed(s) /\ segs[s].frozen = segs[s].log
  BY <1>0 DEF ArchiveInv, Locked
<1>3. SourcesInv' /\ ChainInv'
  BY <1>0, <1>1, <1>2, SourcesKept DEF Kept, SourcesInv
<1>4. LiveInv'
  <2>1. \A g \in Stage : live[g] # 0 => live[g] \in Segs
    BY FilesFacts
  <2> QED
    BY <1>0, <1>1, <2>1 DEF Changed, Kept, LiveInv
<1>5. ArchiveInv'
  BY <1>0, <1>1, <1>2 DEF ArchiveInv, Kept, Locked
<1> QED
  BY <1>3, <1>4, <1>5 DEF FilesInv

\* Once sealed no stage appends to the segment any more.
LEMMA RemoveTemporaryFiles ==
  ASSUME FilesTyped, FilesInv, RemoveTemporary
  PROVE  FilesInv'
<1> DEFINE s == arch.seg
<1>0. /\ SourcesInv /\ ChainInv /\ LiveInv /\ ArchiveInv
      /\ UNCHANGED <<archived, core, broken>> /\ arch.pc = "linked"
      /\ Moves("sealed", {"tmp"})
      /\ \A g \in Stage : live'[g] # 0 => live'[g] = live[g] /\ live[g] # s
  BY FilesFacts, RemoveTemporaryStep DEF RemoveTemporary, store
<1>1. /\ arch'.pc = "sealed" /\ arch'.seg = s /\ Changed(s) /\ Kept(s, {"tmp"})
      /\ Confirmed(s)' <=> Confirmed(s)
      /\ s \in Segs /\ s # 0 /\ segs[s].stage \in Stage
  BY <1>0, MovesKept
<1>2. segs[s].zip /\ ~Confirmed(s)
  BY <1>0 DEF ArchiveInv, Locked
<1>3. SourcesInv' /\ ChainInv'
  BY <1>0, <1>1, <1>2, SourcesKept DEF Kept, SourcesInv
<1>4. LiveInv'
  <2>1. \A g \in Stage : live[g] # 0 => live[g] \in Segs
    BY FilesFacts
  <2> QED
    BY <1>0, <1>1, <2>1 DEF Changed, Kept, LiveInv
<1>5. ArchiveInv'
  BY <1>0, <1>1, <1>2 DEF ArchiveInv, Kept, Locked
<1> QED
  BY <1>3, <1>4, <1>5 DEF FilesInv

\* A segment is confirmed once, behind one that was confirmed before.
LEMMA RecordArchivedFiles ==
  ASSUME FilesTyped, FilesInv, RecordArchived
  PROVE  FilesInv'
<1> DEFINE s == arch.seg
           g == segs[s].stage
<1>0. /\ SourcesInv /\ ChainInv /\ LiveInv /\ ArchiveInv
      /\ arch.pc = "sealed" /\ s \in Segs /\ g \in Stage
      /\ UNCHANGED <<segs, live, core, broken>>
      /\ arch'.pc = "archived" /\ arch'.seg = s
      /\ archived' = [archived EXCEPT ![g] = archived'[g]]
      /\ \/ Confirmed(s) /\ archived' = archived
         \/ /\ Confirmed(s) => core # "recovering"
            /\ archived'[g] = Append(archived[g], s)
  BY FilesFacts, RecordArchivedStep
<1>1. segs[s].zip /\ live[g] # s /\ (core # "recovering" => ~Confirmed(s))
  BY <1>0 DEF ArchiveInv
<1>2. CASE Confirmed(s) /\ archived' = archived
  <2>1. LiveInv'
    BY <1>0, <1>2 DEF LiveInv
  <2>2. ArchiveInv'
    BY <1>0, <1>1, <1>2 DEF ArchiveInv, Confirmed, Locked
  <2> QED
    BY <1>0, <1>2, <2>1, <2>2, SourcesAlone DEF FilesInv
<1>3. CASE ~Confirmed(s) /\ archived'[g] = Append(archived[g], s)
  <2> DEFINE n == Len(archived[g])
  <2>1. archived[g] \in Seq(Nat) /\ s \in Nat /\ n \in Nat
    BY <1>0, LenProperties DEF FilesTyped, Segs
  <2>2. /\ archived'[g] \in Seq(Nat) /\ Len(archived'[g]) = n + 1
        /\ \A i \in 1 .. n : archived'[g][i] = archived[g][i]
        /\ archived'[g][n + 1] = s
    <3> HIDE DEF g, s
    <3> DEFINE more == Append(archived[g], s)
    <3>1. /\ more \in Seq(Nat) /\ Len(more) = Len(archived[g]) + 1
          /\ \A i \in 1 .. Len(archived[g]) : more[i] = archived[g][i]
          /\ more[Len(archived[g]) + 1] = s
      BY <2>1, AppendProperties
    <3>2. archived'[g] = more
      BY <1>3
    <3> QED
      BY <3>1, <3>2, Zenon
  <2>3. 1 .. Len(archived'[g]) = (1 .. n) \cup {n + 1}
    BY <2>1, <2>2
  <2>4. \A h \in Stage : h # g => archived'[h] = archived[h]
    BY <1>0 DEF FilesTyped
  <2>5. \A x : x \in Range(archived'[g]) <=> x \in Range(archived[g]) \/ x = s
    <3>1. Range(archived'[g]) = {archived'[g][i] : i \in 1 .. Len(archived'[g])}
      BY <2>2, RangeEquality
    <3>2. Range(archived[g]) = {archived[g][i] : i \in 1 .. n}
      BY <2>1, RangeEquality
    <3> HIDE DEF n, g, s
    <3> QED
      BY <2>2, <2>3, <3>1, <3>2
  <2>6. \A h \in Stage : Range(archived[h]) \subseteq Range(archived'[h])
    BY <2>4, <2>5
  <2>7. \A i \in 1 .. n : archived[g][i] # s
    BY <1>0, <1>3, ArchivesAre DEF Confirmed
  <2>8. segs[s].before = 0 \/ \E i \in 1 .. n : archived[g][i] = segs[s].before
    <3>1. segs[s].before \in Range(archived[g]) \cup {0}
      BY <1>0 DEF SourcesInv
    <3> QED
      BY <1>0, <3>1, ArchivesAre
  <2> HIDE DEF n, g, s
  <2>9. SourcesInv'
    <3>1. \A i \in Segs : segs[i].stage \in Stage
      <4>1. \A i \in Segs : segs[i] \in Segment
        BY ElementOfSeq DEF FilesTyped, Segs
      <4> QED
        BY <4>1 DEF Segment
    <3> QED
      BY <1>0, <2>6, <3>1 DEF SourcesInv, Confirmed, Segs, s
  <2>10. ChainInv'
    <3> SUFFICES ASSUME NEW h \in Stage, NEW i \in 1 .. Len(archived'[h])
                 PROVE  LET x == archived'[h][i]
                        IN  /\ segs[x].stage = h /\ segs[x].zip
                            /\ \A j \in 1 .. i - 1 : archived'[h][j] # x
                            /\ \/ segs[x].before = 0
                               \/ \E j \in 1 .. i - 1 : archived'[h][j] = segs[x].before
      <4>1. segs' = segs
        BY <1>0
      <4> QED
        BY <4>1 DEF ChainInv
    <3>1. CASE h # g
      BY <1>0, <2>4, <3>1 DEF ChainInv
    <3>2. CASE h = g /\ i \in 1 .. n
      <4>1. \A j \in 1 .. i - 1 : j \in 1 .. n /\ archived'[g][j] = archived[g][j]
        <5>1. \A j \in 1 .. i - 1 : j \in 1 .. n
          BY <2>1, <3>2
        <5> QED
          BY <2>2, <5>1
      <4>2. i \in 1 .. Len(archived[g]) /\ archived'[g][i] = archived[g][i]
        BY <2>2, <3>2 DEF n
      <4> QED
        BY <1>0, <3>2, <4>1, <4>2 DEF ChainInv
    <3>3. CASE h = g /\ i = n + 1
      <4>1. \A j \in 1 .. n : archived'[g][j] = archived[g][j]
        BY <2>2
      <4>2. 1 .. i - 1 = 1 .. n
        BY <2>1, <3>3
      <4>3. archived'[h][i] = s /\ segs[s].stage = h /\ segs[s].zip
        BY <1>1, <2>2, <3>3 DEF g
      <4>4. \A j \in 1 .. i - 1 : archived'[h][j] # s
        BY <2>7, <3>3, <4>1, <4>2
      <4>5. segs[s].before = 0 \/ \E j \in 1 .. i - 1 : archived'[h][j] = segs[s].before
        BY <2>8, <3>3, <4>1, <4>2
      <4> QED
        BY <4>3, <4>4, <4>5
    <3> QED
      BY <2>3, <3>1, <3>2, <3>3
  <2>11. LiveInv'
    <3>1. \A h \in Stage : live[h] # 0 => live[h] \notin Range(archived'[h])
      <4>1. live[g] # s /\ \A h \in Stage : live[h] # 0 => live[h] \notin Range(archived[h])
        BY <1>0, <1>1 DEF LiveInv
      <4> QED
        BY <2>4, <2>5, <4>1
    <3>2. \A h \in Stage : live[h] # 0 =>
            (segs[live[h]].zip => broken) /\ (segs[live[h]].src = "torn" => broken)
      BY <1>0 DEF LiveInv
    <3>3. live' = live /\ segs' = segs /\ broken' = broken
      BY <1>0
    <3> QED
      BY <3>1, <3>2, <3>3 DEF LiveInv
  <2>12. ArchiveInv'
    <3>1. s \in Range(archived'[g]) /\ segs'[s].stage = g
      BY <1>0, <2>5 DEF g
    <3>2. arch'.pc = "archived" /\ arch'.seg = s /\ live'[g] # s /\ segs'[s].zip
      BY <1>0, <1>1
    <3> QED
      BY <3>1, <3>2 DEF ArchiveInv, Confirmed, Locked
  <2> QED
    BY <2>9, <2>10, <2>11, <2>12 DEF FilesInv
<1> QED
  BY <1>0, <1>1, <1>2, <1>3

\* A plaintext goes once its ZIP is confirmed.
LEMMA CleanFiles ==
  ASSUME FilesTyped, FilesInv, Clean
  PROVE  FilesInv'
<1> DEFINE s == arch.seg
<1>0. /\ SourcesInv /\ ChainInv /\ LiveInv /\ ArchiveInv
      /\ arch.pc \in {"archived", "settled"} /\ s \in Segs /\ arch' = Idle
      /\ Changed(s) /\ Kept(s, {"src"}) /\ segs'[s].src = "gone"
      /\ UNCHANGED <<archived, live, broken>>
      /\ \A g \in Stage : live[g] # 0 => live[g] \in Segs
  BY FilesFacts, CleanStep DEF Clean, store
<1>1. segs[s].zip /\ Confirmed(s)
  BY <1>0 DEF ArchiveInv
<1>2. SourcesInv' /\ ChainInv'
  BY <1>0, <1>1, SourcesKept DEF Kept, SourcesInv
<1>3. LiveInv'
  BY <1>0 DEF Changed, Kept, LiveInv
<1> QED
  BY <1>0, <1>2, <1>3, IdleArchive DEF FilesInv

\* A torn source has no ZIP.
LEMMA LoseLogFiles ==
  ASSUME FilesTyped, FilesInv, LoseLog
  PROVE  FilesInv'
<1>0. /\ SourcesInv /\ ChainInv /\ LiveInv /\ ArchiveInv
      /\ ~broken /\ broken' = TRUE /\ NotSealing /\ core' = core
      /\ UNCHANGED <<live, arch, archived>>
      /\ \A g \in Stage : live[g] # 0 => live[g] \in Segs /\ segs[live[g]].stage = g
      /\ arch.pc # "idle" => arch.seg \in Segs /\ segs[arch.seg].stage \in Stage
  BY FilesFacts, LoseLogStep
<1>1. CASE UNCHANGED segs
  <2>1. LiveInv'
    BY <1>0, <1>1 DEF LiveInv
  <2>2. ArchiveInv'
    BY <1>0, <1>1 DEF ArchiveInv, Confirmed
  <2> QED
    BY <1>0, <1>1, <2>1, <2>2, SourcesAlone DEF FilesInv
<1>2. ASSUME NEW g \in Stage, live[g] \in Segs, Changed(live[g]),
             Kept(live[g], {"src"}), segs'[live[g]].src = "torn"
      PROVE  FilesInv'
  <2> DEFINE s == live[g]
  <2>1. s # 0 /\ s \in Segs /\ segs[s].stage = g /\ Changed(s) /\ Kept(s, {"src"})
        /\ segs'[s].src = "torn"
    BY <1>0, <1>2 DEF Segs
  <2>2. ~segs[s].zip
    BY <1>0, <2>1 DEF LiveInv, NotSealing, Locked
  <2>3. arch.pc = "mark" => arch.seg # s
    BY <1>0, <2>1 DEF ArchiveInv
  <2> HIDE DEF s
  <2>4. SourcesInv' /\ ChainInv'
    BY <1>0, <2>1, <2>2, SourcesKept DEF Kept, SourcesInv
  <2>5. LiveInv'
    BY <1>0 DEF LiveInv
  <2>6. ArchiveInv'
    <3>1. CASE arch.pc = "idle"
      BY <1>0, <3>1 DEF ArchiveInv, Locked
    <3>2. CASE arch.pc # "idle"
      <4>1. /\ segs'[arch.seg].stage = segs[arch.seg].stage
            /\ segs'[arch.seg].zip = segs[arch.seg].zip
            /\ arch.pc = "mark" => segs'[arch.seg].src = segs[arch.seg].src
        BY <1>0, <2>1, <2>3, <3>2 DEF Changed, Kept
      <4> QED
        BY <1>0, <4>1 DEF ArchiveInv, Confirmed, NotSealing, Locked
    <3> QED
      BY <3>1, <3>2
  <2> QED
    BY <2>4, <2>5, <2>6 DEF FilesInv
<1> QED
  BY <1>1, <1>2, LoseLogStep

\* What a Core that dies leaves behind is in order for the next one.
LEMMA CrashFiles ==
  ASSUME FilesTyped, FilesInv, Crash
  PROVE  FilesInv'
<1>0. /\ SourcesInv /\ ChainInv /\ LiveInv /\ ArchiveInv
      /\ arch' = Idle /\ UNCHANGED archived /\ live' = [g \in Stage |-> 0]
  BY FilesFacts, CrashStep
<1>1. LiveInv'
  BY <1>0 DEF LiveInv
<1>2. CASE UNCHANGED segs
  BY <1>0, <1>1, <1>2, SourcesAlone, IdleArchive DEF FilesInv
<1>3. ASSUME NEW s \in Segs, Changed(s), Kept(s, {"src"}), segs'[s].src = "torn",
             \/ arch.pc = "mark" /\ arch.seg = s
             \/ NotSealing /\ ~broken /\ \E g \in Stage : live[g] = s
      PROVE  FilesInv'
  <2>1. ~segs[s].zip
    <3>1. s # 0
      BY DEF Segs
    <3> QED
      BY <1>0, <1>3, <3>1 DEF ArchiveInv, LiveInv, NotSealing, Locked
  <2>2. SourcesInv' /\ ChainInv'
    BY <1>0, <1>3, <2>1, SourcesKept DEF Kept, SourcesInv
  <2> QED
    BY <1>0, <1>1, <2>2, IdleArchive DEF FilesInv
<1> QED
  BY <1>2, <1>3, CrashStep

\* What a restarted Core takes up is in the state its step asks for.
LEMMA InspectFiles ==
  ASSUME FilesTyped, FilesInv, NEW s \in DOMAIN segs, Inspect(s)
  PROVE  FilesInv'
<1>0. /\ SourcesInv /\ ChainInv /\ LiveInv /\ ArchiveInv
      /\ s \in Segs /\ core = "recovering" /\ arch = Idle
      /\ \A g \in Stage : live[g] # s
      /\ UNCHANGED <<broken, live, archived>>
      /\ \A g \in Stage : live[g] # 0 => live[g] \in Segs /\ segs[live[g]].stage = g
  BY FilesFacts, InspectStep DEF store
<1>1. segs[s].stage \in Stage
  <2>1. segs[s] \in Segment
    BY <1>0, ElementOfSeq DEF FilesTyped, Segs
  <2> QED
    BY <2>1 DEF Segment
<1>2. ~segs[s].zip => ~Confirmed(s)
  BY <1>0, <1>1, ConfirmedHasZip DEF Confirmed
<1>3. CASE UNCHANGED <<arch, segs>>
  <2>1. LiveInv'
    BY <1>0, <1>3 DEF LiveInv
  <2> QED
    BY <1>0, <1>3, <2>1, SourcesAlone, IdleArchive DEF FilesInv
<1>4. CASE /\ core' = core /\ UNCHANGED segs /\ segs[s].src = "whole"
           /\ segs[s].frozen = segs[s].log
           /\ \/ segs[s].zip /\ arch' = [pc |-> "sealed", seg |-> s]
              \/ ~segs[s].zip /\ arch' = [pc |-> "whole", seg |-> s]
  <2>1. LiveInv'
    BY <1>0, <1>4 DEF LiveInv, Idle
  <2>2. ArchiveInv'
    BY <1>0, <1>1, <1>2, <1>4 DEF ArchiveInv, Confirmed, Locked
  <2> QED
    BY <1>0, <1>4, <2>1, <2>2, SourcesAlone DEF FilesInv
<1>5. CASE /\ core' = core /\ ~segs[s].zip /\ segs[s].src = "whole"
           /\ Changed(s) /\ Kept(s, {"prev"})
           /\ segs'[s].prev = PreviousArchive(segs[s].stage)
           /\ arch' = [pc |-> "mark", seg |-> s]
  <2>1. segs'[s].prev \in Range(archived[segs[s].stage]) \cup {0}
    BY <1>1, <1>5, PreviousIsArchive
  <2>2. SourcesInv' /\ ChainInv'
    BY <1>0, <1>5, <2>1, SourcesKept DEF Kept, SourcesInv
  <2>3. LiveInv'
    BY <1>0, <1>5 DEF LiveInv, Idle, Changed
  <2>4. ArchiveInv'
    BY <1>0, <1>1, <1>2, <1>5 DEF ArchiveInv, Confirmed, Kept, Locked
  <2> QED
    BY <2>2, <2>3, <2>4 DEF FilesInv
<1> QED
  BY <1>3, <1>4, <1>5, InspectStep

\* Marks are made before there is a ZIP.
LEMMA MarkFiles ==
  ASSUME FilesTyped, FilesInv, NEW c \in Calls, Mark(c)
  PROVE  FilesInv'
<1> DEFINE s == arch.seg
<1>0. /\ SourcesInv /\ ChainInv /\ LiveInv /\ ArchiveInv
      /\ UNCHANGED <<archived, live, core, broken, arch>> /\ arch.pc = "mark"
      /\ Moves("mark", {"log"})
      /\ \A g \in Stage : live[g] # 0 => live[g] \in Segs
  BY FilesFacts, MarkStep DEF Mark, memory, store
<1>1. /\ Changed(s) /\ Kept(s, {"log"}) /\ s \in Segs
      /\ Confirmed(s)' <=> Confirmed(s)
  BY <1>0, MovesKept
<1>2. ~segs[s].zip
  BY <1>0 DEF ArchiveInv
<1>3. SourcesInv' /\ ChainInv'
  BY <1>0, <1>1, <1>2, SourcesKept DEF Kept, SourcesInv
<1>4. LiveInv'
  BY <1>0, <1>1 DEF Changed, Kept, LiveInv
<1>5. ArchiveInv'
  BY <1>0, <1>1 DEF ArchiveInv, Kept, Locked
<1> QED
  BY <1>3, <1>4, <1>5 DEF FilesInv

\* The other steps leave the segments and the archives alone.
LEMMA RestingFiles ==
  ASSUME FilesTyped, FilesInv,
         Stop \/ Start \/ Serve \/ Stopped \/ ArchiveFails \/ RecordBlocked
  PROVE  FilesInv'
<1>0. /\ SourcesInv /\ ChainInv /\ LiveInv /\ ArchiveInv /\ UNCHANGED <<segs, archived>>
  BY FilesFacts
     DEF Stop, Start, Serve, Stopped, ArchiveFails, RecordBlocked, memory, store
<1>1. CASE Stop \/ Serve
  <2>1. arch' = Idle /\ UNCHANGED <<arch, live, broken>>
    BY <1>1 DEF Stop, Serve, memory
  <2>2. LiveInv'
    BY <1>0, <2>1 DEF LiveInv
  <2> QED
    BY <1>0, <2>1, <2>2, SourcesAlone, IdleArchive DEF FilesInv
<1>2. CASE Start
  <2>1. core = "down" /\ UNCHANGED <<arch, live, broken>>
    BY <1>2 DEF Start
  <2>2. LiveInv'
    BY <1>0, <2>1 DEF LiveInv
  <2>3. ArchiveInv'
    BY <1>0, <1>2, <2>1 DEF Start, ArchiveInv, Confirmed
  <2> QED
    BY <1>0, <2>2, <2>3, SourcesAlone DEF FilesInv
<1>3. CASE Stopped
  <2>1. arch' = Idle /\ live' = [g \in Stage |-> 0]
    BY <1>3 DEF Stopped, Forget
  <2>2. LiveInv'
    BY <2>1 DEF LiveInv
  <2> QED
    BY <1>0, <2>1, <2>2, SourcesAlone, IdleArchive DEF FilesInv
<1>4. CASE ArchiveFails
  <2>1. arch' = Idle /\ UNCHANGED live /\ broken' = TRUE
    BY <1>4 DEF ArchiveFails
  <2>2. LiveInv'
    BY <1>0, <2>1 DEF LiveInv
  <2> QED
    BY <1>0, <2>1, <2>2, SourcesAlone, IdleArchive DEF FilesInv
<1>5. CASE RecordBlocked
  <2>1. /\ core = "recovering" /\ arch.pc = "archived" /\ UNCHANGED <<live, broken, core>>
        /\ arch' = [arch EXCEPT !.pc = "settled"]
    BY <1>5 DEF RecordBlocked, Archiving
  <2>2. arch'.pc = "settled" /\ arch'.seg = arch.seg
    BY <2>1, ArchivingMoves DEF Steps
  <2>3. LiveInv'
    BY <1>0, <2>1 DEF LiveInv
  <2>4. ArchiveInv'
    BY <1>0, <2>1, <2>2 DEF ArchiveInv, Confirmed, Locked
  <2> QED
    BY <1>0, <2>3, <2>4, SourcesAlone DEF FilesInv
<1> QED
  BY <1>1, <1>2, <1>3, <1>4, <1>5

\* Every step keeps the files in order.
LEMMA FilesKept ==
  ASSUME RunLogAssumption, Typed, FilesInv, [Next]_vars
  PROVE  FilesInv'
<1>0. FilesTyped
  BY DEF Typed
<1>1. ASSUME NEW t \in Task, TaskMoves(t) PROVE FilesInv'
  BY <1>0, <1>1, TaskSteps, WritesFiles DEF TaskStep
<1>2. CASE CoreMoves
  <2>1. CASE OpenRequired
    BY <1>0, <2>1, OpenRequiredStep, WritesFiles
  <2> QED
    BY <1>0, <1>2, <2>1, LoseLogFiles, ChooseFiles, SealFiles, WriteZipFiles, LinkZipFiles,
       RemoveTemporaryFiles, RecordArchivedFiles, CleanFiles, CrashFiles, InspectFiles,
       MarkFiles, SealInterruptedFiles, RestingFiles DEF CoreMoves
<1>3. CASE UNCHANGED vars
  <2>1. UNCHANGED <<core, broken, live, arch, segs, archived>>
    BY <1>3 DEF vars, memory, store
  <2>2. LiveInv' /\ ArchiveInv'
    BY <2>1 DEF FilesInv, LiveInv, ArchiveInv, Confirmed
  <2> QED
    BY <2>1, <2>2, SourcesAlone DEF FilesInv
<1> QED
  BY <1>1, <1>2, <1>3, NextMoves

\* There are no files at first.
LEMMA FilesInitially ==
  ASSUME Init
  PROVE  FilesInv
<1>1. /\ segs = <<>> /\ arch = Idle /\ Len(<<>>) = 0
      /\ \A g \in Stage : live[g] = 0 /\ archived[g] = <<>>
  BY EmptySeq DEF Init
<1>2. Segs = {} /\ \A g \in Stage : 1 .. Len(archived[g]) = {}
  BY <1>1 DEF Segs
<1> QED
  BY <1>1, <1>2 DEF FilesInv, SourcesInv, ChainInv, LiveInv, ArchiveInv, Idle, Locked

\* Files in order lose nothing.
LEMMA NothingIsLost ==
  ASSUME RunLogAssumption, Typed, FilesInv
  PROVE  NothingLost
<1>0. /\ SourcesInv /\ ChainInv /\ FilesTyped /\ TasksTyped
      /\ DOMAIN segs = Segs /\ Segs = 1 .. Len(segs) /\ Len(segs) \in Nat
      /\ segs \in Seq(Segment)
  BY LenProperties DEF Typed, FilesInv, FilesTyped, Segs
<1>1. \A s \in Segs : segs[s] \in Segment
  BY <1>0, ElementOfSeq
<1>2. \A s \in Segs : segs[s].stage \in Stage
  BY <1>1 DEF Segment
<1>3. \A g \in Stage : Range(archived[g]) \subseteq Segs
  BY <1>0, ConfirmedHasZip
<1>4. \A s \in Segs :
        /\ segs[s].log \in Log /\ segs[s].frozen \in Log
        /\ segs[s].stage \in Stage /\ segs[s].prev \in 0 .. Len(segs)
        /\ segs[s].src \in {"whole", "torn", "gone"}
        /\ segs[s].tmp \in {"none", "torn", "whole"}
        /\ segs[s].zip => segs[s].src # "torn"
  <2> TAKE s \in Segs
  <2>1. segs[s].prev \in 0 .. Len(segs)
    <3>1. segs[s].prev \in Range(archived[segs[s].stage]) \cup {0}
      BY <1>0 DEF SourcesInv
    <3>2. PICK g \in Stage : g = segs[s].stage
      BY <1>2
    <3>3. segs[s].prev \in Segs \cup {0}
      BY <1>3, <3>1, <3>2
    <3> QED
      BY <1>0, <3>3
  <2>2. segs[s].zip => segs[s].src # "torn"
    BY <1>0 DEF SourcesInv
  <2> QED
    BY <1>1, <2>1, <2>2 DEF Segment
<1>5. TypeOK
  <2>1. {broken, uncertain, blocked, opened} \subseteq BOOLEAN
    BY <1>0 DEF FilesTyped, TasksTyped
  <2>2. \A g \in Stage : /\ live[g] \in 0 .. Len(segs)
                         /\ live[g] # 0 => segs[live[g]].stage = g
                         /\ Range(archived[g]) \subseteq DOMAIN segs
    BY <1>0, <1>3 DEF FilesTyped
  <2>3. /\ arch.pc \in Steps /\ arch.seg \in 0 .. Len(segs)
    BY <1>0 DEF FilesTyped, Idle
  <2>4. \A t \in Task : att[t] \in 0 .. MaxAttempts[t]
    BY <1>0 DEF TasksTyped, RunLogAssumption
  <2>5. /\ core \in {"down", "recovering", "up", "stopping", "refused"}
        /\ status \in [Task -> {"todo", "running", "done", "failed"}]
        /\ fresh \subseteq Calls /\ accounted \subseteq Calls
        /\ pc \in [Task -> {"idle", "claimed", "working", "asked", "answered", "accounted",
                            "result"}]
        /\ \A t \in Task : pc[t] \notin {"idle", "result"} => status[t] = "running"
    BY <1>0 DEF TasksTyped
  <2> QED
    BY <1>0, <1>4, <2>1, <2>2, <2>3, <2>4, <2>5 DEF TypeOK, Steps
<1>6. \A s \in Segs :
        /\ segs[s].zip => segs[s].frozen = segs[s].log
        /\ segs[s].src = "gone" => segs[s].zip /\ s \in AllArchived
  BY <1>0, <1>2 DEF SourcesInv, Confirmed, AllArchived
<1>7. \A g \in Stage : \A i \in DOMAIN archived[g] :
        LET earlier == {archived[g][j] : j \in 1 .. i - 1}
        IN  /\ archived[g][i] \notin earlier
            /\ segs[archived[g][i]].before \in earlier \cup {0}
  <2>1. \A g \in Stage : DOMAIN archived[g] = 1 .. Len(archived[g])
    BY <1>0, LenProperties DEF FilesTyped
  <2> QED
    BY <1>0, <2>1 DEF ChainInv
<1> QED
  BY <1>0, <1>5, <1>6, <1>7 DEF NothingLost

\* No line is lost: what is published has every line of its source, sources go
\* only when the Store has confirmed their ZIP, and the archives of a stage are
\* a chain; for any number of tasks, stages, attempts and faults.
THEOREM NothingGoesMissing == RunLogAssumption => (Spec => []NothingLost)
<1> SUFFICES ASSUME RunLogAssumption PROVE Spec => []NothingLost
  OBVIOUS
<1>1. Init => Typed /\ FilesInv
  BY InitTyped, FilesInitially
<1>2. Typed /\ FilesInv /\ [Next]_vars => (Typed /\ FilesInv)'
  BY NextTyped, FilesKept
<1>3. Typed /\ FilesInv => NothingLost
  BY NothingIsLost
<1> QED
  BY <1>1, <1>2, <1>3, PTL DEF Spec
----
\* What an archive says of its calls.

\* A ZIP is only written of a log that is complete.
LEMMA CompleteChanged ==
  ASSUME CompleteInv, NEW s \in Segs, Changed(s), accounted \subseteq accounted',
         segs'[s].zip \/ segs'[s].tmp = "whole" => Complete(segs'[s].frozen),
         arch'.pc = "temp" => arch'.seg \in Segs /\ Complete(segs'[arch'.seg].log),
         arch'.pc = "whole" => segs'[arch'.seg].tmp = "whole"
  PROVE  CompleteInv'
<1>1. Segs' = Segs /\ \A i \in Segs : i # s => segs'[i] = segs[i]
  BY DEF Changed, Segs
<1>2. ASSUME NEW l, Complete(l) PROVE Complete(l)'
  BY <1>2 DEF Complete, Doubtful
<1>3. ASSUME NEW i \in Segs, segs'[i].zip \/ segs'[i].tmp = "whole"
      PROVE  Complete(segs[i].frozen)'
  <2>1. PICK l : l = segs'[i].frozen
    OBVIOUS
  <2>2. Complete(l)
    BY <1>1, <1>3, <2>1 DEF CompleteInv
  <2> QED
    BY <1>2, <2>1, <2>2
<1>4. ASSUME arch'.pc = "temp" PROVE Complete(segs[arch.seg].log)'
  <2>1. PICK l : l = segs'[arch'.seg].log
    OBVIOUS
  <2> QED
    BY <1>2, <1>4, <2>1
<1> QED
  BY <1>1, <1>3, <1>4 DEF CompleteInv

\* The segments as they were.
LEMMA CompleteAlone ==
  ASSUME CompleteInv, UNCHANGED segs, accounted \subseteq accounted',
         arch'.pc = "temp" => Complete(segs[arch'.seg].log),
         arch'.pc = "whole" => segs[arch'.seg].tmp = "whole"
  PROVE  CompleteInv'
<1>1. Segs' = Segs
  BY DEF Segs
<1>2. ASSUME NEW l, Complete(l) PROVE Complete(l)'
  BY <1>2 DEF Complete, Doubtful
<1>3. ASSUME NEW i \in Segs, segs[i].zip \/ segs[i].tmp = "whole"
      PROVE  Complete(segs[i].frozen)'
  <2>1. PICK l : l = segs[i].frozen
    OBVIOUS
  <2>2. Complete(l) /\ l = segs'[i].frozen
    BY <1>3, <2>1 DEF CompleteInv
  <2> QED
    BY <1>2, <2>2
<1>4. ASSUME arch'.pc = "temp" PROVE Complete(segs[arch.seg].log)'
  <2>1. PICK l : l = segs[arch'.seg].log
    OBVIOUS
  <2>2. Complete(l) /\ l = segs'[arch'.seg].log
    BY <1>4, <2>1
  <2> QED
    BY <1>2, <2>2
<1> QED
  BY <1>1, <1>3, <1>4 DEF CompleteInv

\* Lines do not reach a segment whose ZIP is being written.
LEMMA WritesComplete ==
  ASSUME FilesTyped, CompleteInv, NEW A, NEW U, Writes(A, U), accounted \subseteq accounted'
  PROVE  CompleteInv'
<1>0. UNCHANGED arch /\ (arch.pc # "idle" => arch.seg \in Segs) /\ Len(segs) \in Nat
  BY LenProperties DEF Writes, FilesTyped
<1>1. CASE UNCHANGED segs
  BY <1>0, <1>1, CompleteAlone DEF CompleteInv
<1>2. ASSUME NEW s \in Segs, Changed(s), Kept(s, {}) PROVE CompleteInv'
  <2>1. \A i \in Segs : /\ segs'[i].log = segs[i].log /\ segs'[i].tmp = segs[i].tmp
                        /\ segs'[i].zip = segs[i].zip /\ segs'[i].frozen = segs[i].frozen
    BY <1>2 DEF Changed, Kept
  <2> QED
    BY <1>0, <1>2, <2>1, CompleteChanged DEF CompleteInv
<1>3. ASSUME NEW g \in Stage, NEW l \in Log, NotSealing, Extends(g, l)
      PROVE  CompleteInv'
  <2> DEFINE s == live[g]
  <2>1. s \in Segs /\ Changed(s) /\ Kept(s, {"log"})
    BY <1>3 DEF Extends
  <2>2. segs'[s].tmp = segs[s].tmp /\ segs'[s].zip = segs[s].zip
        /\ segs'[s].frozen = segs[s].frozen
    BY <2>1 DEF Kept
  <2> HIDE DEF s
  <2>3. arch'.pc # "temp" /\ arch'.pc # "whole"
    BY <1>0, <1>3 DEF NotSealing, Locked
  <2> QED
    BY <2>1, <2>2, <2>3, CompleteChanged DEF CompleteInv
<1>4. ASSUME NEW g \in Stage, NEW l \in Log, NotSealing, Opens(g, l)
      PROVE  CompleteInv'
  <2>1. /\ \A i \in Segs : segs'[i] = segs[i]
        /\ ~segs'[Len(segs) + 1].zip /\ segs'[Len(segs) + 1].tmp = "none"
        /\ Segs' = Segs \cup {Len(segs) + 1}
    BY <1>0, <1>4 DEF Opens, Segs
  <2>2. arch'.pc # "temp" /\ arch'.pc # "whole"
    BY <1>0, <1>4 DEF NotSealing, Locked
  <2>3. ASSUME NEW k, Complete(k) PROVE Complete(k)'
    BY <2>3 DEF Complete, Doubtful
  <2>4. ASSUME NEW i \in Segs, segs'[i].zip \/ segs'[i].tmp = "whole"
        PROVE  Complete(segs[i].frozen)'
    <3>1. PICK k : k = segs[i].frozen
      OBVIOUS
    <3>2. Complete(k) /\ k = segs'[i].frozen
      BY <2>1, <2>4, <3>1 DEF CompleteInv
    <3> QED
      BY <2>3, <3>2
  <2> QED
    BY <2>1, <2>2, <2>4 DEF CompleteInv
<1> QED
  BY <1>1, <1>2, <1>3, <1>4 DEF Writes

\* A log that is sealed has an end to every call it asked.
LEMMA SealedIsComplete ==
  ASSUME NEW s, segs[s].log \in Log,
         Pending(s) = {},
         segs[s].log.unreconciled = {} => Unaccounted(s) = {}
  PROVE  Complete(segs[s].log)
  BY DEF Pending, Unaccounted, Complete, Doubtful

\* The Core writes and links no ZIP that claims more than the Store knows.
LEMMA CoreMovesComplete ==
  ASSUME RunLogAssumption, Typed, CompleteInv, CoreMoves
  PROVE  CompleteInv'
<1> DEFINE s == arch.seg
<1>0. FilesTyped /\ accounted \subseteq accounted'
      /\ (arch.pc # "idle" => s \in Segs /\ segs[s].log \in Log)
  <2>1. accounted' = accounted
    BY InspectStep, CrashStep
       DEF CoreMoves, LoseLog, Choose, Seal, WriteZip, LinkZip, RemoveTemporary,
           RecordArchived, Clean, ArchiveFails, Stop, Stopped, Start, Mark,
           SealInterrupted, RecordBlocked, OpenRequired, Serve, store, Typed
  <2> QED
    BY <2>1, UnderWay DEF Typed
<1>1. CASE OpenRequired
  BY <1>0, <1>1, OpenRequiredStep, WritesComplete
<1>2. CASE Seal
  <2>1. CASE arch' = Idle /\ UNCHANGED segs
    BY <1>0, <2>1, CompleteAlone DEF Idle
  <2>2. CASE ~Incomplete(s) /\ Moves("temp", {"tmp"}) /\ segs'[s].tmp = "torn"
    <3>1. /\ arch'.pc = "temp" /\ arch'.seg = s /\ Changed(s) /\ Kept(s, {"tmp"}) /\ s \in Segs
      BY <2>2 DEF Moves
    <3>2. arch.pc = "chosen"
      BY <1>2 DEF Seal
    <3>3. Complete(segs[s].log)
      BY <1>0, <2>2, <3>2, SealedIsComplete DEF Incomplete
    <3> QED
      BY <1>0, <2>2, <3>1, <3>3, CompleteChanged DEF Kept, CompleteInv
  <2> QED
    BY <1>0, <1>2, <2>1, <2>2, SealStep
<1>3. CASE SealInterrupted
  <2>1. /\ arch.pc = "mark" /\ Pending(s) = {} /\ ToReconcile(s) = {}
        /\ arch'.pc = "temp" /\ arch'.seg = s /\ Changed(s) /\ Kept(s, {"tmp"}) /\ s \in Segs
        /\ segs'[s].tmp = "torn"
    BY <1>0, <1>3, SealInterruptedStep DEF Moves
  <2>2. Complete(segs[s].log)
    BY <1>0, <2>1, SealedIsComplete DEF ToReconcile
  <2> QED
    BY <1>0, <2>1, <2>2, CompleteChanged DEF Kept, CompleteInv
<1>4. CASE WriteZip
  <2>1. /\ arch.pc = "temp" /\ arch'.pc = "whole" /\ arch'.seg = s
        /\ Changed(s) /\ Kept(s, {"tmp", "frozen"}) /\ s \in Segs
        /\ segs'[s].tmp = "whole" /\ segs'[s].frozen = segs[s].log
    BY <1>0, <1>4, WriteZipStep DEF Moves
  <2>2. Complete(segs'[s].frozen)
    BY <2>1 DEF CompleteInv
  <2> QED
    BY <1>0, <2>1, <2>2, CompleteChanged
<1>5. CASE LinkZip
  <2>1. /\ arch.pc = "whole" /\ arch'.pc = "linked"
        /\ Changed(s) /\ Kept(s, {"zip"}) /\ s \in Segs
    BY <1>0, <1>5, LinkZipStep DEF Moves
  <2>2. Complete(segs'[s].frozen)
    BY <2>1 DEF CompleteInv, Kept
  <2> QED
    BY <1>0, <2>1, <2>2, CompleteChanged
<1>6. CASE RemoveTemporary
  <2>1. /\ arch'.pc = "sealed" /\ Changed(s) /\ Kept(s, {"tmp"}) /\ s \in Segs
        /\ segs'[s].tmp = "none"
    BY <1>0, <1>6, RemoveTemporaryStep DEF Moves
  <2> QED
    BY <1>0, <2>1, CompleteChanged DEF Kept, CompleteInv
<1>7. CASE RecordArchived
  <2>1. UNCHANGED segs /\ arch'.pc = "archived"
    BY <1>0, <1>7, RecordArchivedStep
  <2> QED
    BY <1>0, <2>1, CompleteAlone
<1>8. CASE Clean
  <2>1. arch' = Idle /\ Changed(s) /\ Kept(s, {"src"}) /\ s \in Segs
    BY <1>0, <1>8, CleanStep
  <2> QED
    BY <1>0, <2>1, CompleteChanged DEF Kept, CompleteInv, Idle
<1>9. ASSUME NEW x \in Segs, Changed(x), Kept(x, {"src"}),
             arch' = Idle \/ (arch' = arch /\ NotSealing)
      PROVE  CompleteInv'
  <2>1. arch'.pc # "temp" /\ arch'.pc # "whole"
    BY <1>9 DEF Idle, NotSealing, Locked
  <2> QED
    BY <1>0, <1>9, <2>1, CompleteChanged DEF Kept, CompleteInv
<1>10. ASSUME UNCHANGED segs, arch' = Idle \/ (arch' = arch /\ NotSealing)
       PROVE  CompleteInv'
  <2>1. arch'.pc # "temp" /\ arch'.pc # "whole"
    BY <1>10 DEF Idle, NotSealing, Locked
  <2> QED
    BY <1>0, <1>10, <2>1, CompleteAlone
<1>11. CASE LoseLog
  BY <1>0, <1>9, <1>10, <1>11, LoseLogStep
<1>12. CASE Crash
  BY <1>0, <1>9, <1>10, <1>12, CrashStep
<1>13. CASE Stop \/ Serve \/ Stopped \/ ArchiveFails \/ Start
  <2>1. UNCHANGED segs /\ (arch' = arch \/ arch' = Idle)
    BY <1>13 DEF Stop, Serve, Stopped, ArchiveFails, Start, Forget, memory
  <2>2. CASE arch' = Idle
    BY <1>10, <2>1, <2>2
  <2>3. CASE arch' = arch
    BY <1>0, <2>1, <2>3, CompleteAlone DEF CompleteInv
  <2> QED
    BY <2>1, <2>2, <2>3
<1>14. ASSUME NEW g \in Stage, Choose(g) PROVE CompleteInv'
  <2>1. UNCHANGED segs /\ arch'.pc = "chosen"
    BY <1>14 DEF Choose
  <2> QED
    BY <1>0, <2>1, CompleteAlone
<1>15. CASE RecordBlocked
  <2>1. UNCHANGED segs /\ arch'.pc = "settled"
    BY <1>0, <1>15, ArchivingMoves DEF RecordBlocked, Archiving, Steps
  <2> QED
    BY <1>0, <2>1, CompleteAlone
<1>16. ASSUME NEW x \in DOMAIN segs, Inspect(x) PROVE CompleteInv'
  <2>1. x \in Segs /\ arch = Idle
    BY <1>0, <1>16, InspectStep
  <2>2. CASE UNCHANGED <<arch, segs>>
    BY <1>10, <2>1, <2>2
  <2>3. CASE UNCHANGED segs /\ arch' = [pc |-> "sealed", seg |-> x]
    BY <1>0, <2>3, CompleteAlone
  <2>4. CASE UNCHANGED segs /\ segs[x].tmp = "whole" /\ arch' = [pc |-> "whole", seg |-> x]
    BY <1>0, <2>4, CompleteAlone
  <2>5. CASE Changed(x) /\ Kept(x, {"prev"}) /\ arch' = [pc |-> "mark", seg |-> x]
    <3>1. arch'.pc = "mark"
      BY <2>5
    <3> QED
      BY <1>0, <2>1, <2>5, <3>1, CompleteChanged DEF Kept, CompleteInv
  <2> QED
    BY <1>0, <1>16, <2>2, <2>3, <2>4, <2>5, InspectStep
<1>17. ASSUME NEW c \in Calls, Mark(c) PROVE CompleteInv'
  <2>1. arch'.pc = "mark" /\ Changed(s) /\ Kept(s, {"log"}) /\ s \in Segs
    BY <1>0, <1>17, MarkStep DEF Moves
  <2> QED
    BY <1>0, <2>1, CompleteChanged DEF Kept, CompleteInv
<1> QED
  BY <1>1, <1>2, <1>3, <1>4, <1>5, <1>6, <1>7, <1>8, <1>11, <1>12, <1>13, <1>14, <1>15,
     <1>16, <1>17 DEF CoreMoves

\* Every step keeps the archives honest about their calls.
LEMMA CompleteKept ==
  ASSUME RunLogAssumption, Typed, CompleteInv, [Next]_vars
  PROVE  CompleteInv'
<1>1. ASSUME NEW t \in Task, TaskMoves(t) PROVE CompleteInv'
  BY <1>1, TaskSteps, WritesComplete DEF TaskStep, Typed
<1>2. CASE UNCHANGED vars
  <2>1. UNCHANGED <<segs, arch, accounted>>
    BY <1>2 DEF vars, memory, store
  <2> QED
    BY <2>1, CompleteAlone DEF CompleteInv
<1> QED
  BY <1>1, <1>2, NextMoves, CoreMovesComplete

\* There is no archive at first.
LEMMA CompleteInitially ==
  ASSUME Init
  PROVE  CompleteInv
<1>1. Segs = {} /\ arch.pc = "idle"
  BY EmptySeq DEF Init, Segs, Idle
<1> QED
  BY <1>1 DEF CompleteInv

\* An archive that calls itself complete has no call that the Store does not
\* know of, whatever was lost, sealed again or taken up by a later Core.
THEOREM CompleteArchives == RunLogAssumption => (Spec => []CompleteIsComplete)
<1> SUFFICES ASSUME RunLogAssumption PROVE Spec => []CompleteIsComplete
  OBVIOUS
<1>1. Init => Typed /\ CompleteInv
  BY InitTyped, CompleteInitially
<1>2. Typed /\ CompleteInv /\ [Next]_vars => (Typed /\ CompleteInv)'
  BY NextTyped, CompleteKept
<1>3. Typed /\ CompleteInv => CompleteIsComplete
  BY LenProperties DEF Typed, FilesTyped, Segs, CompleteInv, Complete, CompleteIsComplete
<1> QED
  BY <1>1, <1>2, <1>3, PTL DEF Spec
----
\* The calls of the log.

\* Lines add the calls A and the doubts U to the segments that are there or to
\* a new one, and no other segment becomes the one that a stage appends to.
LEMMA WritesSay ==
  ASSUME FilesTyped, NEW A, NEW U, Writes(A, U)
  PROVE  /\ \A i \in Segs' :
              \/ /\ i \in Segs /\ segs'[i].src = segs[i].src
                 /\ segs'[i].log.asked \subseteq segs[i].log.asked \cup A
                 /\ segs'[i].log.unknown \subseteq segs[i].log.unknown \cup U
              \/ /\ i \notin Segs /\ segs'[i].src = "whole"
                 /\ segs'[i].log.asked \subseteq A /\ segs'[i].log.unknown \subseteq U
         /\ \A g \in Stage : live'[g] # 0 =>
              live'[g] \in Segs' /\ (live'[g] = live[g] \/ live'[g] \notin Segs)
<1>0. /\ Len(segs) \in Nat /\ live \in [Stage -> Nat]
      /\ \A g \in Stage : live[g] # 0 => live[g] \in Segs
  BY LenProperties DEF FilesTyped
<1>1. CASE UNCHANGED <<segs, live>>
  BY <1>0, <1>1 DEF Segs
<1>2. ASSUME NEW s \in Segs, Changed(s), Kept(s, {}), UNCHANGED live
      PROVE  Segs' = Segs /\ live' = live
             /\ \A i \in Segs : segs'[i].src = segs[i].src /\ segs'[i].log = segs[i].log
  BY <1>2 DEF Changed, Kept, Segs
<1>3. ASSUME NEW g \in Stage, NEW l \in Log, Extends(g, l)
      PROVE  /\ Segs' = Segs /\ live' = live /\ LiveLog(g) = segs[live[g]].log
             /\ \A i \in Segs : segs'[i].src = segs[i].src
             /\ \A i \in Segs : i # live[g] => segs'[i].log = segs[i].log
             /\ segs'[live[g]].log = l
  <2>1. live[g] \in Segs /\ live[g] # 0
    BY <1>3 DEF Extends, Segs
  <2> QED
    BY <1>3, <2>1 DEF Extends, Changed, Kept, Segs, LiveLog
<1>4. ASSUME NEW g \in Stage, NEW l \in Log, Opens(g, l)
      PROVE  /\ Segs' = Segs \cup {Len(segs) + 1} /\ Len(segs) + 1 \notin Segs
             /\ \A i \in Segs : segs'[i] = segs[i]
             /\ segs'[Len(segs) + 1].log = l /\ segs'[Len(segs) + 1].src = "whole"
             /\ live' = [live EXCEPT ![g] = Len(segs) + 1]
             /\ LiveLog(g).asked = {} /\ LiveLog(g).unknown = {}
  BY <1>0, <1>4 DEF Opens, Segs, LiveLog, NoLog
<1>5. ASSUME NEW g \in Stage, NEW l \in Log, Extends(g, l),
             l.asked \subseteq LiveLog(g).asked \cup A,
             l.unknown \subseteq LiveLog(g).unknown \cup U
      PROVE  \A i \in Segs : /\ segs'[i].log.asked \subseteq segs[i].log.asked \cup A
                             /\ segs'[i].log.unknown \subseteq segs[i].log.unknown \cup U
  BY <1>3, <1>5
<1>6. ASSUME NEW g \in Stage, NEW l \in Log, Opens(g, l),
             l.asked \subseteq LiveLog(g).asked \cup A,
             l.unknown \subseteq LiveLog(g).unknown \cup U
      PROVE  l.asked \subseteq A /\ l.unknown \subseteq U
  BY <1>4, <1>6
<1>7. ASSUME NEW g \in Stage, NEW l \in Log, Opens(g, l), NEW h \in Stage, live'[h] # 0
      PROVE  live'[h] \in Segs' /\ (live'[h] = live[h] \/ live'[h] \notin Segs)
  BY <1>0, <1>4, <1>7
<1>8. ASSUME NEW g \in Stage, NEW l \in Log, Opens(g, l),
             l.asked \subseteq A, l.unknown \subseteq U, NEW i \in Segs'
      PROVE  \/ i \in Segs /\ segs'[i] = segs[i]
             \/ /\ i \notin Segs /\ segs'[i].src = "whole"
                /\ segs'[i].log.asked \subseteq A /\ segs'[i].log.unknown \subseteq U
  BY <1>4, <1>8
<1>9. CASE \E s \in Segs : Changed(s) /\ Kept(s, {}) /\ UNCHANGED live
  BY <1>0, <1>2, <1>9
<1>10. CASE \E g \in Stage, l \in Log :
              /\ Extends(g, l)
              /\ l.asked \subseteq LiveLog(g).asked \cup A
              /\ l.unknown \subseteq LiveLog(g).unknown \cup U
  BY <1>0, <1>3, <1>5, <1>10
<1>11. CASE \E g \in Stage, l \in Log :
              /\ Opens(g, l)
              /\ l.asked \subseteq LiveLog(g).asked \cup A
              /\ l.unknown \subseteq LiveLog(g).unknown \cup U
  BY <1>6, <1>7, <1>8, <1>11
<1> QED
  BY <1>1, <1>9, <1>10, <1>11 DEF Writes

\* A step that leaves the lines alone and lets no source go.
Quiet ==
  /\ Segs' = Segs
  /\ \A i \in Segs : /\ segs'[i].log = segs[i].log
                     /\ segs'[i].src = "gone" => segs[i].src = "gone"

\* A change of a segment is quiet if it is neither of its lines nor of its source.
LEMMA KeptQuiet ==
  ASSUME NEW s \in Segs, NEW F, Changed(s), Kept(s, F), "log" \notin F,
         "src" \notin F \/ segs'[s].src = "torn"
  PROVE  Quiet
  BY DEF Changed, Kept, Quiet, Segs

\* The Core writes lines when it opens a required log and when it marks calls;
\* a source goes when its archive is confirmed.
LEMMA CoreMovesQuiet ==
  ASSUME RunLogAssumption, FilesTyped, CoreMoves
  PROVE  OpenRequired \/ Clean \/ (\E c \in Calls : Mark(c)) \/ Quiet
<1>1. ASSUME UNCHANGED segs PROVE Quiet
  BY <1>1 DEF Quiet, Segs
<1>2. CASE LoseLog
  BY <1>1, <1>2, LoseLogStep, KeptQuiet
<1>3. CASE (\E g \in Stage : Choose(g)) \/ RecordArchived \/ ArchiveFails \/ Stop \/ Stopped
           \/ Start \/ RecordBlocked \/ Serve
  BY <1>1, <1>3 DEF Choose, RecordArchived, ArchiveFails, Stop, Stopped, Start,
                    RecordBlocked, Serve
<1>4. CASE Seal
  BY <1>1, <1>4, SealStep, KeptQuiet DEF Moves
<1>5. CASE WriteZip
  BY <1>5, WriteZipStep, KeptQuiet DEF Moves
<1>6. CASE LinkZip
  BY <1>6, LinkZipStep, KeptQuiet DEF Moves
<1>7. CASE RemoveTemporary
  BY <1>7, RemoveTemporaryStep, KeptQuiet DEF Moves
<1>8. CASE SealInterrupted
  BY <1>8, SealInterruptedStep, KeptQuiet DEF Moves
<1>9. CASE Crash
  BY <1>1, <1>9, CrashStep, KeptQuiet
<1>10. ASSUME NEW s \in DOMAIN segs, Inspect(s) PROVE Quiet
  <2>1. s \in Segs /\ (UNCHANGED segs \/ (Changed(s) /\ Kept(s, {"prev"})))
    BY <1>10, InspectStep
  <2> QED
    BY <1>1, <2>1, KeptQuiet
<1> QED
  BY <1>2, <1>3, <1>4, <1>5, <1>6, <1>7, <1>8, <1>9, <1>10 DEF CoreMoves

\* What such a step does to what the Core knows.
CoreMemory ==
  /\ UNCHANGED <<att, accounted>>
  /\ pc' = pc \/ pc' = [t \in Task |-> "idle"]
  /\ \/ core' = "down" /\ fresh' = {} /\ live' = [g \in Stage |-> 0]
     \/ /\ fresh' = fresh
        /\ OpenRequired \/ \A g \in Stage : live'[g] # 0 => live'[g] = live[g]
        /\ \/ core' = core /\ UNCHANGED uncertain
           \/ core' = core /\ RecordBlocked
           \/ core = "recovering" /\ core' = "refused"
           \/ core = "up" /\ core' = "stopping"
           \/ Start \/ Serve
  /\ core = "recovering" /\ arch'.pc = "settled" => RecordBlocked

\* Every step of the Core is of that form.
LEMMA CoreMovesMemory ==
  ASSUME RunLogAssumption, FilesTyped, CoreMoves
  PROVE  CoreMemory
<1>1. CASE LoseLog \/ Stop \/ Start \/ Serve
  BY <1>1 DEF LoseLog, Stop, Start, Serve, memory, store, CoreMemory, Idle
<1>2. CASE (\E g \in Stage : Choose(g)) \/ ArchiveFails
  BY <1>2 DEF Choose, ArchiveFails, store, CoreMemory, Idle
<1>3. CASE Seal
  <2>1. arch' = Idle \/ Moves("temp", {"tmp"})
    BY <1>3, SealStep
  <2>2. arch'.pc # "settled"
    BY <2>1 DEF Moves, Idle
  <2> QED
    BY <1>3, <2>2 DEF Seal, store, CoreMemory
<1>4. CASE WriteZip \/ LinkZip \/ RemoveTemporary \/ SealInterrupted \/ RecordArchived
  <2>1. arch'.pc # "settled"
    BY <1>4, WriteZipStep, LinkZipStep, RemoveTemporaryStep, SealInterruptedStep,
       RecordArchivedStep DEF Moves
  <2>2. UNCHANGED <<core, uncertain, pc, fresh, att, accounted>>
    BY <1>4 DEF WriteZip, LinkZip, RemoveTemporary, SealInterrupted, RecordArchived, store
  <2>3. \A g \in Stage : live'[g] # 0 => live'[g] = live[g]
    BY <1>4, RemoveTemporaryStep
       DEF WriteZip, LinkZip, SealInterrupted, RecordArchived
  <2> QED
    BY <2>1, <2>2, <2>3 DEF CoreMemory
<1>5. CASE Clean
  BY <1>5 DEF Clean, store, CoreMemory, Idle
<1>6. CASE Stopped
  BY <1>6 DEF Stopped, Forget, store, CoreMemory, Idle
<1>7. CASE Crash
  BY <1>7, CrashStep DEF CoreMemory, Idle
<1>8. ASSUME NEW s \in DOMAIN segs, Inspect(s) PROVE CoreMemory
  <2>1. /\ core = "recovering" /\ UNCHANGED <<uncertain, live, pc, fresh, att, accounted>>
        /\ core' \in {core, "refused"} /\ arch'.pc # "settled"
    BY <1>8, InspectStep DEF store, Idle
  <2> QED
    BY <2>1 DEF CoreMemory
<1>9. ASSUME NEW c \in Calls, Mark(c) PROVE CoreMemory
  BY <1>9 DEF Mark, memory, store, CoreMemory
<1>10. CASE RecordBlocked
  BY <1>10 DEF RecordBlocked, CoreMemory
<1>11. CASE OpenRequired
  BY <1>11, OpenRequiredStep DEF OpenRequired, CoreMemory, Idle
<1> QED
  BY <1>1, <1>2, <1>3, <1>4, <1>5, <1>6, <1>7, <1>8, <1>9, <1>10, <1>11 DEF CoreMoves

\* The calls that a log names are attempts that have asked.
LEMMA CallsKept ==
  ASSUME RunLogAssumption, Typed, CallsInv, [Next]_vars
  PROVE  CallsInv'
<1>0. FilesTyped /\ FilesTyped' /\ Segs' \subseteq Nat
  BY NextTyped DEF Typed, Segs
<1>1. \A i \in Segs' : segs'[i].log.asked \cup segs'[i].log.unknown \subseteq Calls
  <2>1. \A i \in Segs' : segs'[i] \in Segment
    BY <1>0, ElementOfSeq DEF FilesTyped, Segs
  <2> QED
    BY <2>1 DEF Segment, Log
<1>2. \A i \in Segs : \A c \in segs[i].log.asked \cup segs[i].log.unknown : Spent(c)
  BY DEF CallsInv, Spent
<1>3. SUFFICES \A i \in Segs' : \A c \in segs'[i].log.asked \cup segs'[i].log.unknown : Spent(c)'
  BY DEF CallsInv, Spent
<1>4. ASSUME NEW A, NEW U, Writes(A, U), \A c \in Calls : Spent(c) => Spent(c)',
             \A c \in A \cup U : Spent(c)'
      PROVE  \A i \in Segs' : \A c \in segs'[i].log.asked \cup segs'[i].log.unknown : Spent(c)'
  <2> TAKE i \in Segs'
  <2> TAKE c \in segs'[i].log.asked \cup segs'[i].log.unknown
  <2>1. c \in A \cup U
        \/ (i \in Segs /\ c \in segs[i].log.asked \cup segs[i].log.unknown)
    BY <1>0, <1>4, WritesSay
  <2>2. c \in Calls
    BY <1>1
  <2> QED
    BY <1>2, <1>4, <2>1, <2>2
<1>5. ASSUME NEW t \in Task, TaskMoves(t)
      PROVE  \A i \in Segs' : \A c \in segs'[i].log.asked \cup segs'[i].log.unknown : Spent(c)'
  <2>1. TaskStep
    BY <1>5, TaskSteps
  <2>2. CASE Writes({}, {})
    BY <1>4, <2>1, <2>2 DEF TaskStep
  <2>3. ASSUME NEW c \in Calls, Writes({c}, {}), Spent(c)'
        PROVE  \A i \in Segs' : \A d \in segs'[i].log.asked \cup segs'[i].log.unknown : Spent(d)'
    BY <1>4, <2>1, <2>3 DEF TaskStep
  <2>4. ASSUME NEW c \in Calls, Writes({}, {c}), Spent(c)'
        PROVE  \A i \in Segs' : \A d \in segs'[i].log.asked \cup segs'[i].log.unknown : Spent(d)'
    BY <1>4, <2>1, <2>4 DEF TaskStep
  <2> QED
    BY <2>1, <2>2, <2>3, <2>4 DEF TaskStep
<1>6. ASSUME att' = att, pc' = pc \/ pc' = [t \in Task |-> "idle"]
      PROVE  \A c \in Calls : Spent(c) => Spent(c)'
  <2>1. \A c \in Calls : c[1] \in Task
    BY CallParts
  <2> QED
    BY <1>6, <2>1 DEF Spent, NotYet
<1>7. ASSUME Segs' = Segs, \A c \in Calls : Spent(c) => Spent(c)',
             \A i \in Segs : segs'[i].log.asked \cup segs'[i].log.unknown
                               \subseteq segs[i].log.asked \cup segs[i].log.unknown
      PROVE  \A i \in Segs' : \A c \in segs'[i].log.asked \cup segs'[i].log.unknown : Spent(c)'
  BY <1>1, <1>2, <1>7
<1>8. CASE CoreMoves
  <2>1. \A c \in Calls : Spent(c) => Spent(c)'
    BY <1>0, <1>6, <1>8, CoreMovesMemory DEF CoreMemory
  <2>2. CASE OpenRequired
    BY <1>0, <1>4, <2>1, <2>2, OpenRequiredStep
  <2>3. CASE Quiet
    BY <1>7, <2>1, <2>3 DEF Quiet
  <2>4. CASE Clean
    BY <1>0, <1>7, <2>1, <2>4, CleanStep DEF Changed, Kept, Segs
  <2>5. ASSUME NEW c \in Calls, Mark(c)
        PROVE  \A i \in Segs' : \A d \in segs'[i].log.asked \cup segs'[i].log.unknown : Spent(d)'
    <3>1. /\ arch.seg \in Segs /\ Changed(arch.seg)
          /\ segs'[arch.seg].log.asked = segs[arch.seg].log.asked
          /\ segs'[arch.seg].log.unknown
               \subseteq segs[arch.seg].log.asked \cup segs[arch.seg].log.unknown
      BY <1>0, <2>5, MarkStep DEF Moves
    <3> QED
      BY <1>7, <2>1, <3>1 DEF Changed, Segs
  <2> QED
    BY <1>0, <1>8, <2>2, <2>3, <2>4, <2>5, CoreMovesQuiet
<1>9. CASE UNCHANGED vars
  <2>1. UNCHANGED <<segs, pc, att>>
    BY <1>9 DEF vars, memory, store
  <2> QED
    BY <1>2, <2>1 DEF Spent, NotYet, Segs
<1> QED
  BY <1>5, <1>8, <1>9, NextMoves
----
\* What a Core knows of the calls of an earlier one.

\* A step of a task asks in this session, and only when nothing is in doubt.
LEMMA TaskStepDoubt ==
  ASSUME FilesTyped, CallsInv, DoubtInv, TaskStep
  PROVE  DoubtInv'
<1>0. core = "up" /\ core' = "up" /\ accounted \subseteq accounted'
  BY DEF TaskStep
<1>1. \A s \in Segs : \A c \in segs[s].log.unknown : Spent(c)
  BY DEF CallsInv, Spent
<1>2. /\ \A g \in Stage : live[g] # 0 => segs[live[g]].log.asked \subseteq fresh
      /\ ~uncertain => \A s \in Segs : /\ segs[s].log.asked \subseteq fresh \cup accounted
                                       /\ segs[s].log.unknown \cap fresh = {}
  BY <1>0 DEF DoubtInv
<1>3. ASSUME NEW A, NEW U, Writes(A, U), fresh \cup A \subseteq fresh'
      PROVE  \A g \in Stage : live'[g] # 0 => segs'[live'[g]].log.asked \subseteq fresh'
  <2> TAKE g \in Stage
  <2> HAVE live'[g] # 0
  <2>1. live'[g] \in Segs' /\ (live'[g] = live[g] \/ live'[g] \notin Segs)
    BY <1>3, WritesSay
  <2>2. PICK i \in Segs' : i = live'[g]
    BY <2>1
  <2>3. \/ i = live[g] /\ i # 0 /\ segs'[i].log.asked \subseteq segs[i].log.asked \cup A
        \/ segs'[i].log.asked \subseteq A
    BY <1>3, <2>1, <2>2, WritesSay
  <2> QED
    BY <1>2, <1>3, <2>2, <2>3
<1>4. ASSUME NEW A, Writes(A, {}), fresh' = fresh \cup A, ~uncertain,
             \A c \in A : ~Spent(c)
      PROVE  \A s \in Segs' : /\ segs'[s].log.asked \subseteq fresh' \cup accounted'
                              /\ segs'[s].log.unknown \cap fresh' = {}
  <2> TAKE s \in Segs'
  <2>1. CASE /\ s \in Segs
             /\ segs'[s].log.asked \subseteq segs[s].log.asked \cup A
             /\ segs'[s].log.unknown \subseteq segs[s].log.unknown
    BY <1>0, <1>1, <1>2, <1>4, <2>1
  <2>2. CASE segs'[s].log.asked \subseteq A /\ segs'[s].log.unknown = {}
    BY <1>4, <2>2
  <2> QED
    BY <1>4, <2>1, <2>2, WritesSay
<1>5. CASE Writes({}, {}) /\ UNCHANGED <<fresh, uncertain>>
  BY <1>0, <1>3, <1>4, <1>5 DEF DoubtInv
<1>6. ASSUME NEW c \in Calls, Writes({c}, {}), fresh' = fresh \cup {c}, ~uncertain, ~Spent(c)
      PROVE  DoubtInv'
  BY <1>0, <1>3, <1>4, <1>6 DEF DoubtInv
<1>7. ASSUME NEW c \in Calls, Writes({}, {c}), UNCHANGED fresh, uncertain'
      PROVE  DoubtInv'
  BY <1>0, <1>3, <1>7 DEF DoubtInv
<1> QED
  BY <1>5, <1>6, <1>7 DEF TaskStep

\* A restarted Core learns of the doubts of confirmed archives from the Store.
LEMMA StartKnows ==
  ASSUME Typed, FilesInv, CompleteInv, DoubtInv, Start
  PROVE  DoubtInv'
<1>1. /\ core = "down" /\ core' = "recovering" /\ uncertain' = StoreDoubts
      /\ UNCHANGED <<live, arch, fresh, segs, accounted>>
  BY DEF Start, store
<1>2. ASSUME NEW s \in Segs, segs[s].src = "gone", ~StoreDoubts
      PROVE  segs[s].log.asked \subseteq accounted
  <2>1. segs[s].zip /\ Confirmed(s) /\ segs[s].frozen = segs[s].log
    BY <1>2 DEF FilesInv, SourcesInv
  <2>2. segs[s].stage \in Stage
    <3>1. segs[s] \in Segment
      BY ElementOfSeq DEF Typed, FilesTyped, Segs
    <3> QED
      BY <3>1 DEF Segment
  <2>3. ~Doubtful(segs[s].frozen)
    BY <1>2, <2>1, <2>2 DEF StoreDoubts, Confirmed
  <2> QED
    BY <1>2, <2>1, <2>3 DEF CompleteInv, Complete
<1>3. arch.pc # "settled"
  BY <1>1 DEF FilesInv, ArchiveInv
<1> QED
  BY <1>1, <1>2, <1>3 DEF DoubtInv, Known, Segs

\* Of a segment whose archive is confirmed it takes the doubts over.
LEMMA RecordBlockedKnows ==
  ASSUME Typed, FilesInv, CompleteInv, DoubtInv, RecordBlocked
  PROVE  DoubtInv'
<1> DEFINE s == arch.seg
<1>1. /\ core = "recovering" /\ core' = core /\ arch.pc = "archived" /\ arch'.seg = s
      /\ UNCHANGED <<live, fresh, segs, accounted>>
      /\ s \in Segs
  BY UnderWay, ArchivingMoves DEF RecordBlocked, Archiving, Steps, Typed
<1>2. uncertain' = (uncertain \/ Doubtful(segs[s].frozen) \/ Unaccounted(s) # {})
  BY DEF RecordBlocked
<1>3. segs[s].zip /\ segs[s].frozen = segs[s].log
  BY <1>1 DEF FilesInv, ArchiveInv, SourcesInv
<1>4. Known(s)'
  <2>1. Complete(segs[s].log)
    BY <1>1, <1>3 DEF CompleteInv
  <2>2. uncertain' \/ segs[s].log.asked \subseteq accounted
    BY <1>2, <1>3, <2>1 DEF Complete
  <2> QED
    BY <1>1, <2>2 DEF Known
<1>5. ASSUME NEW i \in Segs, segs[i].src = "gone" PROVE Known(i)'
  BY <1>1, <1>2, <1>5 DEF DoubtInv, Known
<1>6. Segs' = Segs /\ core' # "up"
  BY <1>1 DEF Segs
<1> QED
  BY <1>1, <1>4, <1>5, <1>6 DEF DoubtInv

\* A Core that serves has dealt with every segment that it found.
LEMMA ServeKnows ==
  ASSUME Typed, DoubtInv, Serve
  PROVE  DoubtInv'
<1>1. /\ core = "recovering" /\ core' = "up" /\ Orphans = {}
      /\ UNCHANGED <<live, fresh, segs, accounted, uncertain>> /\ fresh = {}
  BY DEF Serve, memory, store, DoubtInv
<1>2. DOMAIN segs = Segs
  BY LenProperties DEF Typed, FilesTyped, Segs
<1>3. ASSUME NEW s \in Segs, ~uncertain
      PROVE  segs[s].log.asked \subseteq accounted
  <2>1. CASE segs[s].src = "gone"
    BY <1>1, <1>3, <2>1 DEF DoubtInv, Known
  <2>2. ASSUME NEW g \in Stage, live[g] = s
        PROVE  segs[s].log.asked \subseteq {}
    <3>1. live[g] # 0
      BY <2>2 DEF Segs
    <3> QED
      BY <1>1, <2>2, <3>1 DEF DoubtInv
  <2> QED
    BY <1>1, <1>2, <2>1, <2>2 DEF Orphans
<1>4. Segs' = Segs
  BY <1>1 DEF Segs
<1> QED
  BY <1>1, <1>3, <1>4 DEF DoubtInv

\* The other steps of the Core ask nothing.
LEMMA CoreMovesDoubt ==
  ASSUME RunLogAssumption, Typed, FilesInv, CompleteInv, DoubtInv, CoreMoves
  PROVE  DoubtInv'
<1>0. FilesTyped /\ CoreMemory /\ accounted' = accounted
      /\ (\A g \in Stage : live[g] # 0 => live[g] \in Segs)
  BY CoreMovesMemory DEF Typed, FilesTyped, CoreMemory
<1>1. CASE Start \/ Serve \/ RecordBlocked
  BY <1>1, StartKnows, ServeKnows, RecordBlockedKnows
<1>2. CASE ~(Start \/ Serve \/ RecordBlocked)
  <2>1. \/ core' = "down" /\ fresh' = {} /\ live' = [g \in Stage |-> 0]
        \/ /\ fresh' = fresh
           /\ OpenRequired \/ \A g \in Stage : live'[g] # 0 => live'[g] = live[g]
           /\ \/ core' = core /\ UNCHANGED uncertain
              \/ core = "recovering" /\ core' = "refused"
              \/ core = "up" /\ core' = "stopping"
    BY <1>0, <1>2 DEF CoreMemory
  <2>2. core = "recovering" => arch'.pc # "settled"
    BY <1>0, <1>2 DEF CoreMemory
  <2>3. \A i \in Segs' :
          \/ /\ i \in Segs /\ segs'[i].log.asked \subseteq segs[i].log.asked
             /\ core # "recovering" => segs'[i].log.unknown \subseteq segs[i].log.unknown
             /\ segs'[i].src = "gone" => segs[i].src = "gone" \/ (Clean /\ i = arch.seg)
          \/ i \notin Segs /\ OpenRequired /\ segs'[i].log.asked = {}
    <3>1. CASE OpenRequired
      BY <1>0, <3>1, OpenRequiredStep, WritesSay
    <3>2. CASE Quiet
      BY <3>2 DEF Quiet
    <3>3. CASE Clean
      BY <1>0, <3>3, CleanStep DEF Changed, Kept, Segs
    <3>4. ASSUME NEW c \in Calls, Mark(c)
          PROVE  /\ Segs' = Segs /\ core = "recovering"
                 /\ \A i \in Segs : /\ segs'[i].log.asked = segs[i].log.asked
                                    /\ segs'[i].src = segs[i].src
      <4>1. /\ arch.pc = "mark" /\ arch.seg \in Segs /\ Changed(arch.seg)
            /\ Kept(arch.seg, {"log"})
            /\ segs'[arch.seg].log.asked = segs[arch.seg].log.asked
        BY <1>0, <3>4, MarkStep DEF Moves
      <4>2. core = "recovering"
        BY <4>1 DEF FilesInv, ArchiveInv
      <4> QED
        BY <4>1, <4>2 DEF Changed, Kept, Segs
    <3> QED
      BY <1>0, <3>1, <3>2, <3>3, <3>4, CoreMovesQuiet
  <2>4. core' \notin {"up", "stopping"} => fresh' = {}
    BY <2>1 DEF DoubtInv
  <2>5. \A g \in Stage : live'[g] # 0 => segs'[live'[g]].log.asked \subseteq fresh'
    <3> TAKE g \in Stage
    <3> HAVE live'[g] # 0
    <3>1. CASE OpenRequired
      <4>1. live'[g] \in Segs' /\ (live'[g] = live[g] \/ live'[g] \notin Segs)
        BY <1>0, <3>1, OpenRequiredStep, WritesSay
      <4>2. fresh' = fresh
        BY <3>1 DEF OpenRequired
      <4> QED
        BY <1>0, <2>3, <4>1, <4>2 DEF DoubtInv
    <3>2. CASE ~OpenRequired
      <4>1. live'[g] = live[g] /\ fresh' = fresh
        BY <2>1, <3>2
      <4>2. live'[g] \in Segs'
        BY <1>0, <3>2, <4>1, CoreMovesQuiet, CleanStep, MarkStep
           DEF Quiet, Changed, Moves, Segs
      <4> QED
        BY <2>3, <3>2, <4>1, <4>2 DEF DoubtInv
    <3> QED
      BY <3>1, <3>2
  <2>6. ASSUME core' = "recovering"
        PROVE  \A i \in Segs' : segs'[i].src = "gone" \/ (arch'.pc = "settled" /\ arch'.seg = i)
                                  => Known(i)'
    <3>1. core = "recovering" /\ UNCHANGED uncertain
      BY <2>1, <2>6
    <3> TAKE i \in Segs'
    <3> HAVE segs'[i].src = "gone" \/ (arch'.pc = "settled" /\ arch'.seg = i)
    <3>2. segs'[i].src = "gone"
      BY <2>2, <3>1
    <3>3. CASE segs'[i].log.asked = {}
      BY <3>3 DEF Known
    <3>4. CASE /\ i \in Segs /\ segs'[i].log.asked \subseteq segs[i].log.asked
               /\ segs[i].src = "gone" \/ (Clean /\ i = arch.seg)
      <4>1. Clean => arch.pc = "settled"
        BY <3>1 DEF Clean
      <4>2. Known(i)
        BY <3>1, <3>4, <4>1 DEF DoubtInv
      <4> QED
        BY <1>0, <3>1, <3>4, <4>2 DEF Known
    <3> QED
      BY <2>3, <3>2, <3>3, <3>4
  <2>7. ASSUME core' = "up", ~uncertain'
        PROVE  \A i \in Segs' : /\ segs'[i].log.asked \subseteq fresh' \cup accounted'
                                /\ segs'[i].log.unknown \cap fresh' = {}
    <3>1. core = "up" /\ ~uncertain /\ fresh' = fresh
      BY <2>1, <2>7
    <3>2. ~OpenRequired
      BY <3>1 DEF OpenRequired
    <3> QED
      BY <1>0, <2>3, <3>1, <3>2 DEF DoubtInv
  <2> QED
    BY <2>4, <2>5, <2>6, <2>7 DEF DoubtInv
<1> QED
  BY <1>1, <1>2

\* What a Core knows of its doubts stays right at every step.
LEMMA DoubtKept ==
  ASSUME RunLogAssumption, Typed, FilesInv, CompleteInv, CallsInv, DoubtInv, [Next]_vars
  PROVE  DoubtInv'
<1>1. ASSUME NEW t \in Task, TaskMoves(t) PROVE DoubtInv'
  BY <1>1, TaskSteps, TaskStepDoubt DEF Typed
<1>2. CASE UNCHANGED vars
  BY <1>2 DEF vars, memory, store, DoubtInv, Known, Segs
<1> QED
  BY <1>1, <1>2, NextMoves, CoreMovesDoubt

\* The first Core finds no segment.
LEMMA CallsInitially ==
  ASSUME Init
  PROVE  CallsInv /\ DoubtInv
<1>1. Segs = {} /\ fresh = {} /\ \A g \in Stage : live[g] = 0
  BY EmptySeq DEF Init, Segs
<1> QED
  BY <1>1 DEF CallsInv, DoubtInv

\* All that is known of the log of a Run, at every step of it.
LogInv == Typed /\ FilesInv /\ CompleteInv /\ CallsInv /\ DoubtInv

\* It holds of every behaviour.
LEMMA LogAlways ==
  ASSUME RunLogAssumption
  PROVE  Spec => []LogInv
<1>1. Init => LogInv
  BY InitTyped, FilesInitially, CompleteInitially, CallsInitially DEF LogInv
<1>2. LogInv /\ [Next]_vars => LogInv'
  BY NextTyped, FilesKept, CompleteKept, CallsKept, DoubtKept DEF LogInv
<1> QED
  BY <1>1, <1>2, PTL DEF Spec

\* A Core that serves knows of every doubt that an earlier one left, however
\* often one died before, wherever in its archive, its start or its calls.
THEOREM DoubtsAreKept == RunLogAssumption => (Spec => []DoubtIsKept)
<1> SUFFICES ASSUME RunLogAssumption PROVE Spec => []DoubtIsKept
  OBVIOUS
<1>1. LogInv => DoubtIsKept
  <2> SUFFICES ASSUME LogInv, core = "up", NEW c \in Asked
               PROVE  c \in fresh \/ c \in accounted \/ uncertain
    BY DEF DoubtIsKept
  <2>1. DOMAIN segs = Segs
    BY LenProperties DEF LogInv, Typed, FilesTyped, Segs
  <2>2. PICK s \in Segs : c \in segs[s].log.asked
    BY <2>1 DEF Asked
  <2> QED
    BY <2>2 DEF LogInv, DoubtInv
<1> QED
  BY <1>1, LogAlways, PTL

\* No provider is called while an earlier call of the Run may have had an
\* effect that nobody has accounted for: who asks, asks in a Core that is sure
\* of the Run, and whose call is not one that any log doubts.
THEOREM NothingIsReplayed == RunLogAssumption => (Spec => NoBlindReplay)
<1> SUFFICES ASSUME RunLogAssumption PROVE Spec => NoBlindReplay
  OBVIOUS
<1> DEFINE Sure(d) ==
      d \in accounted \/ (d \in fresh /\ \A s \in DOMAIN segs : d \notin segs[s].log.unknown)
<1>1. LogInv /\ [Next]_vars => [\A c \in fresh' \ fresh : \A d \in Asked : Sure(d)]_vars
  <2> SUFFICES ASSUME LogInv, [Next]_vars, NEW c \in fresh' \ fresh, NEW d \in Asked
               PROVE  Sure(d)
    OBVIOUS
  <2>1. Typed /\ FilesTyped /\ DoubtInv /\ CallsInv /\ DOMAIN segs = Segs
    BY LenProperties DEF LogInv, Typed, FilesTyped, Segs
  <2>2. core = "up" /\ ~uncertain
    <3>1. ASSUME NEW t \in Task, TaskMoves(t) PROVE core = "up" /\ ~uncertain
      BY <2>1, <3>1, TaskSteps DEF TaskStep
    <3>2. CASE CoreMoves
      <4>1. fresh' = {} \/ fresh' = fresh
        BY <2>1, <3>2, CoreMovesMemory DEF CoreMemory
      <4> QED
        BY <4>1
    <3>3. CASE UNCHANGED vars
      BY <3>3 DEF vars, memory
    <3> QED
      BY <3>1, <3>2, <3>3, NextMoves
  <2>3. PICK s \in Segs : d \in segs[s].log.asked
    BY <2>1 DEF Asked
  <2> QED
    BY <2>1, <2>2, <2>3 DEF DoubtInv
<1> QED
  BY <1>1, LogAlways, PTL DEF Spec, NoBlindReplay

----
\* Types.

Kinds == {"begin", "started", "completed", "failed", "tool_called", "tool_completed",
          "tool_failed", "rejected", "committed"}
RequestSet == [turn : Nat, phase : Phases, outputs : Feedback, repair : BOOLEAN,
               tools : BOOLEAN, cap : Int]
ReplySet == [kind : {"blank", "memo", "submission", "muddled", "reads"}, reads : Nat,
             result : Results \cup {"none"}]
EventSet == [att : Nat, kind : Kinds, request : RequestSet, used : Int, reply : ReplySet,
             detail : Feedback]
CheckpointSet ==
  [ok : BOOLEAN, recovered : BOOLEAN, phase : Phases, turn : Nat, outputs : Feedback,
   subs : Nat, answered : BOOLEAN, calls : Nat, tools : Nat, tokens : Int,
   failure : BOOLEAN, open : SUBSET Nat, expect : [asked : Nat, called : Nat, done : Nat],
   last : Results \cup {"none"}]

D == DOMAIN log

----
\* The order in which events are replayed.

Comes(i, j) == log[i].att < log[j].att \/ (log[i].att = log[j].att /\ i <= j)

LEMMA LogDomain ==
  ASSUME log \in Seq(EventSet)
  PROVE  /\ D = 1 .. Len(log) /\ Len(log) \in Nat /\ IsFiniteSet(D)
         /\ \A i \in D : i \in Nat /\ log[i] \in EventSet /\ log[i].att \in Nat
<1>1. D = 1 .. Len(log) /\ Len(log) \in Nat
  BY DEF D
<1>2. IsFiniteSet(D)
  BY <1>1, FS_Interval
<1>3. \A i \in D : i \in Nat /\ log[i] \in EventSet
  BY <1>1
<1> QED
  BY <1>1, <1>2, <1>3 DEF EventSet

LEMMA ComesOrders ==
  ASSUME log \in Seq(EventSet)
  PROVE  /\ \A i, j \in D : Comes(i, j) \/ Comes(j, i)
         /\ \A i, j \in D : Comes(i, j) /\ Comes(j, i) => i = j
         /\ \A i, j, k \in D : Comes(i, j) /\ Comes(j, k) => Comes(i, k)
<1>1. \A i \in D : i \in Nat /\ log[i].att \in Nat
  BY LogDomain
<1> QED
  BY <1>1 DEF Comes

\* Some events have a last one.
LEMMA NewestIs ==
  ASSUME log \in Seq(EventSet), NEW S \in SUBSET D, S # {}
  PROVE  Newest(S) \in S /\ \A j \in S : Comes(j, Newest(S))
<1> DEFINE Good == {T \in SUBSET S : T # {} => \E i \in T : \A j \in T : Comes(j, i)}
<1>1. IsFiniteSet(S)
  BY LogDomain, FS_Subset
<1>2. {} \in Good
  OBVIOUS
<1>3. ASSUME NEW T \in SUBSET S, NEW x \in S \ T, T \in Good
      PROVE  T \cup {x} \in Good
  <2>0. Comes(x, x)
    BY ComesOrders
  <2>1. CASE T = {}
    BY <2>0, <2>1
  <2>2. CASE T # {}
    <3>1. PICK i \in T : \A j \in T : Comes(j, i)
      BY <1>3, <2>2
    <3>2. Comes(x, i) \/ Comes(i, x)
      BY ComesOrders
    <3>3. CASE Comes(x, i)
      BY <3>1, <3>3
    <3>4. CASE Comes(i, x)
      <4>1. \A j \in T : Comes(j, x)
        BY <3>1, <3>4, ComesOrders
      <4> QED
        BY <2>0, <4>1
    <3> QED
      BY <3>2, <3>3, <3>4
  <2> QED
    BY <2>1, <2>2
<1>4. S \in Good
  <2> HIDE DEF Good
  <2> QED
    BY <1>1, <1>2, <1>3, SetInduction
<1>5. \E i \in S : \A j \in S : Comes(j, i)
  BY <1>4
<1> QED
  BY <1>5 DEF Newest, Comes

LEMMA NewestIsOnly ==
  ASSUME log \in Seq(EventSet), NEW S \in SUBSET D, NEW i \in S, \A j \in S : Comes(j, i)
  PROVE  Newest(S) = i
<1>1. Newest(S) \in S /\ Comes(i, Newest(S))
  BY NewestIs
<1> QED
  BY <1>1, ComesOrders

----
\* The recursion that replays events.

Older(S) == S \ {Newest(S)}
Replaying(g, S) == IF S = {} THEN FreshCheckpoint ELSE Fold(g[Older(S)], log[Newest(S)])
Replays(S, g) == g = [s \in SUBSET S |-> Replaying(g, s)]

LEMMA ReplayIsChosen ==
  ASSUME NEW S
  PROVE  Replayed(S) = (CHOOSE g : Replays(S, g))[S]
BY Zenon DEF Replayed, MapThenFoldSet, Replays, Replaying, Older

LEMMA ReplaysAgree ==
  ASSUME log \in Seq(EventSet), NEW S \in SUBSET D, NEW T \in SUBSET S,
         NEW g, Replays(S, g), NEW h, Replays(T, h)
  PROVE  \A u \in SUBSET T : g[u] = h[u]
<1> DEFINE Bad == {u \in SUBSET T : g[u] # h[u]}
<1> SUFFICES ASSUME Bad # {} PROVE FALSE
  OBVIOUS
<1>0. IsFiniteSet(T)
  BY LogDomain, FS_Subset
<1>1. PICK u \in Bad : \A v \in SUBSET u : v # u => v \notin Bad
  <2> HIDE DEF Bad
  <2>1. Bad \in SUBSET SUBSET T
    BY DEF Bad
  <2> QED
    BY <1>0, <2>1, SmallestSubset
<1>2. g[u] = Replaying(g, u)
  <2>1. u \in SUBSET S
    OBVIOUS
  <2>2. g = [s \in SUBSET S |-> Replaying(g, s)]
    BY DEF Replays
  <2> QED
    BY <2>1, <2>2
<1>3. h[u] = Replaying(h, u)
  <2>1. h = [s \in SUBSET T |-> Replaying(h, s)]
    BY DEF Replays
  <2> QED
    BY <2>1
<1>4. CASE u = {}
  BY <1>2, <1>3, <1>4 DEF Replaying
<1>5. CASE u # {}
  <2>1. Older(u) \in SUBSET u /\ Older(u) # u
    BY <1>5, NewestIs DEF Older
  <2>2. g[Older(u)] = h[Older(u)]
    BY <1>1, <2>1
  <2> QED
    BY <1>2, <1>3, <1>5, <2>2 DEF Replaying
<1> QED
  BY <1>4, <1>5

LEMMA ReplayExists ==
  ASSUME log \in Seq(EventSet), NEW S \in SUBSET D
  PROVE  \E g : Replays(S, g)
<1> DEFINE Bad == {T \in SUBSET S : ~ \E g : Replays(T, g)}
<1> SUFFICES ASSUME Bad # {} PROVE FALSE
  OBVIOUS
<1>1. PICK T \in Bad : \A U \in SUBSET T : U # T => U \notin Bad
  <2> HIDE DEF Bad
  <2>1. Bad \in SUBSET SUBSET S
    BY DEF Bad
  <2>2. IsFiniteSet(S)
    BY LogDomain, FS_Subset
  <2> QED
    BY <2>1, <2>2, SmallestSubset
<1> DEFINE Of(U) == CHOOSE g : Replays(U, g)
<1>2. \A U \in SUBSET T : U # T => Replays(U, Of(U))
  <2> SUFFICES ASSUME NEW U \in SUBSET T, U # T PROVE Replays(U, Of(U))
    OBVIOUS
  <2>1. U \in SUBSET S /\ U \notin Bad
    BY <1>1
  <2>2. \E g : Replays(U, g)
    BY <2>1
  <2> HIDE DEF Bad
  <2> QED
    BY <2>2
<1>3. T \in SUBSET D
  OBVIOUS
<1> HIDE DEF Of
\* What the solutions of the smaller sets say, and one step more for T.
<1> DEFINE Small(u) == Of(u)[u]
           Whole == IF T = {} THEN FreshCheckpoint ELSE Fold(Small(Older(T)), log[Newest(T)])
           g == [u \in SUBSET T |-> IF u = T THEN Whole ELSE Small(u)]
<1>4. \A u \in SUBSET T : u # T =>
        Small(u) = IF u = {} THEN FreshCheckpoint ELSE Fold(Small(Older(u)), log[Newest(u)])
  <2> SUFFICES ASSUME NEW u \in SUBSET T, u # T
               PROVE  Of(u)[u] = IF u = {} THEN FreshCheckpoint
                                 ELSE Fold(Of(Older(u))[Older(u)], log[Newest(u)])
    OBVIOUS
  <2>1. Of(u) = [s \in SUBSET u |-> Replaying(Of(u), s)]
    BY <1>2 DEF Replays
  <2>2. Of(u)[u] = Replaying(Of(u), u)
    BY <2>1
  <2>3. CASE u = {}
    BY <2>2, <2>3 DEF Replaying
  <2>4. CASE u # {}
    <3>1. Older(u) \in SUBSET u /\ Older(u) # T /\ Older(u) \in SUBSET T
      BY <2>4, NewestIs DEF Older
    <3>2. Replays(u, Of(u)) /\ Replays(Older(u), Of(Older(u))) /\ u \in SUBSET D
      BY <1>2, <1>3, <3>1
    <3>3. Of(u)[Older(u)] = Of(Older(u))[Older(u)]
      BY <3>1, <3>2, ReplaysAgree
    <3> QED
      BY <2>2, <2>4, <3>3 DEF Replaying
  <2> QED
    BY <2>3, <2>4
<1> HIDE DEF Small
<1>5. \A u \in SUBSET T : g[u] = Replaying(g, u)
  <2> SUFFICES ASSUME NEW u \in SUBSET T PROVE g[u] = Replaying(g, u)
    OBVIOUS
  <2>1. CASE u = {}
    <3>1. Replaying(g, u) = FreshCheckpoint
      BY <2>1 DEF Replaying
    <3>2. g[u] = FreshCheckpoint
      BY <1>4, <2>1
    <3> QED
      BY <3>1, <3>2
  <2>2. CASE u # {}
    <3>1. Older(u) \in SUBSET T /\ Older(u) # T
      BY <1>3, <2>2, NewestIs DEF Older
    <3>2. g[Older(u)] = Small(Older(u))
      BY <3>1
    <3>3. g[u] = Fold(Small(Older(u)), log[Newest(u)])
      BY <1>4, <2>2
    <3> HIDE DEF g
    <3> QED
      BY <2>2, <3>2, <3>3 DEF Replaying
  <2> QED
    BY <2>1, <2>2
<1>6. g = [u \in SUBSET T |-> g[u]]
  OBVIOUS
<1>7. Replays(T, g)
  <2> HIDE DEF g
  <2> QED
    BY <1>5, <1>6 DEF Replays
<1> HIDE DEF g
<1> QED
  BY <1>7

\* Replaying some events is to replay all but the last one, and then that one.
LEMMA ReplayEquation ==
  ASSUME log \in Seq(EventSet), NEW S \in SUBSET D
  PROVE  Replayed(S) = IF S = {} THEN FreshCheckpoint
                       ELSE Fold(Replayed(Older(S)), log[Newest(S)])
<1> DEFINE g == CHOOSE g : Replays(S, g)
           h == CHOOSE h : Replays(Older(S), h)
<1>1. Replays(S, g)
  BY ReplayExists
<1>2. Replayed(S) = g[S] /\ Replayed(Older(S)) = h[Older(S)]
  BY ReplayIsChosen
<1> HIDE DEF g
<1>3. g[S] = Replaying(g, S)
  <2>1. g = [s \in SUBSET S |-> Replaying(g, s)]
    BY <1>1 DEF Replays
  <2> QED
    BY <2>1
<1>4. CASE S = {}
  BY <1>2, <1>3, <1>4 DEF Replaying
<1>5. CASE S # {}
  <2>1. Older(S) \in SUBSET S /\ Older(S) \in SUBSET D
    BY <1>5, NewestIs DEF Older
  <2>2. Replays(Older(S), h)
    BY <2>1, ReplayExists
  <2> HIDE DEF h
  <2>3. g[Older(S)] = h[Older(S)]
    BY <1>1, <2>1, <2>2, ReplaysAgree
  <2> QED
    BY <1>2, <1>3, <1>5, <2>3 DEF Replaying
<1> QED
  BY <1>4, <1>5

----
\* What one event does to the checkpoint.

Said(c, e) ==
  [c EXCEPT !.open = @ \ {e.att}, !.outputs = "none", !.answered = TRUE,
            !.tokens = @ + e.used, !.failure = @ \/ e.used > e.request.cap,
            !.turn = @ + 1]

HearsStarted(c, e, n) ==
  /\ e.kind = "started" /\ e.att \notin c.open
  /\ n = [c EXCEPT !.open = @ \cup {e.att}, !.calls = @ + 1]
HearsFailed(c, e, n) ==
  /\ e.kind = "failed" /\ Continues(c, e.request)
  /\ n = IF e.used = Unknown THEN [c EXCEPT !.open = @ \ {e.att}, !.failure = TRUE]
         ELSE [c EXCEPT !.open = @ \ {e.att}, !.tokens = @ + e.used]
HearsReads(c, e, n) ==
  /\ e.kind = "completed" /\ Continues(c, e.request) /\ e.reply.kind = "reads"
  /\ c.phase = "Draft"
  /\ n = [Said(c, e) EXCEPT !.expect = [asked |-> e.reply.reads, called |-> 0, done |-> 0]]
HearsMemo(c, e, n) ==
  /\ e.kind = "completed" /\ Continues(c, e.request) /\ e.reply.kind = "memo"
  /\ c.phase = "Draft" /\ n = [Said(c, e) EXCEPT !.phase = "Submit"]
HearsSubmission(c, e, n) ==
  /\ e.kind = "completed" /\ Continues(c, e.request)
  /\ e.reply.kind \in {"submission", "muddled"} /\ c.phase = "Submit"
  /\ n = [Said(c, e) EXCEPT !.subs = @ + 1,
                            !.last = IF e.reply.result = "none" THEN @ ELSE e.reply.result]
HearsCall(c, e, n) ==
  /\ e.kind = "tool_called" /\ c.expect.called < c.expect.asked
  /\ c.expect.done <= c.expect.called /\ c.expect.done < c.expect.asked
  /\ n = [c EXCEPT !.expect = [c.expect EXCEPT !.called = @ + 1], !.tools = @ + 1]
HearsAnswer(c, e, n) ==
  /\ e.kind = "tool_completed" /\ c.expect.asked # 0 /\ c.expect.done < c.expect.called
  /\ c.expect.called <= c.expect.asked
  /\ n = IF c.expect.done + 1 < c.expect.asked
         THEN [c EXCEPT !.expect = [c.expect EXCEPT !.done = @ + 1]]
         ELSE [c EXCEPT !.expect = NoReads, !.outputs = "reads"]
HearsRejection(c, e, n) ==
  /\ e.kind = "rejected"
  /\ IF c.phase = "Submit" /\ c.outputs = "none"
     THEN c.subs # 0 /\ n = [c EXCEPT !.outputs = e.detail]
     ELSE n = c
HearsNothing(c, e, n) == e.kind \in {"begin", "committed"} /\ n = c

Hears(c, e, n) ==
  \/ HearsStarted(c, e, n) \/ HearsFailed(c, e, n) \/ HearsReads(c, e, n)
  \/ HearsMemo(c, e, n) \/ HearsSubmission(c, e, n) \/ HearsCall(c, e, n)
  \/ HearsAnswer(c, e, n) \/ HearsRejection(c, e, n) \/ HearsNothing(c, e, n)

\* The reads that a checkpoint still waits for.
Waiting(c) ==
  \/ c.expect = NoReads
  \/ /\ c.expect.done <= c.expect.called /\ c.expect.called <= c.expect.asked
     /\ c.expect.done < c.expect.asked

LEMMA BrokenIsBroken == ASSUME NEW c \in CheckpointSet PROVE ~Broken(c).ok
BY DEF Broken, CheckpointSet

LEMMA FoldTurnCases ==
  ASSUME NEW c \in CheckpointSet, c.ok, NEW e \in EventSet, e.kind \in {"completed", "failed"},
         Fold(c, e).ok
  PROVE  \/ HearsFailed(c, e, Fold(c, e)) \/ HearsReads(c, e, Fold(c, e))
         \/ HearsMemo(c, e, Fold(c, e)) \/ HearsSubmission(c, e, Fold(c, e))
<1> DEFINE closed == [c EXCEPT !.open = @ \ {e.att}]
<1>1. Fold(c, e) = FoldTurn(c, e)
  BY DEF Fold
<1>2. Continues(c, e.request)
  BY <1>1, BrokenIsBroken DEF FoldTurn
<1>3. CASE e.kind = "failed"
  <2>1. Fold(c, e) = IF e.used = Unknown THEN [closed EXCEPT !.failure = TRUE]
                     ELSE [closed EXCEPT !.tokens = @ + e.used]
    BY <1>1, <1>2, <1>3 DEF FoldTurn
  <2> QED
    BY <1>2, <1>3, <2>1 DEF HearsFailed, CheckpointSet
<1>4. CASE e.kind = "completed"
  <2>0. closed \in CheckpointSet /\ closed.phase = c.phase
    BY DEF CheckpointSet
  <2>1. Fold(c, e) = FoldReply(closed, e)
    BY <1>1, <1>2, <1>4 DEF FoldTurn
  <2>2. Said(c, e) = [closed EXCEPT !.outputs = "none", !.answered = TRUE,
                        !.tokens = @ + e.used, !.failure = @ \/ e.used > e.request.cap,
                        !.turn = @ + 1]
    BY DEF Said, CheckpointSet
  <2>3. c.phase = "Draft" \/ c.phase = "Submit"
    BY DEF CheckpointSet, Phases
  <2> HIDE DEF closed
  <2>4. CASE c.phase = "Draft" /\ e.reply.kind = "reads"
    BY <1>2, <1>4, <2>0, <2>1, <2>2, <2>4 DEF FoldReply, HearsReads
  <2>5. CASE c.phase = "Draft" /\ e.reply.kind = "memo"
    BY <1>2, <1>4, <2>0, <2>1, <2>2, <2>5 DEF FoldReply, HearsMemo
  <2>6. CASE c.phase = "Submit" /\ e.reply.kind \in {"submission", "muddled"}
    BY <1>2, <1>4, <2>0, <2>1, <2>2, <2>6 DEF FoldReply, HearsSubmission
  <2>7. CASE /\ ~(c.phase = "Draft" /\ e.reply.kind = "reads")
             /\ ~(c.phase = "Draft" /\ e.reply.kind = "memo")
             /\ ~(c.phase = "Submit" /\ e.reply.kind \in {"submission", "muddled"})
    BY <2>0, <2>1, <2>7, BrokenIsBroken DEF FoldReply
  <2> QED
    BY <2>4, <2>5, <2>6, <2>7
<1> QED
  BY <1>3, <1>4

LEMMA FoldToolCases ==
  ASSUME NEW c \in CheckpointSet, c.ok, Waiting(c), NEW e \in EventSet,
         e.kind \in {"tool_called", "tool_completed"}, Fold(c, e).ok
  PROVE  HearsCall(c, e, Fold(c, e)) \/ HearsAnswer(c, e, Fold(c, e))
<1> DEFINE x == c.expect
           y == IF e.kind = "tool_called" THEN [x EXCEPT !.called = @ + 1]
                                          ELSE [x EXCEPT !.done = @ + 1]
           n == [c EXCEPT !.expect = y, !.tools = @ + (y.called - x.called)]
<1>1. Fold(c, e) = FoldTool(c, e)
  BY DEF Fold
<1>2. x.asked # 0 /\ ~(y.called > x.asked) /\ ~(y.done > y.called)
  BY <1>1, BrokenIsBroken DEF FoldTool
<1>3. Fold(c, e) = IF y.done < y.asked THEN n
                   ELSE [n EXCEPT !.expect = NoReads, !.outputs = "reads"]
  BY <1>1, <1>2 DEF FoldTool
<1>4. x \in [asked : Nat, called : Nat, done : Nat]
  BY DEF CheckpointSet
<1>5. x # NoReads /\ x.done <= x.called /\ x.called <= x.asked /\ x.done < x.asked
  BY <1>2 DEF NoReads, Waiting
<1>6. CASE e.kind = "tool_called"
  <2>1. y = [x EXCEPT !.called = @ + 1] /\ y.called - x.called = 1 /\ y.done = x.done
        /\ y.called = x.called + 1 /\ y.asked = x.asked
    BY <1>4, <1>6
  <2>2. Fold(c, e) = [c EXCEPT !.expect = y, !.tools = @ + 1]
    BY <1>3, <1>4, <1>5, <2>1
  <2> HIDE DEF y, n
  <2>3. x.called < x.asked
    BY <1>2, <1>4, <2>1
  <2> QED
    BY <1>5, <1>6, <2>1, <2>2, <2>3 DEF HearsCall
<1>7. CASE e.kind = "tool_completed"
  <2>1. y = [x EXCEPT !.done = @ + 1] /\ y.called - x.called = 0 /\ y.done = x.done + 1
        /\ y.called = x.called /\ y.asked = x.asked
    BY <1>4, <1>7
  <2>2. n = [c EXCEPT !.expect = y]
    <3> HIDE DEF y
    <3>1. c.tools + (y.called - x.called) = c.tools
      BY <2>1 DEF CheckpointSet
    <3> QED
      BY <3>1 DEF CheckpointSet
  <2>3. [n EXCEPT !.expect = NoReads, !.outputs = "reads"]
          = [c EXCEPT !.expect = NoReads, !.outputs = "reads"]
    BY <2>2 DEF CheckpointSet
  <2> HIDE DEF y, n
  <2>4. x.done < x.called
    BY <1>2, <1>4, <2>1
  <2> QED
    BY <1>3, <1>4, <1>5, <1>7, <1>2, <2>1, <2>2, <2>3, <2>4 DEF HearsAnswer
<1> QED
  BY <1>6, <1>7

\* An event that leaves the checkpoint in order continues one that was.
LEMMA FoldCases ==
  ASSUME NEW c \in CheckpointSet, Waiting(c), NEW e \in EventSet, Fold(c, e).ok
  PROVE  c.ok /\ Hears(c, e, Fold(c, e))
<1>1. c.ok
  BY DEF Fold
<1>2. CASE e.kind = "started"
  <2>1. e.att \notin c.open
    BY <1>1, <1>2, BrokenIsBroken DEF Fold
  <2> QED
    BY <1>1, <1>2, <2>1 DEF Fold, Hears, HearsStarted
<1>3. CASE e.kind \in {"completed", "failed"}
  BY <1>1, <1>3, FoldTurnCases DEF Hears
<1>4. CASE e.kind \in {"tool_called", "tool_completed"}
  BY <1>1, <1>4, FoldToolCases DEF Hears
<1>5. CASE e.kind = "tool_failed"
  BY <1>1, <1>5, BrokenIsBroken DEF Fold
<1>6. CASE e.kind = "rejected"
  <2>1. Fold(c, e) = FoldRejection(c, e)
    BY <1>1, <1>6 DEF Fold
  <2>2. (c.phase = "Submit" /\ c.outputs = "none") => c.subs # 0
    BY <2>1, BrokenIsBroken DEF FoldRejection
  <2> QED
    BY <1>1, <1>6, <2>1, <2>2 DEF FoldRejection, Hears, HearsRejection
<1>7. CASE e.kind \in {"begin", "committed"}
  BY <1>1, <1>7 DEF Fold, Hears, HearsNothing
<1> QED
  BY <1>1, <1>2, <1>3, <1>4, <1>5, <1>6, <1>7 DEF EventSet, Kinds

\* A checkpoint stays one.
LEMMA FoldTyped ==
  ASSUME NEW c \in CheckpointSet, NEW e \in EventSet
  PROVE  Fold(c, e) \in CheckpointSet
<1> DEFINE closed == [c EXCEPT !.open = @ \ {e.att}]
<1>0. /\ c.turn + 1 \in Nat /\ c.subs + 1 \in Nat /\ c.calls + 1 \in Nat
      /\ c.tokens + e.used \in Int /\ e.att \in Nat /\ e.detail \in Feedback
      /\ e.reply \in ReplySet
  BY DEF CheckpointSet, EventSet
<1>1. Broken(c) \in CheckpointSet /\ closed \in CheckpointSet /\ Broken(closed) \in CheckpointSet
  BY DEF Broken, CheckpointSet
<1>2. CASE ~c.ok
  BY <1>2 DEF Fold
<1>3. CASE c.ok /\ e.kind = "started"
  <2>1. [c EXCEPT !.open = @ \cup {e.att}, !.calls = @ + 1] \in CheckpointSet
    BY <1>0 DEF CheckpointSet
  <2> QED
    BY <1>1, <1>3, <2>1 DEF Fold
<1>4. CASE c.ok /\ e.kind \in {"completed", "failed"}
  <2>1. Fold(c, e) = FoldTurn(c, e)
    BY <1>4 DEF Fold
  <2>2. [closed EXCEPT !.failure = TRUE] \in CheckpointSet
        /\ [closed EXCEPT !.tokens = @ + e.used] \in CheckpointSet
    BY <1>0 DEF CheckpointSet
  <2>3. FoldReply(closed, e) \in CheckpointSet
    <3> DEFINE n == [closed EXCEPT !.outputs = "none", !.answered = TRUE,
                       !.tokens = @ + e.used, !.failure = @ \/ e.used > e.request.cap,
                       !.turn = @ + 1]
    <3>1. n \in CheckpointSet
      <4>1. (c.failure \/ e.used > e.request.cap) \in BOOLEAN
        BY DEF CheckpointSet
      <4> QED
        BY <1>0, <4>1 DEF CheckpointSet, Feedback
    <3>2. [n EXCEPT !.expect = [asked |-> e.reply.reads, called |-> 0, done |-> 0]]
            \in CheckpointSet
      BY <1>0, <3>1 DEF CheckpointSet, ReplySet
    <3>3. [n EXCEPT !.phase = "Submit"] \in CheckpointSet
      BY <3>1 DEF CheckpointSet, Phases
    <3>4. [n EXCEPT !.subs = @ + 1,
                    !.last = IF e.reply.result = "none" THEN @ ELSE e.reply.result]
            \in CheckpointSet
      <4> HIDE DEF n
      <4>1. n.subs + 1 \in Nat
        BY <3>1 DEF CheckpointSet
      <4>2. (IF e.reply.result = "none" THEN n.last ELSE e.reply.result) \in Results \cup {"none"}
        BY <1>0, <3>1 DEF CheckpointSet, ReplySet
      <4> QED
        BY <3>1, <4>1, <4>2 DEF CheckpointSet
    <3> QED
      BY <1>1, <3>2, <3>3, <3>4 DEF FoldReply
  <2> QED
    BY <1>1, <2>1, <2>2, <2>3 DEF FoldTurn
<1>5. CASE c.ok /\ e.kind \in {"tool_called", "tool_completed"}
  <2> DEFINE x == c.expect
             y == IF e.kind = "tool_called" THEN [x EXCEPT !.called = @ + 1]
                                            ELSE [x EXCEPT !.done = @ + 1]
             n == [c EXCEPT !.expect = y, !.tools = @ + (y.called - x.called)]
  <2>1. y \in [asked : Nat, called : Nat, done : Nat] /\ c.tools + (y.called - x.called) \in Nat
    BY DEF CheckpointSet
  <2>2. n \in CheckpointSet
    <3> HIDE DEF y
    <3> QED
      BY <2>1 DEF CheckpointSet
  <2>3. [n EXCEPT !.expect = NoReads, !.outputs = "reads"] \in CheckpointSet
    <3> HIDE DEF n
    <3> QED
      BY <2>2 DEF CheckpointSet, NoReads, Feedback
  <2>4. Fold(c, e) = FoldTool(c, e)
    BY <1>5 DEF Fold
  <2> QED
    BY <1>1, <2>2, <2>3, <2>4 DEF FoldTool
<1>6. CASE c.ok /\ e.kind = "tool_failed"
  BY <1>1, <1>6 DEF Fold
<1>7. CASE c.ok /\ e.kind = "rejected"
  <2>1. Fold(c, e) = FoldRejection(c, e)
    BY <1>7 DEF Fold
  <2>2. [c EXCEPT !.outputs = e.detail] \in CheckpointSet
    BY <1>0 DEF CheckpointSet
  <2> QED
    BY <1>1, <2>1, <2>2 DEF FoldRejection
<1>8. CASE c.ok /\ e.kind \in {"begin", "committed"}
  BY <1>8 DEF Fold
<1> QED
  BY <1>2, <1>3, <1>4, <1>5, <1>6, <1>7, <1>8 DEF EventSet, Kinds

\* The last read that is answered ends the wait.
LEMMA FoldWaiting ==
  ASSUME NEW c \in CheckpointSet, Waiting(c), NEW e \in EventSet,
         (e.kind = "completed" /\ e.reply.kind = "reads") => e.reply.reads >= 1,
         Fold(c, e).ok
  PROVE  Waiting(Fold(c, e))
<1> DEFINE n == Fold(c, e)
<1>1. Hears(c, e, n) /\ n \in CheckpointSet
  BY FoldCases, FoldTyped
<1> SUFFICES Waiting(n)
  OBVIOUS
<1> HIDE DEF n
<1>2. CASE HearsStarted(c, e, n) \/ HearsFailed(c, e, n) \/ HearsMemo(c, e, n)
           \/ HearsSubmission(c, e, n) \/ HearsRejection(c, e, n) \/ HearsNothing(c, e, n)
  <2>1. n.expect = c.expect
    <3>1. CASE HearsStarted(c, e, n) \/ HearsFailed(c, e, n)
      BY <3>1 DEF HearsStarted, HearsFailed, CheckpointSet
    <3>2. CASE HearsMemo(c, e, n)
      BY <3>2 DEF HearsMemo, Said, CheckpointSet
    <3>3. CASE HearsSubmission(c, e, n)
      BY <3>3 DEF HearsSubmission, Said, CheckpointSet
    <3>4. CASE HearsRejection(c, e, n) \/ HearsNothing(c, e, n)
      BY <3>4 DEF HearsRejection, HearsNothing, CheckpointSet
    <3> QED
      BY <1>2, <3>1, <3>2, <3>3, <3>4
  <2> QED
    BY <2>1 DEF Waiting
<1>3. CASE HearsReads(c, e, n)
  <2>1. n.expect = [asked |-> e.reply.reads, called |-> 0, done |-> 0]
    BY <1>3 DEF HearsReads, Said, CheckpointSet
  <2>2. e.reply.reads \in Nat /\ e.reply.reads >= 1
    BY <1>3 DEF HearsReads, EventSet, ReplySet
  <2> QED
    BY <2>1, <2>2 DEF Waiting
<1>4. CASE HearsCall(c, e, n)
  <2>1. n.expect = [c.expect EXCEPT !.called = @ + 1]
    BY <1>4 DEF HearsCall, CheckpointSet
  <2> QED
    BY <1>4, <2>1 DEF HearsCall, Waiting, CheckpointSet
<1>5. CASE HearsAnswer(c, e, n)
  <2>1. n.expect = IF c.expect.done + 1 < c.expect.asked
                   THEN [c.expect EXCEPT !.done = @ + 1] ELSE NoReads
    BY <1>5 DEF HearsAnswer, CheckpointSet
  <2> QED
    BY <1>5, <2>1 DEF HearsAnswer, Waiting, CheckpointSet
<1> QED
  BY <1>1, <1>2, <1>3, <1>4, <1>5 DEF Hears

----
\* What a checkpoint in order knows of the events it was replayed from.

TurnEnds == {"completed", "failed"}
In(S, K) == {i \in S : log[i].kind \in K}
ReadsIn(S) == {i \in In(S, {"completed"}) : log[i].reply.kind = "reads"}
SubmissionsIn(S) ==
  {i \in In(S, {"completed"}) : /\ log[i].request.phase = "Submit"
                                /\ log[i].reply.kind \in {"submission", "muddled"}}
ResultsIn(S) == {i \in SubmissionsIn(S) : log[i].reply.result # "none"}
Charged == [i \in D |-> Max({log[i].used, 0})]
ReadsOf == [i \in D |-> log[i].reply.reads]

\* What an event is for certain.
Sound(e) ==
  /\ e.kind = "completed" =>
       /\ e.used \in Nat
       /\ e.reply.kind = "reads" => e.request.phase = "Draft" /\ e.reply.reads >= 1
       /\ (e.reply.kind \in {"submission", "muddled"} /\ e.request.phase = "Submit"
             /\ e.reply.result = "none") => e.request.repair
  /\ e.kind = "failed" => e.used \in Nat \cup {Unknown}
  /\ e.kind = "rejected" => e.detail \in Verdicts

LEMMA MaxWithZero == ASSUME NEW a \in Int PROVE Max({a, 0}) = IF a >= 0 THEN a ELSE 0
<1> DEFINE m == IF a >= 0 THEN a ELSE 0
<1>1. m \in {a, 0} /\ \A y \in {a, 0} : m >= y
  OBVIOUS
<1>2. \A x \in {a, 0} : (\A y \in {a, 0} : x >= y) => x = m
  OBVIOUS
<1> HIDE DEF m
<1>3. Max({a, 0}) = m
  BY <1>1, <1>2 DEF Max
<1> QED
  BY <1>3 DEF m

LEMMA ChargedIs ==
  ASSUME log \in Seq(EventSet)
  PROVE  /\ \A i \in D : Charged[i] = IF log[i].used >= 0 THEN log[i].used ELSE 0
         /\ \A i \in D : Charged[i] \in Nat /\ ReadsOf[i] = log[i].reply.reads /\ ReadsOf[i] \in Nat
<1>1. \A i \in D : log[i].used \in Int /\ log[i].reply.reads \in Nat
  BY LogDomain DEF EventSet, ReplySet
<1>2. \A i \in D : Charged[i] = IF log[i].used >= 0 THEN log[i].used ELSE 0
  BY <1>1, MaxWithZero DEF Charged
<1> QED
  BY <1>1, <1>2 DEF ReadsOf

LEMMA InIsFinite ==
  ASSUME log \in Seq(EventSet), NEW S \in SUBSET D
  PROVE  /\ IsFiniteSet(S)
         /\ \A U \in SUBSET S : IsFiniteSet(U) /\ Cardinality(U) \in Nat
BY LogDomain, FS_Subset, FS_CardinalityType

\* One event more.
LEMMA InWith ==
  ASSUME NEW T, NEW x, x \notin T
  PROVE  /\ \A K : In(T \cup {x}, K) = In(T, K) \cup (IF log[x].kind \in K THEN {x} ELSE {})
         /\ \A K : x \notin In(T, K)
BY DEF In

LEMMA CardinalityWith ==
  ASSUME log \in Seq(EventSet), NEW T \in SUBSET D, NEW U \in SUBSET T, NEW x, x \notin T
  PROVE  Cardinality(U \cup {x}) = Cardinality(U) + 1
BY InIsFinite, FS_AddElement

Counts(S, c) ==
  /\ In(S, {"started"}) # {} => c.calls > 0
  /\ c.tools = Cardinality(In(S, {"tool_called"}))
  /\ c.subs = Cardinality(SubmissionsIn(S))
  /\ c.tokens = SumFunctionOnSet(Charged, In(S, TurnEnds))
Doubts(S, c) ==
  /\ ~c.failure => \A i \in In(S, TurnEnds) : log[i].used # Unknown
  /\ \A i \in In(S, {"started"}) :
       log[i].att \in c.open \/ \E j \in In(S, TurnEnds) : i < j /\ log[j].att = log[i].att
Line(S, c) ==
  /\ \A i \in In(S, {"completed"}) : log[i].request.turn < c.turn
  /\ In(S, {"tool_failed"}) = {}
  /\ SumFunctionOnSet(ReadsOf, ReadsIn(S)) + c.expect.done
       = Cardinality(In(S, {"tool_completed"})) + c.expect.asked
  /\ \A i \in ReadsIn(S) : log[i].request.turn + 1 = c.turn =>
       c.phase = "Draft" /\ (c.expect = NoReads => c.outputs = "reads")
Proposed(S, c) ==
  /\ protocol = "research" => c.phase = "Submit"
  /\ c.outputs \in Verdicts => SubmissionsIn(S) # {}
  /\ ResultsIn(S) = {} => c.last = "none"
  /\ ResultsIn(S) # {} =>
       \E i \in ResultsIn(S) : c.last = log[i].reply.result /\ \A j \in ResultsIn(S) : Comes(j, i)

Ledger(S, c) == Counts(S, c) /\ Doubts(S, c) /\ Line(S, c) /\ Proposed(S, c) /\ Waiting(c)

IsSubmission(e) ==
  /\ e.kind = "completed" /\ e.request.phase = "Submit"
  /\ e.reply.kind \in {"submission", "muddled"}

\* What becomes of each part of the checkpoint.
Parts(c, e, n) ==
  /\ n.calls = IF e.kind = "started" THEN c.calls + 1 ELSE c.calls
  /\ n.tools = IF e.kind = "tool_called" THEN c.tools + 1 ELSE c.tools
  /\ n.subs = IF IsSubmission(e) THEN c.subs + 1 ELSE c.subs
  /\ n.tokens = IF e.kind = "completed" \/ (e.kind = "failed" /\ e.used # Unknown)
                THEN c.tokens + e.used ELSE c.tokens
  /\ (c.failure \/ (e.kind = "failed" /\ e.used = Unknown)) => n.failure
  /\ n.open = IF e.kind = "started" THEN c.open \cup {e.att}
              ELSE IF e.kind \in TurnEnds THEN c.open \ {e.att} ELSE c.open
  /\ n.turn = IF e.kind = "completed" THEN c.turn + 1 ELSE c.turn
  /\ n.phase = IF e.kind = "completed" /\ e.reply.kind = "memo" THEN "Submit" ELSE c.phase
  /\ n.last = IF IsSubmission(e) /\ e.reply.result # "none" THEN e.reply.result ELSE c.last

LEMMA HearsParts ==
  ASSUME NEW c \in CheckpointSet, NEW e \in EventSet, NEW n, Hears(c, e, n)
  PROVE  Parts(c, e, n)
<1>1. CASE HearsStarted(c, e, n)
  BY <1>1 DEF HearsStarted, CheckpointSet, Parts, IsSubmission, TurnEnds
<1>2. CASE HearsFailed(c, e, n)
  <2>1. CASE e.used = Unknown
    BY <1>2, <2>1 DEF HearsFailed, CheckpointSet, Parts, IsSubmission, TurnEnds
  <2>2. CASE e.used # Unknown
    BY <1>2, <2>2 DEF HearsFailed, CheckpointSet, Parts, IsSubmission, TurnEnds
  <2> QED
    BY <2>1, <2>2
<1>3. CASE HearsReads(c, e, n)
  <2>1. ~IsSubmission(e) /\ e.kind = "completed" /\ e.reply.kind = "reads"
    BY <1>3 DEF HearsReads, IsSubmission
  <2>2. /\ n.calls = c.calls /\ n.tools = c.tools /\ n.subs = c.subs
        /\ n.tokens = c.tokens + e.used /\ (c.failure => n.failure)
    BY <1>3 DEF HearsReads, Said, CheckpointSet
  <2>3. /\ n.open = c.open \ {e.att} /\ n.turn = c.turn + 1 /\ n.phase = c.phase
        /\ n.last = c.last
    BY <1>3 DEF HearsReads, Said, CheckpointSet
  <2> QED
    BY <2>1, <2>2, <2>3 DEF Parts, TurnEnds
<1>4. CASE HearsMemo(c, e, n)
  <2>1. ~IsSubmission(e) /\ e.kind = "completed" /\ e.reply.kind = "memo"
    BY <1>4 DEF HearsMemo, IsSubmission
  <2>2. /\ n.calls = c.calls /\ n.tools = c.tools /\ n.subs = c.subs
        /\ n.tokens = c.tokens + e.used /\ (c.failure => n.failure)
    BY <1>4 DEF HearsMemo, Said, CheckpointSet
  <2>3. /\ n.open = c.open \ {e.att} /\ n.turn = c.turn + 1 /\ n.phase = "Submit"
        /\ n.last = c.last
    BY <1>4 DEF HearsMemo, Said, CheckpointSet
  <2> QED
    BY <2>1, <2>2, <2>3 DEF Parts, TurnEnds
<1>5. CASE HearsSubmission(c, e, n)
  <2>1. IsSubmission(e) /\ e.kind = "completed" /\ e.reply.kind # "memo"
    BY <1>5 DEF HearsSubmission, IsSubmission, Continues
  <2>2. /\ n.calls = c.calls /\ n.tools = c.tools /\ n.subs = c.subs + 1
        /\ n.tokens = c.tokens + e.used /\ (c.failure => n.failure)
    BY <1>5 DEF HearsSubmission, Said, CheckpointSet
  <2>3. /\ n.open = c.open \ {e.att} /\ n.turn = c.turn + 1 /\ n.phase = c.phase
        /\ n.last = IF e.reply.result = "none" THEN c.last ELSE e.reply.result
    BY <1>5 DEF HearsSubmission, Said, CheckpointSet
  <2> QED
    BY <2>1, <2>2, <2>3 DEF Parts, TurnEnds
<1>6. CASE HearsCall(c, e, n)
  BY <1>6 DEF HearsCall, CheckpointSet, Parts, IsSubmission, TurnEnds
<1>7. CASE HearsAnswer(c, e, n)
  BY <1>7 DEF HearsAnswer, CheckpointSet, Parts, IsSubmission, TurnEnds
<1>8. CASE HearsRejection(c, e, n)
  BY <1>8 DEF HearsRejection, CheckpointSet, Parts, IsSubmission, TurnEnds
<1>9. CASE HearsNothing(c, e, n)
  BY <1>9 DEF HearsNothing, CheckpointSet, Parts, IsSubmission, TurnEnds
<1> QED
  BY <1>1, <1>2, <1>3, <1>4, <1>5, <1>6, <1>7, <1>8, <1>9 DEF Hears

LEMMA CountsStep ==
  ASSUME log \in Seq(EventSet), NEW T \in SUBSET D, NEW x \in D \ T, Sound(log[x]),
         NEW c \in CheckpointSet, Counts(T, c), NEW n \in CheckpointSet, Hears(c, log[x], n)
  PROVE  Counts(T \cup {x}, n)
<1> DEFINE e == log[x]
           S == T \cup {x}
<1>0. e \in EventSet /\ e.kind \in Kinds /\ Sound(e) /\ Hears(c, e, n)
  BY LogDomain DEF EventSet
<1>1. \A K : In(S, K) = In(T, K) \cup (IF e.kind \in K THEN {x} ELSE {})
  BY InWith
<1>2. SubmissionsIn(S) = SubmissionsIn(T)
        \cup (IF IsSubmission(e) THEN {x} ELSE {})
  BY <1>1 DEF SubmissionsIn, IsSubmission
<1>3. \A K : Cardinality(In(T, K) \cup {x}) = Cardinality(In(T, K)) + 1
  BY CardinalityWith DEF In
<1>4. Cardinality(SubmissionsIn(T) \cup {x}) = Cardinality(SubmissionsIn(T)) + 1
  BY CardinalityWith DEF In, SubmissionsIn
<1>5. SumFunctionOnSet(Charged, In(T, TurnEnds) \cup {x})
        = Charged[x] + SumFunctionOnSet(Charged, In(T, TurnEnds))
  <2>1. In(T, TurnEnds) \in SUBSET D /\ x \notin In(T, TurnEnds)
    BY DEF In
  <2>2. IsFiniteSet(In(T, TurnEnds))
    BY <2>1, InIsFinite
  <2>3. \A y \in In(T, TurnEnds) \cup {x} : Charged[y] \in Int
    BY <2>1, ChargedIs
  <2> QED
    BY <2>1, <2>2, <2>3, SumWith
<1>6. Charged[x] = IF e.used >= 0 THEN e.used ELSE 0
  BY ChargedIs
<1>7. e.used \in Int
  BY <1>0 DEF EventSet
<1> HIDE DEF e, S
<1>p. Parts(c, e, n)
  BY <1>0, HearsParts
<1>8. In(S, {"started"}) # {} => n.calls > 0
  <2>1. n.calls = IF e.kind = "started" THEN c.calls + 1 ELSE c.calls
    BY <1>p DEF Parts
  <2>2. c.calls \in Nat
    BY DEF CheckpointSet
  <2> QED
    BY <1>1, <2>1, <2>2 DEF Counts
<1>9. n.tools = Cardinality(In(S, {"tool_called"}))
  <2>1. n.tools = IF e.kind = "tool_called" THEN c.tools + 1 ELSE c.tools
    BY <1>p DEF Parts
  <2> QED
    BY <1>1, <1>3, <2>1 DEF Counts
<1>10. n.subs = Cardinality(SubmissionsIn(S))
  <2>1. n.subs = IF IsSubmission(e) THEN c.subs + 1 ELSE c.subs
    BY <1>p DEF Parts
  <2> QED
    BY <1>2, <1>4, <2>1 DEF Counts
<1>11. n.tokens = SumFunctionOnSet(Charged, In(S, TurnEnds))
  <2>0. n.tokens = IF e.kind = "completed" \/ (e.kind = "failed" /\ e.used # Unknown)
                   THEN c.tokens + e.used ELSE c.tokens
    BY <1>p DEF Parts
  <2>1. CASE e.kind \in TurnEnds
    <3>1. n.tokens = c.tokens + Charged[x]
      <4>1. CASE e.kind = "failed" /\ e.used = Unknown
        BY <1>6, <2>0, <4>1 DEF Unknown, CheckpointSet
      <4>2. CASE e.kind = "completed" \/ e.used # Unknown
        <5>1. e.used \in Nat
          BY <1>0, <2>1, <4>2 DEF Sound, TurnEnds
        <5> QED
          BY <1>6, <2>0, <2>1, <4>2, <5>1 DEF TurnEnds
      <4> QED
        BY <2>1, <4>1, <4>2 DEF TurnEnds
    <3>2. In(S, TurnEnds) = In(T, TurnEnds) \cup {x}
      BY <1>1, <2>1
    <3>3. SumFunctionOnSet(Charged, In(S, TurnEnds)) = Charged[x] + c.tokens
      BY <1>5, <3>2 DEF Counts
    <3>4. c.tokens \in Int /\ Charged[x] \in Int
      BY <1>6, <1>7 DEF CheckpointSet
    <3> QED
      BY <3>1, <3>3, <3>4
  <2>2. CASE e.kind \notin TurnEnds
    <3>1. n.tokens = c.tokens
      BY <2>0, <2>2 DEF TurnEnds
    <3>2. In(S, TurnEnds) = In(T, TurnEnds)
      BY <1>1, <2>2
    <3> QED
      BY <3>1, <3>2 DEF Counts
  <2> QED
    BY <2>1, <2>2
<1> QED
  BY <1>8, <1>9, <1>10, <1>11 DEF Counts, S

LEMMA DoubtsStep ==
  ASSUME log \in Seq(EventSet), NEW T \in SUBSET D, NEW x \in D \ T, \A i \in T : Comes(i, x),
         Sound(log[x]), NEW c \in CheckpointSet, Doubts(T, c), NEW n \in CheckpointSet, Hears(c, log[x], n)
  PROVE  Doubts(T \cup {x}, n)
<1> DEFINE e == log[x]
           S == T \cup {x}
<1>0. e \in EventSet /\ Parts(c, e, n) /\ Sound(e)
  BY LogDomain, HearsParts
<1>1. \A K : In(S, K) = In(T, K) \cup (IF e.kind \in K THEN {x} ELSE {})
  BY InWith
<1>2. \A i \in T : log[i].att = e.att => i < x
  <2>1. \A i \in D : i \in Nat /\ log[i].att \in Nat
    BY LogDomain
  <2> QED
    BY <2>1 DEF Comes
<1>a. log[x].used = e.used /\ log[x].att = e.att
  OBVIOUS
<1> HIDE DEF e, S
<1>b. /\ In(S, TurnEnds) = In(T, TurnEnds) \cup (IF e.kind \in TurnEnds THEN {x} ELSE {})
      /\ In(S, {"started"}) = In(T, {"started"}) \cup (IF e.kind = "started" THEN {x} ELSE {})
  BY <1>1
<1>3. ASSUME ~n.failure, NEW i \in In(S, TurnEnds) PROVE log[i].used # Unknown
  <2>1. ~c.failure /\ ~(e.kind = "failed" /\ e.used = Unknown)
    BY <1>0, <1>3 DEF Parts
  <2>2. CASE i \in In(T, TurnEnds)
    BY <2>1, <2>2 DEF Doubts
  <2>3. CASE i = x /\ e.kind \in TurnEnds
    <3>1. e.kind = "completed" => e.used # Unknown
      BY <1>0 DEF Sound, Unknown
    <3> QED
      BY <1>a, <2>1, <2>3, <3>1 DEF TurnEnds
  <2> QED
    BY <1>1, <2>2, <2>3
<1>4. ASSUME NEW i \in In(S, {"started"}), log[i].att \notin n.open
      PROVE  \E j \in In(S, TurnEnds) : i < j /\ log[j].att = log[i].att
  <2>1. CASE e.kind = "started"
    <3>1. n.open = c.open \cup {e.att}
      BY <1>0, <2>1 DEF Parts
    <3>2. i \in In(T, {"started"}) /\ log[i].att \notin c.open
      BY <1>a, <1>b, <1>4, <3>1
    <3> QED
      BY <1>b, <3>2 DEF Doubts
  <2>2. CASE e.kind # "started"
    <3>1. i \in In(T, {"started"}) /\ In(T, TurnEnds) \subseteq In(S, TurnEnds) /\ i \in T
      BY <1>1, <2>2 DEF In
    <3>2. CASE log[i].att \in c.open
      <4>1. e.kind \in TurnEnds /\ e.att = log[i].att
        BY <1>0, <1>4, <2>2, <3>2 DEF Parts
      <4>2. x \in In(S, TurnEnds) /\ i < x
        BY <1>1, <1>2, <3>1, <4>1
      <4> QED
        BY <1>a, <4>1, <4>2
    <3>3. CASE log[i].att \notin c.open
      BY <3>1, <3>3 DEF Doubts
    <3> QED
      BY <3>2, <3>3
  <2> QED
    BY <2>1, <2>2
<1> QED
  BY <1>3, <1>4 DEF Doubts, S

LEMMA BothMore ==
  ASSUME NEW r \in Int, NEW d \in Nat, NEW a \in Nat, NEW b \in Nat, r + a = d + b
  PROVE  r + (a + 1) = (d + 1) + b
OBVIOUS

LEMMA LineStep ==
  ASSUME log \in Seq(EventSet), NEW T \in SUBSET D, NEW x \in D \ T, Sound(log[x]),
         NEW c \in CheckpointSet, Line(T, c), NEW n \in CheckpointSet, Hears(c, log[x], n)
  PROVE  Line(T \cup {x}, n)
<1> DEFINE e == log[x]
           S == T \cup {x}
<1>0. e \in EventSet /\ Parts(c, e, n) /\ Hears(c, e, n) /\ Sound(e)
  BY LogDomain, HearsParts
<1>1. \A K : In(S, K) = In(T, K) \cup (IF e.kind \in K THEN {x} ELSE {})
  BY InWith
<1>2. ReadsIn(S) = ReadsIn(T)
        \cup (IF e.kind = "completed" /\ e.reply.kind = "reads" THEN {x} ELSE {})
  <2>1. In(S, {"completed"}) = In(T, {"completed"}) \cup (IF e.kind = "completed" THEN {x} ELSE {})
    BY <1>1
  <2> QED
    BY <2>1 DEF ReadsIn
<1>3. \A i \in In(T, {"completed"}) : log[i].request.turn \in Nat
  <2>1. \A i \in D : log[i].request.turn \in Nat
    BY LogDomain DEF EventSet, RequestSet
  <2> QED
    BY <2>1 DEF In
<1>4. SumFunctionOnSet(ReadsOf, ReadsIn(T) \cup {x})
        = ReadsOf[x] + SumFunctionOnSet(ReadsOf, ReadsIn(T))
  <2>1. ReadsIn(T) \in SUBSET D /\ x \notin ReadsIn(T)
    BY DEF ReadsIn, In
  <2>2. IsFiniteSet(ReadsIn(T))
    BY <2>1, InIsFinite
  <2>3. \A y \in ReadsIn(T) \cup {x} : ReadsOf[y] \in Int
    BY <2>1, ChargedIs
  <2> QED
    BY <2>1, <2>2, <2>3, SumWith
<1>5. SumFunctionOnSet(ReadsOf, ReadsIn(T)) \in Int
  <2>1. ReadsIn(T) \in SUBSET D
    BY DEF ReadsIn, In
  <2>2. IsFiniteSet(ReadsIn(T))
    BY <2>1, InIsFinite
  <2>3. \A y \in ReadsIn(T) : ReadsOf[y] \in Int
    BY <2>1, ChargedIs
  <2> QED
    BY <2>2, <2>3, SumInt
<1>6. Cardinality(In(T, {"tool_completed"}) \cup {x}) = Cardinality(In(T, {"tool_completed"})) + 1
      /\ Cardinality(In(T, {"tool_completed"})) \in Nat
  BY CardinalityWith, InIsFinite DEF In
<1>7. ReadsOf[x] = e.reply.reads /\ e.reply.reads \in Nat
  BY ChargedIs
<1>8. c.turn \in Nat /\ c.expect \in [asked : Nat, called : Nat, done : Nat]
  BY DEF CheckpointSet
<1> HIDE DEF e, S
\* The turns that are completed come before the next one.
<1>9. ASSUME NEW i \in In(S, {"completed"}) PROVE log[i].request.turn < n.turn
  <2>1. CASE i \in In(T, {"completed"})
    BY <1>0, <1>3, <1>8, <2>1 DEF Parts, Line
  <2>2. CASE i = x /\ e.kind = "completed"
    <3>1. Continues(c, e.request)
      BY <1>0, <2>2 DEF Hears, HearsStarted, HearsFailed, HearsReads, HearsMemo,
           HearsSubmission, HearsCall, HearsAnswer, HearsRejection, HearsNothing
    <3>2. log[x].request.turn = c.turn /\ n.turn = c.turn + 1
      BY <1>0, <2>2, <3>1 DEF Continues, Parts, e
    <3> QED
      BY <1>8, <2>2, <3>2
  <2> QED
    BY <1>1, <2>1, <2>2
<1>10. In(S, {"tool_failed"}) = {}
  <2>1. e.kind # "tool_failed"
    BY <1>0 DEF Hears, HearsStarted, HearsFailed, HearsReads, HearsMemo,
         HearsSubmission, HearsCall, HearsAnswer, HearsRejection, HearsNothing
  <2> QED
    BY <1>1, <2>1 DEF Line
\* Every read is called and answered once, and the next turn has the answers.
<1> DEFINE reads == SumFunctionOnSet(ReadsOf, ReadsIn(T))
           done == Cardinality(In(T, {"tool_completed"}))
<1>11. reads + c.expect.done = done + c.expect.asked
  BY DEF Line
<1>12. \A i \in ReadsIn(T) : log[i].request.turn < c.turn
  BY DEF Line, ReadsIn
<1>13. \A i \in ReadsIn(T) : log[i].request.turn \in Nat
  BY <1>3 DEF ReadsIn
<1>14. CASE HearsReads(c, e, n)
  <2>1. /\ n.expect = [asked |-> e.reply.reads, called |-> 0, done |-> 0]
        /\ n.turn = c.turn + 1 /\ n.phase = c.phase
    BY <1>14 DEF HearsReads, Said, CheckpointSet
  <2>2. c.expect = NoReads /\ log[x].request.turn = c.turn
    BY <1>14 DEF HearsReads, Continues, e
  <2>3. e.kind = "completed" /\ e.reply.kind = "reads" /\ c.phase = "Draft"
    BY <1>14 DEF HearsReads
  <2>4. e.reply.reads >= 1
    BY <1>0, <2>3 DEF Sound
  <2>5. ReadsIn(S) = ReadsIn(T) \cup {x} /\ In(S, {"tool_completed"}) = In(T, {"tool_completed"})
    BY <1>1, <1>2, <2>3
  <2>6. SumFunctionOnSet(ReadsOf, ReadsIn(S)) + n.expect.done
          = Cardinality(In(S, {"tool_completed"})) + n.expect.asked
    <3>1. c.expect.done = 0 /\ c.expect.asked = 0
      BY <2>2 DEF NoReads
    <3>2. reads = done
      BY <1>5, <1>6, <1>11, <3>1
    <3> QED
      BY <1>4, <1>5, <1>6, <1>7, <2>1, <2>5, <3>2
  <2>7. ASSUME NEW i \in ReadsIn(S), log[i].request.turn + 1 = n.turn
        PROVE  n.phase = "Draft" /\ n.expect # NoReads
    BY <1>7, <2>1, <2>3, <2>4 DEF NoReads
  <2> QED
    BY <1>9, <1>10, <2>6, <2>7 DEF Line, S
<1>15. CASE HearsMemo(c, e, n) \/ HearsSubmission(c, e, n)
  <2>1. n.expect = c.expect /\ n.turn = c.turn + 1
    <3>1. CASE HearsMemo(c, e, n)
      BY <3>1 DEF HearsMemo, Said, CheckpointSet
    <3>2. CASE HearsSubmission(c, e, n)
      BY <3>2 DEF HearsSubmission, Said, CheckpointSet
    <3> QED
      BY <1>15, <3>1, <3>2
  <2>2. e.kind = "completed" /\ e.reply.kind # "reads"
    BY <1>15 DEF HearsMemo, HearsSubmission
  <2>3. ReadsIn(S) = ReadsIn(T) /\ In(S, {"tool_completed"}) = In(T, {"tool_completed"})
    BY <1>1, <1>2, <2>2
  <2>4. \A i \in ReadsIn(S) : log[i].request.turn + 1 # n.turn
    BY <1>8, <1>12, <1>13, <2>1, <2>3
  <2> QED
    BY <1>9, <1>10, <1>11, <2>1, <2>3, <2>4 DEF Line, S
<1>16. CASE HearsAnswer(c, e, n)
  <2>1. /\ n.expect = IF c.expect.done + 1 < c.expect.asked
                      THEN [c.expect EXCEPT !.done = @ + 1] ELSE NoReads
        /\ n.turn = c.turn /\ n.phase = c.phase
        /\ ~(c.expect.done + 1 < c.expect.asked) => n.outputs = "reads"
    BY <1>16 DEF HearsAnswer, CheckpointSet
  <2>2. e.kind = "tool_completed" /\ c.expect.done < c.expect.asked
    BY <1>8, <1>16 DEF HearsAnswer
  <2>3. ReadsIn(S) = ReadsIn(T) /\ In(S, {"tool_completed"}) = In(T, {"tool_completed"}) \cup {x}
    BY <1>1, <1>2, <2>2
  <2>4. SumFunctionOnSet(ReadsOf, ReadsIn(S)) + n.expect.done
          = Cardinality(In(S, {"tool_completed"})) + n.expect.asked
    <3>0. SumFunctionOnSet(ReadsOf, ReadsIn(S)) = reads
          /\ Cardinality(In(S, {"tool_completed"})) = done + 1
      BY <1>6, <2>3
    <3>a. reads \in Int /\ done \in Nat
      BY <1>5, <1>6
    <3> HIDE DEF reads, done
    <3>1. CASE c.expect.done + 1 < c.expect.asked
      <4>1. n.expect.done = c.expect.done + 1 /\ n.expect.asked = c.expect.asked
        BY <1>8, <2>1, <3>1
      <4>2. c.expect.done \in Nat /\ c.expect.asked \in Nat
        BY <1>8
      <4>3. reads + (c.expect.done + 1) = (done + 1) + c.expect.asked
        BY <1>11, <3>a, <4>2, BothMore
      <4> QED
        BY <3>0, <4>1, <4>3
    <3>2. CASE ~(c.expect.done + 1 < c.expect.asked)
      <4>1. n.expect.done = 0 /\ n.expect.asked = 0 /\ c.expect.asked = c.expect.done + 1
        BY <1>8, <2>1, <2>2, <3>2 DEF NoReads
      <4>2. c.expect.done \in Nat
        BY <1>8
      <4>3. reads = done + 1
        BY <1>11, <3>a, <4>1, <4>2
      <4> QED
        BY <3>0, <3>a, <4>1, <4>3
    <3> QED
      BY <3>1, <3>2
  <2>5. n.expect = NoReads => n.outputs = "reads"
    <3>1. CASE c.expect.done + 1 < c.expect.asked
      <4>1. n.expect.done = c.expect.done + 1
        BY <1>8, <2>1, <3>1
      <4> QED
        BY <1>8, <4>1 DEF NoReads
    <3> QED
      BY <2>1, <3>1
  <2> QED
    BY <1>9, <1>10, <2>1, <2>3, <2>4, <2>5 DEF Line, S
<1>17. CASE HearsCall(c, e, n)
  <2>1. n.expect = [c.expect EXCEPT !.called = @ + 1] /\ n.turn = c.turn /\ n.phase = c.phase
    BY <1>17 DEF HearsCall, CheckpointSet
  <2>2. /\ n.expect.done = c.expect.done /\ n.expect.asked = c.expect.asked
        /\ n.expect.called = c.expect.called + 1
    BY <1>8, <2>1
  <2>3. n.expect # NoReads
    BY <1>8, <2>2 DEF NoReads
  <2>4. ReadsIn(S) = ReadsIn(T) /\ In(S, {"tool_completed"}) = In(T, {"tool_completed"})
    BY <1>1, <1>2, <1>17 DEF HearsCall
  <2> QED
    BY <1>9, <1>10, <1>11, <2>1, <2>2, <2>3, <2>4 DEF Line, S
<1>18. CASE HearsRejection(c, e, n)
  <2>1. n.expect = c.expect /\ n.turn = c.turn /\ n.phase = c.phase
        /\ (c.phase = "Draft" => n.outputs = c.outputs)
    BY <1>18 DEF HearsRejection, CheckpointSet
  <2>2. ReadsIn(S) = ReadsIn(T) /\ In(S, {"tool_completed"}) = In(T, {"tool_completed"})
    BY <1>1, <1>2, <1>18 DEF HearsRejection
  <2> QED
    BY <1>9, <1>10, <1>11, <2>1, <2>2 DEF Line, S
<1>19. CASE HearsStarted(c, e, n) \/ HearsFailed(c, e, n) \/ HearsNothing(c, e, n)
  <2>1. n.expect = c.expect /\ n.turn = c.turn /\ n.phase = c.phase /\ n.outputs = c.outputs
    <3>1. CASE HearsStarted(c, e, n)
      BY <3>1 DEF HearsStarted, CheckpointSet
    <3>2. CASE HearsFailed(c, e, n)
      BY <3>2 DEF HearsFailed, CheckpointSet
    <3>3. CASE HearsNothing(c, e, n)
      BY <3>3 DEF HearsNothing
    <3> QED
      BY <1>19, <3>1, <3>2, <3>3
  <2>2. e.kind \notin {"completed", "tool_completed"}
    BY <1>19 DEF HearsStarted, HearsFailed, HearsNothing
  <2>3. ReadsIn(S) = ReadsIn(T) /\ In(S, {"tool_completed"}) = In(T, {"tool_completed"})
    BY <1>1, <1>2, <2>2
  <2> QED
    BY <1>9, <1>10, <1>11, <2>1, <2>3 DEF Line, S
<1> QED
  BY <1>0, <1>14, <1>15, <1>16, <1>17, <1>18, <1>19 DEF Hears, S

LEMMA ProposedStep ==
  ASSUME log \in Seq(EventSet), NEW T \in SUBSET D, NEW x \in D \ T, \A i \in T : Comes(i, x),
         NEW c \in CheckpointSet, Proposed(T, c), c.subs = Cardinality(SubmissionsIn(T)),
         NEW n \in CheckpointSet, Hears(c, log[x], n)
  PROVE  Proposed(T \cup {x}, n)
<1> DEFINE e == log[x]
           S == T \cup {x}
<1>0. e \in EventSet /\ Parts(c, e, n) /\ Hears(c, e, n)
  BY LogDomain, HearsParts
<1>1. \A K : In(S, K) = In(T, K) \cup (IF e.kind \in K THEN {x} ELSE {})
  BY InWith
<1>2. SubmissionsIn(S) = SubmissionsIn(T) \cup (IF IsSubmission(e) THEN {x} ELSE {})
  BY <1>1 DEF SubmissionsIn, IsSubmission
<1>3. ResultsIn(S) = ResultsIn(T)
        \cup (IF IsSubmission(e) /\ e.reply.result # "none" THEN {x} ELSE {})
  BY <1>2 DEF ResultsIn
<1>4. ResultsIn(T) \subseteq T
  BY DEF ResultsIn, SubmissionsIn, In
<1>5. Comes(x, x)
  BY ComesOrders
<1>6. log[x].reply.result = e.reply.result
  OBVIOUS
<1> HIDE DEF e, S
<1>7. protocol = "research" => n.phase = "Submit"
  BY <1>0 DEF Parts, Proposed
<1>8. n.outputs \in Verdicts => SubmissionsIn(S) # {}
  <2>1. CASE HearsRejection(c, e, n)
    <3>1. CASE c.subs # 0
      <4>1. SubmissionsIn(T) # {}
        BY <3>1, FS_EmptySet
      <4> QED
        BY <1>2, <4>1
    <3>2. CASE c.subs = 0
      <4>1. n = c
        BY <2>1, <3>2 DEF HearsRejection
      <4> QED
        BY <1>2, <4>1 DEF Proposed
    <3> QED
      BY <3>1, <3>2
  <2>2. CASE HearsReads(c, e, n) \/ HearsMemo(c, e, n) \/ HearsSubmission(c, e, n)
    <3>1. n.outputs = "none"
      <4>1. CASE HearsReads(c, e, n)
        BY <4>1 DEF HearsReads, Said, CheckpointSet
      <4>2. CASE HearsMemo(c, e, n)
        BY <4>2 DEF HearsMemo, Said, CheckpointSet
      <4>3. CASE HearsSubmission(c, e, n)
        BY <4>3 DEF HearsSubmission, Said, CheckpointSet
      <4> QED
        BY <2>2, <4>1, <4>2, <4>3
    <3> QED
      BY <3>1 DEF Verdicts
  <2>3. CASE HearsAnswer(c, e, n)
    <3>1. n.outputs = c.outputs \/ n.outputs = "reads"
      BY <2>3 DEF HearsAnswer, CheckpointSet
    <3> QED
      BY <1>2, <3>1 DEF Verdicts, Proposed
  <2>4. CASE HearsStarted(c, e, n) \/ HearsFailed(c, e, n) \/ HearsCall(c, e, n)
             \/ HearsNothing(c, e, n)
    <3>1. n.outputs = c.outputs
      BY <2>4 DEF HearsStarted, HearsFailed, HearsCall, HearsNothing, CheckpointSet
    <3> QED
      BY <1>2, <3>1 DEF Proposed
  <2> QED
    BY <1>0, <2>1, <2>2, <2>3, <2>4 DEF Hears
<1>9. CASE IsSubmission(e) /\ e.reply.result # "none"
  <2>1. n.last = e.reply.result
    BY <1>0, <1>9 DEF Parts
  <2>2. \A j \in ResultsIn(S) : Comes(j, x)
    BY <1>3, <1>4, <1>5
  <2>3. x \in ResultsIn(S)
    BY <1>3, <1>9
  <2> QED
    BY <1>6, <1>7, <1>8, <2>1, <2>2, <2>3 DEF Proposed, S
<1>10. CASE ~(IsSubmission(e) /\ e.reply.result # "none")
  <2>1. n.last = c.last /\ ResultsIn(S) = ResultsIn(T)
    BY <1>0, <1>3, <1>10 DEF Parts
  <2> QED
    BY <1>7, <1>8, <2>1 DEF Proposed, S
<1> QED
  BY <1>9, <1>10

LEMMA FreshLedger ==
  ASSUME protocol \in {"research", "outcome"}, log \in Seq(EventSet)
  PROVE  FreshCheckpoint \in CheckpointSet /\ Ledger({}, FreshCheckpoint)
<1>1. FreshCheckpoint \in CheckpointSet
  BY DEF FreshCheckpoint, CheckpointSet, InitialPhase, Phases, Feedback, NoReads
<1>2. /\ \A K : In({}, K) = {}
      /\ SubmissionsIn({}) = {} /\ ResultsIn({}) = {} /\ ReadsIn({}) = {}
  BY DEF In, SubmissionsIn, ResultsIn, ReadsIn
<1>3. Counts({}, FreshCheckpoint)
  BY <1>2, FS_EmptySet, SumEmpty DEF Counts, FreshCheckpoint
<1>4. Doubts({}, FreshCheckpoint) /\ Proposed({}, FreshCheckpoint)
  BY <1>2 DEF Doubts, Proposed, FreshCheckpoint, InitialPhase, Verdicts
<1>5. Line({}, FreshCheckpoint) /\ Waiting(FreshCheckpoint)
  BY <1>2, FS_EmptySet, SumEmpty DEF Line, Waiting, FreshCheckpoint, NoReads
<1> QED
  BY <1>1, <1>3, <1>4, <1>5 DEF Ledger

\* A replay is in order only if it knows what was spent, asked and proposed.
LEMMA LedgerHolds ==
  ASSUME protocol \in {"research", "outcome"}, log \in Seq(EventSet),
         \A i \in D : Sound(log[i]), NEW S \in SUBSET D
  PROVE  /\ Replayed(S) \in CheckpointSet
         /\ Replayed(S).ok => Ledger(S, Replayed(S))
<1> DEFINE Fine(T) == /\ Replayed(T) \in CheckpointSet
                      /\ Replayed(T).ok => Ledger(T, Replayed(T))
           Bad == {T \in SUBSET S : ~Fine(T)}
<1> SUFFICES ASSUME Bad # {} PROVE FALSE
  OBVIOUS
<1>1. PICK T \in Bad : \A U \in SUBSET T : U # T => U \notin Bad
  <2> HIDE DEF Bad
  <2>1. Bad \in SUBSET SUBSET S /\ IsFiniteSet(S)
    BY InIsFinite DEF Bad
  <2> QED
    BY <2>1, SmallestSubset
<1>2. T \in SUBSET D /\ ~Fine(T)
  OBVIOUS
<1>3. T # {}
  <2>1. CASE T = {}
    BY <1>2, <2>1, ReplayEquation, FreshLedger
  <2> QED
    BY <2>1
<1> DEFINE x == Newest(T)
           U == Older(T)
           c == Replayed(U)
           n == Replayed(T)
<1>4. /\ x \in T /\ x \notin U /\ U \in SUBSET D /\ T = U \cup {x} /\ x \in D \ U
      /\ \A i \in U : Comes(i, x)
  BY <1>2, <1>3, NewestIs DEF Older
<1>5. Fine(U)
  BY <1>1, <1>4
<1>6. n = Fold(c, log[x])
  BY <1>2, <1>3, ReplayEquation
<1>7. log[x] \in EventSet /\ Sound(log[x])
  BY <1>4, LogDomain
<1>8. c \in CheckpointSet /\ (c.ok => Ledger(U, c))
  BY <1>5
<1> HIDE DEF x, U, c, n, Fine, Bad
<1>9. n \in CheckpointSet
  BY <1>6, <1>7, <1>8, FoldTyped
<1>10. ASSUME n.ok PROVE Ledger(T, n)
  <2>0. c.ok
    BY <1>6, <1>10 DEF Fold
  <2>1. Ledger(U, c) /\ Waiting(c)
    BY <1>8, <2>0 DEF Ledger
  <2>2. Hears(c, log[x], n)
    BY <1>6, <1>7, <1>8, <1>10, <2>1, FoldCases
  <2>3. Waiting(n)
    BY <1>6, <1>7, <1>8, <1>10, <2>1, FoldWaiting DEF Sound
  <2>4. Counts(T, n)
    BY <1>4, <1>7, <1>8, <1>9, <2>1, <2>2, CountsStep DEF Ledger
  <2>5. Doubts(T, n)
    BY <1>4, <1>7, <1>8, <1>9, <2>1, <2>2, DoubtsStep DEF Ledger
  <2>6. Line(T, n)
    BY <1>4, <1>7, <1>8, <1>9, <2>1, <2>2, LineStep DEF Ledger
  <2>7. Proposed(T, n)
    BY <1>4, <1>7, <1>8, <1>9, <2>1, <2>2, ProposedStep DEF Ledger, Counts
  <2> QED
    BY <2>3, <2>4, <2>5, <2>6, <2>7 DEF Ledger
<1> QED
  BY <1>2, <1>9, <1>10 DEF Fine, n

----
\* The log grows, and what was replayed before is replayed again.

LEMMA FoldSame ==
  ASSUME protocol' = protocol, NEW c, NEW e
  PROVE  Fold(c, e)' = Fold(c, e)
<1>1. \A d, r : Continues(d, r)' = Continues(d, r)
  BY DEF Continues, NoReads
<1>2. \A d : FoldReply(d, e)' = FoldReply(d, e)
  BY DEF FoldReply, Broken
<1>3. FoldTurn(c, e)' = FoldTurn(c, e)
  BY <1>1, <1>2 DEF FoldTurn, Broken, Unknown
<1>4. FoldTool(c, e)' = FoldTool(c, e) /\ FoldRejection(c, e)' = FoldRejection(c, e)
  BY DEF FoldTool, FoldRejection, Broken, NoReads
<1> QED
  BY <1>3, <1>4 DEF Fold, Broken

LEMMA FreshSame == ASSUME protocol' = protocol PROVE FreshCheckpoint' = FreshCheckpoint
BY DEF FreshCheckpoint, InitialPhase, NoReads

\* The replay of any part of the log takes its newest event last.
ReplayRuns ==
  \A T \in SUBSET D :
    /\ Replayed(T) = IF T = {} THEN FreshCheckpoint
                     ELSE Fold(Replayed(Older(T)), log[Newest(T)])
    /\ T # {} => Newest(T) \in T /\ \A j \in T : Comes(j, Newest(T))

\* The equation in a form that holds of the next state, too.
LEMMA ReplayAlways == log \in Seq(EventSet) => ReplayRuns
BY ReplayEquation, NewestIs DEF ReplayRuns

Grown == log \in Seq(EventSet) /\ log' \in Seq(EventSet) /\ protocol' = protocol
         /\ D \subseteq D' /\ \A i \in D : log'[i] = log[i]

LEMMA NewestSame ==
  ASSUME Grown, NEW S \in SUBSET D, S # {}
  PROVE  Newest(S)' = Newest(S)
<1>1. Newest(S) \in S /\ \A j \in S : Comes(j, Newest(S))
  BY NewestIs DEF Grown
<1>2. (log \in Seq(EventSet) => ReplayRuns)'
  BY ReplayAlways, PTL
<1>3. Newest(S)' \in S /\ \A j \in S : Comes(j, Newest(S))'
  BY <1>2 DEF Grown, ReplayRuns
<1> PICK k \in S : k = Newest(S)'
  BY <1>3
<1>4. \A j \in S : Comes(j, k)
  BY <1>3 DEF Comes, Grown
<1> QED
  BY <1>4, NewestIsOnly DEF Grown

\* The replay of events does not change with those that come after.
LEMMA ReplayGrows ==
  ASSUME Grown, NEW S \in SUBSET D
  PROVE  Replayed(S)' = Replayed(S)
<1> DEFINE Bad == {T \in SUBSET S : Replayed(T)' # Replayed(T)}
<1> SUFFICES ASSUME Bad # {} PROVE FALSE
  OBVIOUS
<1>1. IsFiniteSet(S)
  BY InIsFinite DEF Grown
<1>2. Bad \in SUBSET SUBSET S
  OBVIOUS
<1>3. PICK T \in Bad : \A U \in SUBSET T : U # T => U \notin Bad
  <2> HIDE DEF Bad
  <2> QED
    BY <1>1, <1>2, SmallestSubset
<1>4. T \in SUBSET S /\ Replayed(T)' # Replayed(T)
  BY <1>3
<1>5. (log \in Seq(EventSet) => ReplayRuns)'
  BY ReplayAlways, PTL
<1>6. T # {}
  BY <1>4, <1>5, ReplayEquation, FreshSame DEF Grown, ReplayRuns
<1>7. Newest(T) \in T /\ Newest(T)' = Newest(T) /\ Older(T)' = Older(T)
  BY <1>4, <1>6, NewestSame, NewestIs DEF Grown, Older
<1>8. Replayed(Older(T))' = Replayed(Older(T))
  <2>1. Older(T) \in SUBSET T /\ Older(T) # T
    BY <1>7 DEF Older
  <2>2. Older(T) \notin Bad
    BY <1>3, <2>1
  <2> QED
    BY <2>1, <2>2, <1>4, <1>7
<1>9. Replayed(T)' = Fold(Replayed(Older(T)), log[Newest(T)])'
  BY <1>5, <1>6, <1>4 DEF Grown, ReplayRuns
<1>10. Fold(Replayed(Older(T)), log[Newest(T)])' = Fold(Replayed(Older(T)), log[Newest(T)])
  <2>1. PICK c : c = Replayed(Older(T))
    OBVIOUS
  <2>2. PICK e : e = log[Newest(T)]
    OBVIOUS
  <2>3. Fold(c, e)' = Fold(c, e)
    BY FoldSame DEF Grown
  <2>4. Replayed(Older(T))' = c /\ log[Newest(T)]' = e
    BY <1>7, <1>8, <1>4, <2>1, <2>2 DEF Grown
  <2> QED
    BY <2>1, <2>2, <2>3, <2>4
<1> QED
  BY <1>4, <1>6, <1>9, <1>10, ReplayEquation DEF Grown

----
\* One event more.

Added(e) == /\ log \in Seq(EventSet) /\ e \in EventSet /\ log' = Append(log, e)
            /\ protocol' = protocol
Top == Len(log) + 1

LEMMA AddedLog ==
  ASSUME NEW e, Added(e)
  PROVE  /\ Grown /\ Top \notin D /\ D' = D \cup {Top} /\ log'[Top] = e
         /\ \A i \in D : i \in Nat /\ i < Top /\ log'[i] = log[i]
         /\ Top \in Nat /\ log' \in Seq(EventSet)
<1>1. log' \in Seq(EventSet) /\ Len(log') = Len(log) + 1 /\ Len(log) \in Nat
  BY DEF Added
<1>2. D = 1 .. Len(log) /\ D' = 1 .. Len(log')
  BY <1>1, LogDomain DEF D, Added
<1>3. (\A i \in 1 .. Len(log) : log'[i] = log[i]) /\ log'[Len(log) + 1] = e
  BY DEF Added
<1> QED
  BY <1>1, <1>2, <1>3 DEF Grown, Added, Top

LEMMA AddedSets ==
  ASSUME NEW e, Added(e)
  PROVE  /\ \A K : In(D, K)' = In(D, K) \cup (IF e.kind \in K THEN {Top} ELSE {})
         /\ ReadsIn(D)' = ReadsIn(D)
              \cup (IF e.kind = "completed" /\ e.reply.kind = "reads" THEN {Top} ELSE {})
         /\ SubmissionsIn(D)' = SubmissionsIn(D) \cup (IF IsSubmission(e) THEN {Top} ELSE {})
         /\ ResultsIn(D)' = ResultsIn(D)
              \cup (IF IsSubmission(e) /\ e.reply.result # "none" THEN {Top} ELSE {})
<1>1. Top \notin D /\ D' = D \cup {Top} /\ log'[Top] = e /\ \A i \in D : log'[i] = log[i]
  BY AddedLog
<1>2. \A K : In(D, K)' = In(D, K) \cup (IF e.kind \in K THEN {Top} ELSE {})
  BY <1>1 DEF In
<1>3. ReadsIn(D)' = ReadsIn(D)
        \cup (IF e.kind = "completed" /\ e.reply.kind = "reads" THEN {Top} ELSE {})
  BY <1>1 DEF In, ReadsIn
<1>4. SubmissionsIn(D)' = SubmissionsIn(D) \cup (IF IsSubmission(e) THEN {Top} ELSE {})
  BY <1>1 DEF In, SubmissionsIn, IsSubmission
<1>5. ResultsIn(D)' = ResultsIn(D)
        \cup (IF IsSubmission(e) /\ e.reply.result # "none" THEN {Top} ELSE {})
  BY <1>1, <1>4 DEF ResultsIn, SubmissionsIn, In
<1> QED
  BY <1>2, <1>3, <1>4, <1>5

\* Sums over the events that were there already.
LEMMA SumsGrow ==
  ASSUME Grown, NEW S \in SUBSET D
  PROVE  /\ SumFunctionOnSet(Charged, S)' = SumFunctionOnSet(Charged, S)
         /\ SumFunctionOnSet(ReadsOf, S)' = SumFunctionOnSet(ReadsOf, S)
<1>1. IsFiniteSet(S)
  BY InIsFinite DEF Grown
<1>2. \A i \in S : Charged'[i] = Charged[i] /\ ReadsOf'[i] = ReadsOf[i]
  BY DEF Charged, ReadsOf, Grown
<1>3. \A i \in S : Charged[i] \in Int /\ ReadsOf[i] \in Int
  BY ChargedIs DEF Grown
<1>4. \A f, g : (\A i \in S : f[i] \in Int /\ f[i] = g[i])
        => SumFunctionOnSet(f, S) = SumFunctionOnSet(g, S)
  BY <1>1, SumSame
<1> QED
  BY <1>2, <1>3, <1>4

LEMMA ChargedAlways ==
  log \in Seq(EventSet) =>
    \A i \in D : /\ Charged[i] = IF log[i].used >= 0 THEN log[i].used ELSE 0
                 /\ Charged[i] \in Int /\ ReadsOf[i] = log[i].reply.reads /\ ReadsOf[i] \in Int
BY ChargedIs

LEMMA AddedSums ==
  ASSUME NEW e, Added(e), NEW S \in SUBSET D
  PROVE  /\ SumFunctionOnSet(Charged', S \cup {Top})
              = (IF e.used >= 0 THEN e.used ELSE 0) + SumFunctionOnSet(Charged, S)
         /\ SumFunctionOnSet(ReadsOf', S \cup {Top})
              = e.reply.reads + SumFunctionOnSet(ReadsOf, S)
<1>1. /\ Grown /\ Top \notin D /\ D' = D \cup {Top} /\ log'[Top] = e /\ log' \in Seq(EventSet)
  BY AddedLog
<1>2. IsFiniteSet(S) /\ Top \notin S
  BY <1>1, InIsFinite DEF Added
<1>3. (log \in Seq(EventSet) =>
        \A i \in D : /\ Charged[i] = IF log[i].used >= 0 THEN log[i].used ELSE 0
                     /\ Charged[i] \in Int /\ ReadsOf[i] = log[i].reply.reads /\ ReadsOf[i] \in Int)'
  BY ChargedAlways, PTL
<1>4. /\ \A i \in S \cup {Top} : Charged'[i] \in Int /\ ReadsOf'[i] \in Int
      /\ Charged'[Top] = (IF e.used >= 0 THEN e.used ELSE 0) /\ ReadsOf'[Top] = e.reply.reads
  BY <1>1, <1>3
<1>5. PICK t : t = Top
  OBVIOUS
<1>6. \A f : (\A i \in S \cup {t} : f[i] \in Int)
        => SumFunctionOnSet(f, S \cup {t}) = f[t] + SumFunctionOnSet(f, S)
  BY <1>2, <1>5, SumWith
<1>7. /\ SumFunctionOnSet(Charged', S \cup {t}) = Charged'[t] + SumFunctionOnSet(Charged', S)
      /\ SumFunctionOnSet(ReadsOf', S \cup {t}) = ReadsOf'[t] + SumFunctionOnSet(ReadsOf', S)
  BY <1>4, <1>5, <1>6
<1> QED
  BY <1>1, <1>4, <1>5, <1>7, SumsGrow

----
\* Types.

AgentSet ==
  [pc : {"idle", "loop", "called", "reading", "read", "submitted", "accepted", "ending"},
   end : {"none", "retry", "fail", "defer"}, phase : Phases, turn : Nat, tries : Nat,
   calls : Nat, tools : Nat, tokens : Int, unknown : BOOLEAN, subs : Nat,
   outputs : Feedback, reads : Nat, request : RequestSet, last : Results \cup {"none"},
   result : Results \cup {"none"}]

InSession == ag.pc \notin {"idle", "ending"}

TaskTyped ==
  /\ protocol \in {"research", "outcome"}
  /\ task \in {"queued", "running", "succeeded", "failed"}
  /\ attempt \in Nat /\ spent \in 0 .. TurnAttempts /\ turnFaults \in 0 .. TurnFaults
  /\ task = "queued" => spent < TurnAttempts
  /\ task = "running" => spent >= 1 /\ attempt >= 1
  /\ ag.pc = "idle" <=> task # "running"
  /\ output \in Results \cup {"none"}
LogTyped ==
  /\ log \in Seq(EventSet)
  /\ \A i \in D : Sound(log[i]) /\ log[i].att \in 1 .. attempt
LateTyped ==
  late # <<>> => \E e \in EventSet : /\ late = <<e>> /\ Sound(e) /\ e.kind = "rejected"
                                     /\ e.att \in 1 .. attempt
TurnsTyped == TaskTyped /\ LogTyped /\ LateTyped /\ ag \in AgentSet

\* The agent and the request under way.
AgentInv ==
  /\ InSession /\ protocol = "research" => ag.phase = "Submit"
  /\ ag.pc \in {"reading", "read"} => ag.phase = "Draft" /\ ag.reads >= 1
  /\ ag.pc \in {"submitted", "accepted"} => ag.phase = "Submit"
  /\ ag.pc \in {"called", "submitted"} =>
       /\ ag.request.phase = ag.phase /\ ag.request.turn = ag.turn
       /\ ag.request.repair => protocol = "research"
  /\ ag.pc = "called" =>
       /\ ag.request.cap >= 1
       /\ ag.request.repair = (protocol = "research" /\ ag.outputs = "deliberation")
       /\ ag.request.outputs = IF ag.request.repair THEN "none" ELSE ag.outputs

----
\* What a step does: to the log, and to the agent field by field.

Stays == protocol' = protocol /\ attempt' = attempt
AgentIs(at, phase, turn, tokens, tools, subs, outputs, unknown, last) ==
  /\ ag'.pc = at /\ ag'.phase = phase /\ ag'.turn = turn /\ ag'.tokens = tokens
  /\ ag'.tools = tools /\ ag'.subs = subs /\ ag'.outputs = outputs
  /\ ag'.unknown = unknown /\ ag'.last = last

WritesNothing ==
  /\ Stays /\ log' = log /\ output' = output /\ ag.pc # "idle" /\ ag'.pc \in {"idle", "ending"}
  /\ \/ late' = late
     \/ /\ ag.pc = "submitted" /\ late = <<>> /\ ag'.pc = "idle"
        /\ \E v \in Verdicts : late' = <<Entry("rejected", v)>>
Stops(e) ==
  /\ Stays /\ Added(e) /\ Sound(e) /\ late' = late /\ e.att = attempt
  /\ ag'.pc \in {"idle", "ending"}
  /\ \/ /\ ag.pc = "loop" /\ e.kind = "failed" /\ e.used = Unknown /\ e.request = Request
        /\ output' = output
     \/ ag.pc = "called" /\ e.kind \in TurnEnds /\ e.request = ag.request /\ output' = output
     \/ ag.pc = "read" /\ e.kind = "tool_failed" /\ output' = output
     \/ ag.pc = "submitted" /\ e.kind = "rejected" /\ Validates /\ output' = output
     \/ ag.pc = "accepted" /\ e.kind = "committed" /\ output' = ag.result
WritesLate(e) ==
  /\ Stays /\ Added(e) /\ Sound(e) /\ ag' = ag /\ output' = output /\ late = <<e>> /\ late' = <<>>
  /\ e.kind = "rejected"
WritesOwn(e) == Stays /\ Added(e) /\ Sound(e) /\ late' = late /\ output' = output /\ e.att = attempt
Starts(e) ==
  /\ WritesOwn(e) /\ ag.pc = "loop" /\ OutputCap > 0 /\ ~ag.unknown
  /\ e.kind = "started" /\ e.request = Request /\ e.used = 0 /\ ag'.request = Request
  /\ AgentIs("called", ag.phase, ag.turn, ag.tokens, ag.tools, ag.subs, ag.outputs,
             ag.unknown, ag.last)
Retries(e) ==
  /\ WritesOwn(e) /\ ag.pc = "called"
  /\ e.kind = "failed" /\ e.request = ag.request /\ e.used = Unknown
  /\ AgentIs("loop", ag.phase, ag.turn, ag.tokens, ag.tools, ag.subs, ag.outputs,
             TRUE, ag.last)
Completes(e) ==
  /\ WritesOwn(e) /\ ag.pc = "called"
  /\ e.kind = "completed" /\ e.request = ag.request /\ ag.tokens + e.used <= MaxOutput
HasRead(e) ==
  /\ Completes(e) /\ ag.phase = "Draft" /\ e.reply.kind = "reads"
  /\ ag.tools + e.reply.reads <= ToolLimit /\ ag'.reads = e.reply.reads
  /\ AgentIs("reading", ag.phase, ag.turn, ag.tokens + e.used, ag.tools + e.reply.reads,
             ag.subs, "none", ag.unknown, ag.last)
HasMemo(e) ==
  /\ Completes(e) /\ ag.phase = "Draft" /\ e.reply.kind = "memo"
  /\ AgentIs("loop", "Submit", ag.turn + 1, ag.tokens + e.used, ag.tools, ag.subs, "none",
             ag.unknown, ag.last)
HasSubmission(e) ==
  /\ Completes(e) /\ ag.phase = "Submit" /\ e.reply.kind = "submission"
  /\ ag'.result = e.reply.result /\ ag'.request = ag.request
  /\ AgentIs("submitted", ag.phase, ag.turn, ag.tokens + e.used, ag.tools, ag.subs, "none",
             ag.unknown, ag.last)
CallsRead(e) ==
  /\ WritesOwn(e) /\ ag.pc = "reading" /\ e.kind = "tool_called" /\ ag'.reads = ag.reads
  /\ AgentIs("read", ag.phase, ag.turn, ag.tokens, ag.tools, ag.subs, ag.outputs,
             ag.unknown, ag.last)
HasAnswer(e) ==
  /\ WritesOwn(e) /\ ag.pc = "read" /\ e.kind \in {"tool_completed", "tool_failed"}
  /\ IF ag.reads > 1
     THEN ag'.reads = ag.reads - 1 /\
          AgentIs("reading", ag.phase, ag.turn, ag.tokens, ag.tools, ag.subs, ag.outputs,
                  ag.unknown, ag.last)
     ELSE AgentIs("loop", ag.phase, ag.turn + 1, ag.tokens, ag.tools, ag.subs, "reads",
                  ag.unknown, ag.last)
Approves ==
  /\ Stays /\ log' = log /\ late' = late /\ output' = output /\ Validates /\ ag'.result = Bound
  /\ AgentIs("accepted", ag.phase, ag.turn, ag.tokens, ag.tools, ag.subs, ag.outputs,
             ag.unknown, ag.last)
Rejects(e) ==
  /\ WritesOwn(e) /\ Validates /\ e.kind = "rejected" /\ ag.subs + 1 < TurnAttempts
  /\ AgentIs("loop", ag.phase, ag.turn + 1, ag.tokens, ag.tools, ag.subs + 1, e.detail,
             ag.unknown, Bound)

\* The claim, and what it takes over.
BeginsWith(e) ==
  /\ Added(e) /\ Sound(e) /\ e.kind = "begin" /\ e.att = attempt + 1 /\ attempt' = attempt + 1
  /\ protocol' = protocol /\ late' = late /\ output' = output /\ task = "queued"
BeginsAgain(e) ==
  /\ BeginsWith(e)
  /\ \E drifted \in BOOLEAN :
       LET c == AgentRecoveryCheckpoint(drifted)
       IN  /\ Restores(c)
           /\ AgentIs("loop", c.phase, c.turn, c.tokens, c.tools, c.subs, c.outputs,
                      FALSE, c.last)
BeginsInVain(e) == BeginsWith(e) /\ ag'.pc = "ending"

LEMMA EntrySound ==
  ASSUME TurnsTyped, NEW K \in Kinds, NEW v \in Feedback
  PROVE  /\ Entry(K, v) \in EventSet /\ Entry(K, v).kind = K /\ Entry(K, v).att = attempt
         /\ Entry(K, v).detail = v /\ Entry(K, v).used = 0
<1>1. NoRequest \in RequestSet /\ NoReply \in ReplySet
  BY DEF NoRequest, NoReply, RequestSet, ReplySet, Phases, Feedback
<1> QED
  BY <1>1 DEF Entry, Event, EventSet, TurnsTyped, TaskTyped

LEMMA EntryLater ==
  ASSUME NEW w \in EventSet, NEW a \in Nat
  PROVE  LET e == [w EXCEPT !.att = a]
         IN  e \in EventSet /\ e.kind = w.kind /\ e.att = a
BY DEF EventSet

LEMMA EventIs ==
  ASSUME TurnsTyped, NEW K \in Kinds, NEW r \in RequestSet, NEW u \in Int, NEW y \in ReplySet
  PROVE  LET e == Event(K, r, u, y, "none")
         IN  e \in EventSet /\ e.kind = K /\ e.att = attempt /\ e.request = r /\ e.used = u
             /\ e.reply = y
BY DEF Event, EventSet, TurnsTyped, TaskTyped, Feedback

LEMMA FailedIs ==
  ASSUME TurnsTyped, NEW r \in RequestSet
  PROVE  LET e == Event("failed", r, Unknown, NoReply, "none")
         IN  e \in EventSet /\ e.kind = "failed" /\ e.att = attempt /\ e.request = r
             /\ e.used = Unknown
<1>1. "failed" \in Kinds /\ Unknown \in Int /\ NoReply \in ReplySet
  BY DEF NoReply, ReplySet, Kinds, Unknown
<1> QED
  BY <1>1, EventIs

LEMMA RequestTyped ==
  ASSUME TurnsTyped, ResearchTurnsAssumption
  PROVE  /\ OutputCap \in Int /\ Request \in RequestSet
         /\ Request.turn = ag.turn /\ Request.phase = ag.phase /\ Request.cap = OutputCap
         /\ Request.repair = (protocol = "research" /\ ag.outputs = "deliberation")
         /\ Request.outputs = IF Request.repair THEN "none" ELSE ag.outputs
<1>1. ag \in AgentSet /\ MaxOutput \in Nat
  BY DEF TurnsTyped, ResearchTurnsAssumption
<1>2. ag.turn \in Nat /\ ag.phase \in Phases /\ ag.outputs \in Feedback /\ ag.tokens \in Int
      /\ ag.tools \in Nat
  BY <1>1 DEF AgentSet
<1>3. DraftReserve \in Int
  <2>1. PICK h \in Int : h = MaxOutput \div 2
    BY <1>1
  <2>2. Max({h, 1}) \in Int
    <3>1. CASE h >= 1
      <4>1. \A x \in {h, 1} : h >= x
        BY <2>1, <3>1
      <4> QED
        BY <2>1, <4>1 DEF Max
    <3>2. CASE h < 1
      <4>1. \A x \in {h, 1} : 1 >= x
        BY <2>1, <3>2
      <4> QED
        BY <2>1, <4>1 DEF Max
    <3> QED
      BY <2>1, <3>1, <3>2
  <2> QED
    BY <2>1, <2>2 DEF DraftReserve
<1>4. OutputCap \in Int
  BY <1>1, <1>2, <1>3 DEF OutputCap, Remaining
<1> QED
  BY <1>2, <1>4 DEF Request, RequestSet, Feedback

TurnMoved ==
  \/ WritesNothing \/ Approves
  \/ \E e : \/ BeginsAgain(e) \/ BeginsInVain(e) \/ Stops(e) \/ WritesLate(e) \/ Starts(e)
            \/ Retries(e) \/ HasRead(e) \/ HasMemo(e) \/ HasSubmission(e) \/ CallsRead(e)
            \/ HasAnswer(e) \/ Rejects(e)

Outside == <<protocol, task, attempt, spent, late, output, turnFaults>>

LEMMA TaskMovesTurn ==
  ASSUME TurnsTyped, AgentInv, ResearchTurnsAssumption,
         \/ \E drifted \in BOOLEAN : Begin(drifted)
         \/ FinishTask \/ CommitOutput \/ LoseAttempt \/ WriteLateRejection \/ LoseRunLog
  PROVE  TurnMoved
<1>1. /\ ag \in AgentSet /\ log \in Seq(EventSet) /\ attempt \in Nat
  BY DEF TurnsTyped, LogTyped, TaskTyped
<1>2. ASSUME NEW drifted \in BOOLEAN, Begin(drifted) PROVE TurnMoved
  <2> DEFINE e == [Entry("begin", "none") EXCEPT !.att = attempt + 1]
             c == AgentRecoveryCheckpoint(drifted)
  <2>1. e \in EventSet /\ e.kind = "begin" /\ e.att = attempt + 1
    <3>1. "begin" \in Kinds /\ "none" \in Feedback /\ attempt + 1 \in Nat
      BY <1>1 DEF Kinds, Feedback
    <3>2. Entry("begin", "none") \in EventSet /\ Entry("begin", "none").kind = "begin"
      BY <3>1, EntrySound
    <3> QED
      BY <3>1, <3>2, EntryLater
  <2>2. BeginsWith(e)
    BY <1>1, <1>2, <2>1 DEF Begin, BeginsWith, Added, Sound
  <2>3. CASE ~Restores(c)
    <3>1. ag'.pc = "ending"
      BY <1>2, <2>3 DEF Begin, Restored, NoAgent
    <3> QED
      BY <2>2, <3>1 DEF BeginsInVain, TurnMoved
  <2>4. CASE Restores(c)
    <3>1. ag' = Restored(c)
      BY <1>2, <2>4 DEF Begin
    <3>2. AgentIs("loop", c.phase, c.turn, c.tokens, c.tools, c.subs, c.outputs, FALSE, c.last)
      BY <3>1 DEF Restored, NoAgent, AgentIs
    <3> QED
      BY <2>2, <2>4, <3>2 DEF BeginsAgain, TurnMoved
  <2> QED
    BY <2>3, <2>4
<1>3. CASE FinishTask
  BY <1>3 DEF FinishTask, TurnMoved, WritesNothing, Stays, NoAgent
<1>4. CASE CommitOutput
  <2> DEFINE e == Entry("committed", "none")
  <2>1. e \in EventSet /\ e.kind = "committed" /\ e.att = attempt
    <3>1. "committed" \in Kinds /\ "none" \in Feedback /\ attempt \in Nat
      BY <1>1 DEF Kinds, Feedback
    <3> QED
      BY <3>1, EntrySound
  <2>2. Added(e) /\ Sound(e)
    BY <1>1, <1>4, <2>1 DEF CommitOutput, Write, Added, Sound
  <2>3. ag'.pc = "idle"
    BY <1>4 DEF CommitOutput, NoAgent
  <2>4. Stops(e)
    BY <1>4, <2>1, <2>2, <2>3 DEF CommitOutput, Stops, Stays
  <2> QED
    BY <2>4 DEF TurnMoved
<1>5. CASE LoseAttempt
  <2>1. ag'.pc = "idle"
    BY <1>5 DEF LoseAttempt, NoAgent
  <2> QED
    BY <1>5, <2>1 DEF LoseAttempt, TurnMoved, WritesNothing, Stays
<1>6. CASE WriteLateRejection
  <2>1. PICK e \in EventSet : /\ late = <<e>> /\ Sound(e) /\ e.kind = "rejected"
                              /\ e.att \in 1 .. attempt
    BY <1>6 DEF WriteLateRejection, TurnsTyped, LateTyped
  <2>2. log' = Append(log, e)
    BY <1>1, <1>6, <2>1, AppendProperties DEF WriteLateRejection
  <2>3. WritesLate(e)
    BY <1>1, <1>6, <2>1, <2>2 DEF WriteLateRejection, WritesLate, Stays, Added
  <2> QED
    BY <2>3 DEF TurnMoved
<1>7. CASE LoseRunLog
  <2>1. ag'.pc = "ending"
    BY <1>1, <1>7 DEF LoseRunLog, Ends, AgentSet
  <2> QED
    BY <1>7, <2>1 DEF LoseRunLog, TurnMoved, WritesNothing, Stays
<1> QED
  BY <1>2, <1>3, <1>4, <1>5, <1>6, <1>7

\* The fields of what the agent holds, one by one.
LEMMA AgentFields ==
  ASSUME ag \in AgentSet
  PROVE  /\ ag.phase \in Phases /\ ag.turn \in Nat /\ ag.tries \in Nat /\ ag.calls \in Nat
         /\ ag.tools \in Nat /\ ag.tokens \in Int /\ ag.unknown \in BOOLEAN /\ ag.subs \in Nat
         /\ ag.outputs \in Feedback /\ ag.reads \in Nat /\ ag.request \in RequestSet
         /\ ag.last \in Results \cup {"none"} /\ ag.result \in Results \cup {"none"}
         /\ \A how : Ends(how).pc = "ending"
BY DEF AgentSet, Ends

LEMMA TurnMoves ==
  ASSUME TurnsTyped, AgentInv, ResearchTurnsAssumption, UNCHANGED Outside,
         \/ StartTurn \/ AbandonDraft \/ RefuseTurn \/ MismatchCapability
         \/ \E retryable \in BOOLEAN : FailTurn(retryable)
         \/ \E used \in Usage : LateTurn(used)
  PROVE  TurnMoved
<1>1. /\ ag \in AgentSet /\ log \in Seq(EventSet) /\ attempt \in Nat
  BY DEF TurnsTyped, LogTyped, TaskTyped
<1>2. Stays /\ late' = late /\ output' = output
  BY DEF Outside, Stays
<1>3. NoReply \in ReplySet /\ "started" \in Kinds /\ "failed" \in Kinds /\ Unknown \in Int
  BY DEF NoReply, ReplySet, Kinds, Unknown
<1>4. \A e : e \in EventSet /\ log' = Append(log, e) => Added(e)
  BY <1>1, <1>2 DEF Added, Stays
<1>5. CASE StartTurn
  <2> DEFINE e == Event("started", Request, 0, NoReply, "none")
  <2>1. Request \in RequestSet
    BY RequestTyped
  <2>2. e \in EventSet /\ e.kind = "started" /\ e.att = attempt /\ e.request = Request /\ e.used = 0
    BY <1>3, <2>1, EventIs
  <2>3. log' = Append(log, e) /\ ag.pc = "loop" /\ OutputCap > 0 /\ ~ag.unknown
        /\ ag' = [ag EXCEPT !.pc = "called", !.calls = @ + 1, !.request = Request]
    BY <1>5 DEF StartTurn, Write
  <2> HIDE DEF e
  <2>4. WritesOwn(e)
    BY <1>2, <1>4, <2>2, <2>3 DEF WritesOwn, Sound
  <2>5. /\ ag'.request = Request
        /\ AgentIs("called", ag.phase, ag.turn, ag.tokens, ag.tools, ag.subs, ag.outputs,
                   ag.unknown, ag.last)
    BY <1>1, <2>3 DEF AgentIs, AgentSet
  <2> QED
    BY <2>2, <2>3, <2>4, <2>5 DEF Starts, TurnMoved
<1>6. CASE AbandonDraft \/ RefuseTurn
  <2>1. ag'.pc = "ending" /\ log' = log /\ ag.pc # "idle"
    BY <1>1, <1>6, AgentFields DEF AbandonDraft, RefuseTurn
  <2> QED
    BY <1>2, <2>1 DEF WritesNothing, TurnMoved
<1>7. CASE MismatchCapability
  <2> DEFINE e == Event("failed", Request, Unknown, NoReply, "none")
  <2>1. Request \in RequestSet
    BY RequestTyped
  <2>2. e \in EventSet /\ e.kind = "failed" /\ e.att = attempt /\ e.request = Request /\ e.used = Unknown
    BY <1>3, <2>1, EventIs
  <2>3. log' = Append(log, e) /\ ag.pc = "loop" /\ ag' = Ends("fail")
    BY <1>7 DEF MismatchCapability, Write
  <2> HIDE DEF e
  <2>4. Added(e) /\ Sound(e) /\ ag'.pc = "ending"
    BY <1>1, <1>4, <2>2, <2>3, AgentFields DEF Sound
  <2>5. Stops(e)
    BY <1>2, <2>2, <2>3, <2>4 DEF Stops
  <2> QED
    BY <2>5 DEF TurnMoved
<1>8. ASSUME NEW retryable \in BOOLEAN, FailTurn(retryable) PROVE TurnMoved
  <2> DEFINE e == Event("failed", ag.request, Unknown, NoReply, "none")
  <2>1. ag.request \in RequestSet
    BY <1>1, AgentFields
  <2>2. e \in EventSet /\ e.kind = "failed" /\ e.att = attempt /\ e.request = ag.request /\ e.used = Unknown
    BY <2>1, FailedIs
  <2>3. log' = Append(log, e) /\ ag.pc = "called"
        /\ (\/ ag' = [ag EXCEPT !.pc = "loop", !.tries = @ + 1, !.unknown = TRUE]
            \/ ag' = Ends("fail"))
    BY <1>8 DEF FailTurn, Write
  <2> HIDE DEF e
  <2>4. Added(e) /\ Sound(e) /\ WritesOwn(e)
    BY <1>2, <1>4, <2>2, <2>3 DEF Sound, WritesOwn
  <2>5. CASE ag' = Ends("fail")
    <3>1. ag'.pc = "ending"
      BY <1>1, <2>5, AgentFields
    <3>2. Stops(e)
      BY <1>2, <2>2, <2>3, <2>4, <3>1 DEF Stops, TurnEnds
    <3> QED
      BY <3>2 DEF TurnMoved
  <2>6. CASE ag' = [ag EXCEPT !.pc = "loop", !.tries = @ + 1, !.unknown = TRUE]
    <3>1. AgentIs("loop", ag.phase, ag.turn, ag.tokens, ag.tools, ag.subs, ag.outputs,
                  TRUE, ag.last)
      BY <1>1, <2>6 DEF AgentIs, AgentSet
    <3> QED
      BY <2>2, <2>3, <2>4, <3>1 DEF Retries, TurnMoved
  <2> QED
    BY <2>3, <2>5, <2>6
<1>9. ASSUME NEW used \in Usage, LateTurn(used) PROVE TurnMoved
  <2> DEFINE e == Event("failed", ag.request, used, NoReply, "none")
  <2>1. ag.request \in RequestSet /\ ag.pc = "called" /\ log' = Append(log, e) /\ ag' = Ends("fail")
    BY <1>1, <1>9, AgentFields DEF LateTurn, Write
  <2>2. used \in Nat /\ used \in Int
    BY <1>9, <2>1 DEF Usage, AgentInv, RequestSet
  <2>3. e \in EventSet /\ e.kind = "failed" /\ e.att = attempt /\ e.request = ag.request /\ e.used = used
    BY <1>3, <2>1, <2>2, EventIs
  <2> HIDE DEF e
  <2>4. Added(e) /\ Sound(e) /\ ag'.pc = "ending"
    BY <1>1, <1>4, <2>1, <2>2, <2>3, AgentFields DEF Sound
  <2>5. Stops(e)
    BY <1>2, <2>1, <2>3, <2>4 DEF Stops, TurnEnds
  <2> QED
    BY <2>5 DEF TurnMoved
<1> QED
  BY <1>5, <1>6, <1>7, <1>8, <1>9

LEMMA CompleteMoves ==
  ASSUME TurnsTyped, AgentInv, ResearchTurnsAssumption, UNCHANGED Outside,
         NEW reply \in Replies, NEW used \in Usage, CompleteTurn(reply, used)
  PROVE  TurnMoved
<1> DEFINE e == Event("completed", ag.request, used, reply, "none")
           n == [ag EXCEPT !.tokens = @ + used, !.outputs = "none", !.tries = 1,
                           !.result = reply.result]
<1>1. /\ ag \in AgentSet /\ log \in Seq(EventSet) /\ attempt \in Nat
      /\ MaxBatch \in Nat
  BY DEF TurnsTyped, LogTyped, TaskTyped, ResearchTurnsAssumption
<1>2. Stays /\ late' = late /\ output' = output
  BY DEF Outside, Stays
<1>3. ag.pc = "called" /\ log' = Append(log, e) /\ ag.request \in RequestSet
  BY <1>1, AgentFields DEF CompleteTurn, Write
<1>4. used \in Nat /\ used \in Int /\ ag.request.phase = ag.phase
  BY <1>3 DEF Usage, AgentInv, RequestSet
<1>5. /\ reply \in ReplySet
      /\ reply.kind = "reads" => ag.phase = "Draft" /\ reply.reads >= 1
      /\ (reply.kind \in {"submission", "muddled"} /\ ag.phase = "Submit" /\ reply.result = "none")
            => ag.request.repair
  <2>1. CASE ag.request.phase = "Draft"
    BY <1>1, <1>4, <2>1 DEF Replies, ReplySet
  <2>2. CASE ag.request.phase # "Draft"
    <3>1. CASE reply \in [kind : {"blank"}, reads : {0}, result : {"none"}]
      BY <3>1 DEF ReplySet
    <3>2. CASE /\ reply \in [kind : {"submission", "muddled"}, reads : {0},
                             result : Results \cup {"none"}]
               /\ ~ag.request.repair => reply.result # "none"
      BY <2>2, <1>4, <3>2 DEF ReplySet
    <3>3. CASE reply \in [kind : {"submission", "muddled"}, reads : {0},
                          result : Results \cup (IF ag.request.repair THEN {"none"} ELSE {})]
      <4>1. reply.kind \in {"submission", "muddled"} /\ reply.reads = 0
            /\ reply.result \in Results \cup (IF ag.request.repair THEN {"none"} ELSE {})
            /\ reply = [kind |-> reply.kind, reads |-> reply.reads, result |-> reply.result]
        BY <3>3
      <4>2. "none" \notin Results
        BY DEF ResearchTurnsAssumption
      <4>3. ~ag.request.repair => reply.result # "none"
        BY <4>1, <4>2
      <4>4. reply.result \in Results \cup {"none"}
        BY <4>1
      <4>5. reply \in [kind : {"submission", "muddled"}, reads : {0},
                       result : Results \cup {"none"}]
        BY <4>1, <4>4
      <4> QED
        BY <3>2, <4>3, <4>5
    <3> QED
      BY <2>2, <3>1, <3>3 DEF Replies
  <2> QED
    BY <2>1, <2>2
<1>6. e \in EventSet /\ e.kind = "completed" /\ e.att = attempt /\ e.request = ag.request
      /\ e.used = used /\ e.reply = reply
  <2>1. "completed" \in Kinds
    BY DEF Kinds
  <2> QED
    BY <1>3, <1>4, <1>5, <2>1, EventIs
<1>7. Added(e) /\ Sound(e) /\ WritesOwn(e)
  <2> HIDE DEF e
  <2>1. Sound(e)
    BY <1>4, <1>5, <1>6 DEF Sound
  <2> QED
    BY <1>1, <1>2, <1>3, <1>6, <2>1 DEF Added, WritesOwn, Stays
<1>8. ASSUME NEW how \in {"fail", "retry"}, ag' = Ends(how) PROVE TurnMoved
  <2>1. ag'.pc = "ending"
    BY <1>1, <1>8, AgentFields
  <2> HIDE DEF e
  <2>2. Stops(e)
    BY <1>2, <1>3, <1>6, <1>7, <2>1 DEF Stops, TurnEnds
  <2> QED
    BY <2>2 DEF TurnMoved
<1>9. CASE \/ n.tokens > MaxOutput
           \/ used > ag.request.cap
           \/ ag.phase = "Draft" /\ reply.kind = "submission"
           \/ reply.kind = "muddled"
  BY <1>8, <1>9 DEF CompleteTurn
<1>10. CASE ~ (\/ n.tokens > MaxOutput
               \/ used > ag.request.cap
               \/ ag.phase = "Draft" /\ reply.kind = "submission"
               \/ reply.kind = "muddled")
  <2>1. ag' = CASE ag.phase = "Draft" /\ reply.kind = "reads" ->
                     IF ag.tools + reply.reads > ToolLimit THEN Ends("fail")
                     ELSE [n EXCEPT !.pc = "reading", !.reads = reply.reads,
                                    !.tools = @ + reply.reads]
                [] ag.phase = "Draft" /\ reply.kind = "memo" ->
                     [n EXCEPT !.pc = "loop", !.phase = "Submit", !.turn = @ + 1]
                [] reply.kind = "blank" -> Ends("retry")
                [] OTHER -> [n EXCEPT !.pc = "submitted"]
    BY <1>10 DEF CompleteTurn
  <2>2. ag.tokens + used <= MaxOutput
    <3>1. n.tokens = ag.tokens + used
      BY <1>1 DEF AgentSet
    <3>2. ag.tokens + used \in Int /\ MaxOutput \in Int
      BY <1>1, <1>4, AgentFields DEF ResearchTurnsAssumption
    <3> QED
      BY <1>10, <3>1, <3>2
  <2>3. Completes(e)
    <3> HIDE DEF e
    <3> QED
      BY <1>3, <1>6, <1>7, <2>2 DEF Completes
  <2>4. CASE ag.phase = "Draft" /\ reply.kind = "reads"
    <3>1. CASE ag.tools + reply.reads > ToolLimit
      BY <1>8, <2>1, <2>4, <3>1
    <3>2. CASE ~ (ag.tools + reply.reads > ToolLimit)
      <4>1. ag' = [n EXCEPT !.pc = "reading", !.reads = reply.reads, !.tools = @ + reply.reads]
        BY <2>1, <2>4, <3>2
      <4>2. /\ ag'.reads = reply.reads
            /\ AgentIs("reading", ag.phase, ag.turn, ag.tokens + used, ag.tools + reply.reads,
                       ag.subs, "none", ag.unknown, ag.last)
        BY <1>1, <4>1 DEF AgentSet, AgentIs
      <4>3. ag.tools + reply.reads <= ToolLimit
        BY <1>1, <1>5, <3>2, AgentFields DEF ReplySet, ToolLimit, ResearchTurnsAssumption
      <4> HIDE DEF e
      <4>4. HasRead(e)
        BY <1>6, <2>3, <2>4, <4>2, <4>3 DEF HasRead
      <4> QED
        BY <4>4 DEF TurnMoved
    <3> QED
      BY <3>1, <3>2
  <2>5. CASE ag.phase = "Draft" /\ reply.kind = "memo"
    <3>1. ag' = [n EXCEPT !.pc = "loop", !.phase = "Submit", !.turn = @ + 1]
      BY <2>1, <2>5
    <3>2. AgentIs("loop", "Submit", ag.turn + 1, ag.tokens + used, ag.tools, ag.subs, "none",
                  ag.unknown, ag.last)
      BY <1>1, <3>1 DEF AgentSet, AgentIs
    <3> HIDE DEF e
    <3>3. HasMemo(e)
      BY <1>6, <2>3, <2>5, <3>2 DEF HasMemo
    <3> QED
      BY <3>3 DEF TurnMoved
  <2>6. CASE reply.kind = "blank"
    <3>1. ag' = Ends("retry")
      BY <2>1, <2>6
    <3> QED
      BY <1>8, <3>1
  <2>7. CASE /\ ~ (ag.phase = "Draft" /\ reply.kind = "reads")
             /\ ~ (ag.phase = "Draft" /\ reply.kind = "memo") /\ reply.kind # "blank"
    <3>1. ag' = [n EXCEPT !.pc = "submitted"]
      BY <2>1, <2>7
    <3>2. /\ ag'.result = reply.result /\ ag'.request = ag.request
          /\ AgentIs("submitted", ag.phase, ag.turn, ag.tokens + used, ag.tools, ag.subs, "none",
                     ag.unknown, ag.last)
      BY <1>1, <3>1 DEF AgentSet, AgentIs
    <3>3. ag.phase = "Submit" /\ reply.kind = "submission"
      <4>1. ag.phase \in Phases
        BY <1>1, AgentFields
      <4>2. reply.kind # "reads"
        BY <1>5, <2>7
      <4>3. ag.phase = "Submit" => reply.kind \in {"blank", "submission", "muddled"}
        BY <1>4, <2>7 DEF Replies
      <4>4. ag.phase = "Draft" => reply.kind \in {"blank", "memo", "submission", "reads"}
        BY <1>4, <2>7 DEF Replies
      <4> QED
        BY <1>10, <2>7, <4>1, <4>2, <4>3, <4>4 DEF Phases
    <3> HIDE DEF e
    <3>4. HasSubmission(e)
      BY <1>6, <2>3, <3>2, <3>3 DEF HasSubmission
    <3> QED
      BY <3>4 DEF TurnMoved
  <2> QED
    BY <2>4, <2>5, <2>6, <2>7
<1> QED
  BY <1>9, <1>10

LEMMA ToolMoves ==
  ASSUME TurnsTyped, AgentInv, ResearchTurnsAssumption, UNCHANGED Outside,
         CallTool \/ \E how \in {"read", "range", "failed"} : FinishTool(how)
  PROVE  TurnMoved
<1>1. /\ ag \in AgentSet /\ log \in Seq(EventSet) /\ attempt \in Nat
  BY DEF TurnsTyped, LogTyped, TaskTyped
<1>2. Stays /\ late' = late /\ output' = output
  BY DEF Outside, Stays
<1>3. /\ "tool_called" \in Kinds /\ "tool_completed" \in Kinds /\ "tool_failed" \in Kinds
      /\ "none" \in Feedback
  BY DEF Kinds, Feedback
<1>4. ASSUME NEW K \in {"tool_called", "tool_completed", "tool_failed"}, Write(Entry(K, "none"))
      PROVE  LET e == Entry(K, "none") IN WritesOwn(e) /\ e.kind = K
  <2> DEFINE e == Entry(K, "none")
  <2>1. e \in EventSet /\ e.kind = K /\ e.att = attempt
    <3>1. K \in Kinds
      BY DEF Kinds
    <3> QED
      BY <1>3, <3>1, EntrySound
  <2>2. log' = Append(log, e)
    BY <1>4 DEF Write
  <2> HIDE DEF e
  <2>3. WritesOwn(e)
    BY <1>1, <1>2, <2>1, <2>2 DEF WritesOwn, Added, Stays, Sound
  <2> QED
    BY <2>1, <2>3 DEF e
<1>5. CASE CallTool
  <2>1. ag.pc = "reading" /\ ag' = [ag EXCEPT !.pc = "read"] /\ Write(Entry("tool_called", "none"))
    BY <1>5 DEF CallTool
  <2>2. PICK e : e = Entry("tool_called", "none") /\ WritesOwn(e) /\ e.kind = "tool_called"
    BY <1>4, <2>1
  <2>3. /\ ag'.reads = ag.reads
        /\ AgentIs("read", ag.phase, ag.turn, ag.tokens, ag.tools, ag.subs, ag.outputs,
                   ag.unknown, ag.last)
    BY <1>1, <2>1 DEF AgentSet, AgentIs
  <2>4. CallsRead(e)
    BY <2>1, <2>2, <2>3 DEF CallsRead
  <2> QED
    BY <2>4 DEF TurnMoved
<1>6. CASE FinishTool("failed")
  <2>1. ag.pc = "read" /\ ag' = Ends("fail") /\ Write(Entry("tool_failed", "none"))
    BY <1>6 DEF FinishTool
  <2>2. PICK e : e = Entry("tool_failed", "none") /\ WritesOwn(e) /\ e.kind = "tool_failed"
    BY <1>4, <2>1
  <2>3. ag'.pc = "ending"
    BY <1>1, <2>1, AgentFields
  <2>4. Stops(e)
    BY <2>1, <2>2, <2>3 DEF Stops, WritesOwn
  <2> QED
    BY <2>4 DEF TurnMoved
<1>7. ASSUME NEW how \in {"read", "range"}, FinishTool(how) PROVE TurnMoved
  <2>1. ag.pc = "read"
        /\ ag' = IF ag.reads > 1 THEN [ag EXCEPT !.pc = "reading", !.reads = @ - 1]
                 ELSE [ag EXCEPT !.pc = "loop", !.reads = 0, !.outputs = "reads",
                                 !.turn = @ + 1]
    BY <1>7 DEF FinishTool
  <2>2. PICK e : WritesOwn(e) /\ e.kind \in {"tool_completed", "tool_failed"}
    <3>1. PICK K \in {"tool_completed", "tool_failed"} : Write(Entry(K, "none"))
      BY <1>7 DEF FinishTool
    <3> QED
      BY <1>4, <3>1
  <2>3. CASE ag.reads > 1
    <3>1. /\ ag'.reads = ag.reads - 1
          /\ AgentIs("reading", ag.phase, ag.turn, ag.tokens, ag.tools, ag.subs, ag.outputs,
                     ag.unknown, ag.last)
      BY <1>1, <2>1, <2>3 DEF AgentSet, AgentIs
    <3> QED
      BY <2>1, <2>2, <2>3, <3>1 DEF HasAnswer, TurnMoved
  <2>4. CASE ~ (ag.reads > 1)
    <3>1. AgentIs("loop", ag.phase, ag.turn + 1, ag.tokens, ag.tools, ag.subs, "reads",
                  ag.unknown, ag.last)
      BY <1>1, <2>1, <2>4 DEF AgentSet, AgentIs
    <3> QED
      BY <2>1, <2>2, <2>4, <3>1 DEF HasAnswer, TurnMoved
  <2> QED
    BY <2>3, <2>4
<1> QED
  BY <1>5, <1>6, <1>7

LEMMA SubmissionMoves ==
  ASSUME TurnsTyped, AgentInv, ResearchTurnsAssumption, UNCHANGED Outside,
         \/ RefuseRevision \/ AcceptSubmission
         \/ \E v \in Verdicts, fits \in BOOLEAN : RejectSubmission(v, fits)
  PROVE  TurnMoved
<1>1. /\ ag \in AgentSet /\ log \in Seq(EventSet) /\ attempt \in Nat
  BY DEF TurnsTyped, LogTyped, TaskTyped
<1>2. Stays /\ late' = late /\ output' = output
  BY DEF Outside, Stays
<1>3. CASE RefuseRevision
  <2>1. ag'.pc = "ending" /\ log' = log /\ ag.pc # "idle"
    BY <1>1, <1>3, AgentFields DEF RefuseRevision
  <2> QED
    BY <1>2, <2>1 DEF WritesNothing, TurnMoved
<1>4. CASE AcceptSubmission
  <2>1. Validates /\ log' = log /\ ag' = [ag EXCEPT !.pc = "accepted", !.result = Bound]
    BY <1>4 DEF AcceptSubmission
  <2>2. /\ ag'.result = Bound
        /\ AgentIs("accepted", ag.phase, ag.turn, ag.tokens, ag.tools, ag.subs, ag.outputs,
                   ag.unknown, ag.last)
    BY <1>1, <2>1 DEF AgentSet, AgentIs
  <2> QED
    BY <1>2, <2>1, <2>2 DEF Approves, TurnMoved
<1>5. ASSUME NEW v \in Verdicts, NEW fits \in BOOLEAN, RejectSubmission(v, fits) PROVE TurnMoved
  <2> DEFINE e == Entry("rejected", v)
  <2>1. "rejected" \in Kinds /\ v \in Feedback
    BY DEF Kinds, Feedback, Verdicts
  <2>2. e \in EventSet /\ e.kind = "rejected" /\ e.att = attempt /\ e.detail = v
    BY <2>1, EntrySound
  <2>3. Validates /\ log' = Append(log, e)
    BY <1>5 DEF RejectSubmission, Write
  <2> HIDE DEF e
  <2>4. WritesOwn(e)
    BY <1>1, <1>2, <2>2, <2>3 DEF WritesOwn, Added, Stays, Sound
  <2>5. CASE ag.subs + 1 < TurnAttempts /\ fits
    <3>1. ag' = [ag EXCEPT !.pc = "loop", !.subs = @ + 1, !.outputs = v,
                           !.turn = @ + 1, !.last = Bound]
      BY <1>5, <2>5 DEF RejectSubmission
    <3>2. AgentIs("loop", ag.phase, ag.turn + 1, ag.tokens, ag.tools, ag.subs + 1, v,
                  ag.unknown, Bound)
      BY <1>1, <3>1 DEF AgentSet, AgentIs
    <3> QED
      BY <2>2, <2>3, <2>4, <2>5, <3>2 DEF Rejects, TurnMoved
  <2>6. CASE ~ (ag.subs + 1 < TurnAttempts /\ fits)
    <3>1. ag' = Ends("retry")
      BY <1>5, <2>6 DEF RejectSubmission
    <3>2. ag'.pc = "ending" /\ ag.pc = "submitted"
      BY <1>1, <2>3, <3>1, AgentFields DEF Validates
    <3>3. Stops(e)
      BY <1>2, <2>2, <2>3, <2>4, <3>2 DEF Stops, WritesOwn
    <3> QED
      BY <3>3 DEF TurnMoved
  <2> QED
    BY <2>5, <2>6
<1> QED
  BY <1>3, <1>4, <1>5

LEMMA NextMovesTurn ==
  ASSUME TurnsTyped, AgentInv, ResearchTurnsAssumption, TurnsNext
  PROVE  TurnMoved
<1>1. CASE TurnStep /\ UNCHANGED Outside
  BY <1>1, TurnMoves, CompleteMoves, ToolMoves, SubmissionMoves DEF TurnStep
<1> QED
  BY <1>1, TaskMovesTurn DEF TurnsNext, Outside

----
\* What a new attempt starts from.

LEMMA FallbackIs ==
  ASSUME protocol \in {"research", "outcome"}, log \in Seq(EventSet)
  PROVE  /\ Fallback \in CheckpointSet /\ Fallback.ok
         /\ \E k \in Nat :
              /\ k = Cardinality(In(D, {"started"}))
              /\ Fallback = [FreshCheckpoint EXCEPT !.recovered = k > 0, !.calls = k,
                                                    !.failure = k > 0]
<1> DEFINE k == Cardinality(In(D, {"started"}))
<1>1. k \in Nat
  <2>1. In(D, {"started"}) \in SUBSET D
    BY DEF In
  <2> QED
    BY <2>1, LogDomain, InIsFinite
<1>2. Quantify(D, LAMBDA i : log[i].kind = "started") = k
  <2>1. {i \in D : log[i].kind = "started"} = In(D, {"started"})
    BY DEF In
  <2> QED
    BY <2>1 DEF Quantify
<1>3. Fallback = [FreshCheckpoint EXCEPT !.recovered = k > 0, !.calls = k, !.failure = k > 0]
  BY <1>2 DEF Fallback, D
<1>4. FreshCheckpoint \in CheckpointSet /\ FreshCheckpoint.ok
  BY FreshLedger DEF FreshCheckpoint
<1> HIDE DEF k
<1>6. (k > 0) \in BOOLEAN
  OBVIOUS
<1>7. [FreshCheckpoint EXCEPT !.recovered = k > 0, !.calls = k, !.failure = k > 0] \in CheckpointSet
      /\ [FreshCheckpoint EXCEPT !.recovered = k > 0, !.calls = k, !.failure = k > 0].ok
  <2>1. PICK w \in BOOLEAN : w = (k > 0)
    BY <1>6
  <2>2. /\ [FreshCheckpoint EXCEPT !.recovered = w, !.calls = k, !.failure = w] \in CheckpointSet
        /\ [FreshCheckpoint EXCEPT !.recovered = w, !.calls = k, !.failure = w].ok
    <3>1. CASE w
      BY <1>1, <1>4, <3>1 DEF CheckpointSet
    <3>2. CASE ~w
      BY <1>1, <1>4, <3>2 DEF CheckpointSet
    <3> QED
      BY <3>1, <3>2
  <2> QED
    BY <2>1, <2>2
<1> QED
  BY <1>1, <1>3, <1>7 DEF k

LEMMA FinishIs ==
  ASSUME NEW c \in CheckpointSet
  PROVE  /\ Finish(c) \in CheckpointSet
         /\ Finish(c).ok => /\ c.ok /\ c.expect = NoReads
                            /\ Finish(c) = [c EXCEPT !.failure = @ \/ c.open # {},
                                                     !.recovered = c.answered \/ c.calls > 0]
<1>1. CASE c.expect # NoReads
  BY <1>1 DEF Finish, Broken, CheckpointSet
<1>2. CASE c.expect = NoReads
  <2>1. Finish(c) = [c EXCEPT !.failure = @ \/ c.open # {},
                              !.recovered = c.answered \/ c.calls > 0]
    BY <1>2 DEF Finish
  <2>2. c.answered \in BOOLEAN /\ c.calls \in Nat /\ c.failure \in BOOLEAN
    BY DEF CheckpointSet
  <2>3. (c.failure \/ c.open # {}) \in BOOLEAN /\ (c.answered \/ c.calls > 0) \in BOOLEAN
    BY <2>2
  <2>4. \A a, b \in BOOLEAN : [c EXCEPT !.failure = a, !.recovered = b] \in CheckpointSet
                              /\ [c EXCEPT !.failure = a, !.recovered = b].ok = c.ok
    BY DEF CheckpointSet
  <2>5. Finish(c) \in CheckpointSet /\ Finish(c).ok = c.ok
    BY <2>1, <2>3, <2>4
  <2> QED
    BY <1>2, <2>1, <2>5
<1> QED
  BY <1>1, <1>2

LEMMA CheckpointTyped ==
  ASSUME protocol \in {"research", "outcome"}, log \in Seq(EventSet),
         \A i \in D : Sound(log[i]), NEW drifted \in BOOLEAN
  PROVE  AgentRecoveryCheckpoint(drifted) \in CheckpointSet
<1>1. Replayed(D) \in CheckpointSet
  BY LedgerHolds
<1>2. Finish(Replayed(D)) \in CheckpointSet
  BY <1>1, FinishIs
<1> QED
  BY <1>2, FallbackIs DEF AgentRecoveryCheckpoint, D

LEMMA RestoredTyped ==
  ASSUME NEW c \in CheckpointSet
  PROVE  /\ Restored(c) \in AgentSet /\ Restored(c).pc = "loop"
         /\ [Restored(c) EXCEPT !.pc = "ending", !.end = "fail"] \in AgentSet
         /\ [Restored(c) EXCEPT !.pc = "ending", !.end = "fail"].pc = "ending"
<1>1. NoAgent \in AgentSet
  BY DEF NoAgent, AgentSet, NoRequest, RequestSet, Phases, Feedback
<1>2. Restored(c) \in AgentSet /\ Restored(c).pc = "loop"
  BY <1>1 DEF Restored, AgentSet, CheckpointSet, NoAgent
<1> QED
  BY <1>2 DEF AgentSet

\* A turn neither starts nor ends the Task, and the agent stays one.
LEMMA TurnStepRuns ==
  ASSUME TurnsTyped, AgentInv, ResearchTurnsAssumption, TurnStep
  PROVE  ag.pc # "idle" /\ ag'.pc # "idle" /\ ag' \in AgentSet
<1>1. ag \in AgentSet
  BY DEF TurnsTyped
<1>2. \A how \in {"retry", "fail", "defer"} :
        Ends(how).pc = "ending" /\ Ends(how) \in AgentSet
  BY <1>1 DEF Ends, AgentSet
<1>3. CASE StartTurn
  <2>1. Request \in RequestSet
    BY RequestTyped
  <2> QED
    <3>1. ag.calls + 1 \in Nat
      BY <1>1, AgentFields
    <3>2. PICK k \in Nat : k = ag.calls + 1
      BY <3>1
    <3>3. PICK r \in RequestSet : r = Request
      BY <2>1
    <3>4. ag.pc = "loop" /\ ag' = [ag EXCEPT !.pc = "called", !.calls = k, !.request = r]
      BY <1>3, <3>2, <3>3 DEF StartTurn
    <3>5. ag' \in AgentSet /\ ag'.pc = "called"
      BY <1>1, <3>4 DEF AgentSet
    <3> QED
      BY <3>4, <3>5
<1>4. CASE AbandonDraft \/ RefuseTurn \/ MismatchCapability \/ RefuseRevision
           \/ \E used \in Usage : LateTurn(used)
  BY <1>2, <1>4 DEF AbandonDraft, RefuseTurn, MismatchCapability, LateTurn, RefuseRevision
<1>5. ASSUME NEW retryable \in BOOLEAN, FailTurn(retryable)
      PROVE  ag.pc # "idle" /\ ag'.pc # "idle" /\ ag' \in AgentSet
  <2>1. CASE ag' = Ends("fail")
    BY <1>2, <1>5, <2>1 DEF FailTurn
  <2>2. CASE ag' = [ag EXCEPT !.pc = "loop", !.tries = @ + 1, !.unknown = TRUE]
    <3>1. PICK k \in Nat : k = ag.tries + 1
      BY <1>1, AgentFields
    <3>2. ag' = [ag EXCEPT !.pc = "loop", !.tries = k, !.unknown = TRUE]
      BY <2>2, <3>1
    <3>3. ag' \in AgentSet /\ ag'.pc = "loop"
      BY <1>1, <3>2 DEF AgentSet
    <3> QED
      BY <1>5, <3>3 DEF FailTurn
  <2> QED
    BY <1>5, <2>1, <2>2 DEF FailTurn
<1>6. ASSUME NEW reply \in Replies, NEW used \in Usage, CompleteTurn(reply, used)
      PROVE  ag.pc # "idle" /\ ag'.pc # "idle" /\ ag' \in AgentSet
  <2> DEFINE n == [ag EXCEPT !.tokens = @ + used, !.outputs = "none", !.tries = 1,
                             !.result = reply.result]
  <2>1. ag.pc = "called" /\ used \in Int /\ ag.request.phase = ag.phase
    BY <1>1, <1>6, AgentFields DEF CompleteTurn, Usage, RequestSet, AgentInv
  <2>2. reply.reads \in Nat /\ reply.result \in Results \cup {"none"}
    <3>1. MaxBatch \in Nat
      BY DEF ResearchTurnsAssumption
    <3> QED
      BY <3>1, <1>6 DEF Replies
  <2>3. n \in AgentSet
    <3>1. PICK k \in Int : k = ag.tokens + used
      BY <1>1, <2>1, AgentFields
    <3>2. PICK x \in Results \cup {"none"} : x = reply.result
      BY <2>2
    <3>3. n = [ag EXCEPT !.tokens = k, !.outputs = "none", !.tries = 1, !.result = x]
      BY <3>1, <3>2
    <3> HIDE DEF n
    <3> QED
      BY <1>1, <3>3 DEF AgentSet, Feedback
  <2>4. \/ ag' = Ends("fail") \/ ag' = Ends("retry") \/ ag' = [n EXCEPT !.pc = "submitted"]
        \/ ag' = [n EXCEPT !.pc = "reading", !.reads = reply.reads, !.tools = @ + reply.reads]
        \/ ag' = [n EXCEPT !.pc = "loop", !.phase = "Submit", !.turn = @ + 1]
    BY <1>6 DEF CompleteTurn
  <2> HIDE DEF n
  <2>5. CASE ag' = Ends("fail") \/ ag' = Ends("retry")
    BY <1>2, <2>1, <2>5
  <2>6. CASE ag' = [n EXCEPT !.pc = "submitted"]
    BY <2>1, <2>3, <2>6 DEF AgentSet
  <2>7. CASE ag' = [n EXCEPT !.pc = "reading", !.reads = reply.reads, !.tools = @ + reply.reads]
    <3>1. n.tools \in Nat
      BY <2>3 DEF AgentSet
    <3>2. PICK k \in Nat : k = n.tools + reply.reads
      BY <2>2, <3>1
    <3>3. PICK x \in Nat : x = reply.reads
      BY <2>2
    <3>4. ag' = [n EXCEPT !.pc = "reading", !.reads = x, !.tools = k]
      BY <2>7, <3>2, <3>3
    <3>5. ag' \in AgentSet /\ ag'.pc = "reading"
      BY <2>3, <3>4 DEF AgentSet
    <3> QED
      BY <2>1, <3>5
  <2>8. CASE ag' = [n EXCEPT !.pc = "loop", !.phase = "Submit", !.turn = @ + 1]
    <3>1. n.turn \in Nat /\ "Submit" \in Phases
      BY <2>3 DEF AgentSet, Phases
    <3>2. PICK k \in Nat : k = n.turn + 1
      BY <3>1
    <3>3. ag' = [n EXCEPT !.pc = "loop", !.phase = "Submit", !.turn = k]
      BY <2>8, <3>2
    <3>4. ag' \in AgentSet /\ ag'.pc = "loop"
      BY <2>3, <3>1, <3>3 DEF AgentSet
    <3> QED
      BY <2>1, <3>4
  <2> QED
    BY <2>4, <2>5, <2>6, <2>7, <2>8
<1>7. CASE CallTool
  BY <1>1, <1>7 DEF CallTool, AgentSet
<1>8. ASSUME NEW how \in {"read", "range", "failed"}, FinishTool(how)
      PROVE  ag.pc # "idle" /\ ag'.pc # "idle" /\ ag' \in AgentSet
  <2>1. CASE ag' = Ends("fail")
    BY <1>2, <1>8, <2>1 DEF FinishTool
  <2>2. CASE ag.reads > 1 /\ ag' = [ag EXCEPT !.pc = "reading", !.reads = @ - 1]
    <3>1. ag.reads - 1 \in Nat
      BY <1>1, <2>2, AgentFields
    <3> QED
      BY <1>1, <1>8, <2>2, <3>1 DEF FinishTool, AgentSet
  <2>3. CASE ag' = [ag EXCEPT !.pc = "loop", !.reads = 0, !.outputs = "reads", !.turn = @ + 1]
    <3>1. PICK k \in Nat : k = ag.turn + 1
      BY <1>1, AgentFields
    <3>2. ag' = [ag EXCEPT !.pc = "loop", !.reads = 0, !.outputs = "reads", !.turn = k]
      BY <2>3, <3>1
    <3>3. ag' \in AgentSet /\ ag'.pc = "loop"
      BY <1>1, <3>2 DEF AgentSet, Feedback
    <3> QED
      BY <1>8, <3>3 DEF FinishTool
  <2> QED
    BY <1>8, <2>1, <2>2, <2>3 DEF FinishTool
<1>9. Bound \in Results \cup {"none"}
  BY <1>1, AgentFields DEF Bound
<1>10. CASE AcceptSubmission
  BY <1>1, <1>9, <1>10 DEF AcceptSubmission, Validates, AgentSet
<1>11. ASSUME NEW v \in Verdicts, NEW fits \in BOOLEAN, RejectSubmission(v, fits)
       PROVE  ag.pc # "idle" /\ ag'.pc # "idle" /\ ag' \in AgentSet
  <2>1. CASE ag' = Ends("retry")
    BY <1>2, <1>11, <2>1 DEF RejectSubmission, Validates
  <2>2. CASE ag' = [ag EXCEPT !.pc = "loop", !.subs = @ + 1, !.outputs = v,
                              !.turn = @ + 1, !.last = Bound]
    <3>1. PICK k \in Nat : k = ag.turn + 1
      BY <1>1, AgentFields
    <3>2. PICK m \in Nat : m = ag.subs + 1
      BY <1>1, AgentFields
    <3>3. PICK b \in Results \cup {"none"} : b = Bound
      BY <1>9
    <3>4. ag' = [ag EXCEPT !.pc = "loop", !.subs = m, !.outputs = v, !.turn = k, !.last = b]
      BY <2>2, <3>1, <3>2, <3>3
    <3>5. v \in Feedback
      BY DEF Verdicts, Feedback
    <3>6. ag' \in AgentSet /\ ag'.pc = "loop"
      BY <1>1, <3>4, <3>5 DEF AgentSet
    <3> QED
      BY <1>11, <3>6 DEF RejectSubmission, Validates
  <2> QED
    BY <1>11, <2>1, <2>2 DEF RejectSubmission
<1> QED
  BY <1>3, <1>4, <1>5, <1>6, <1>7, <1>8, <1>10, <1>11 DEF TurnStep

LEMMA TaskTypedStep ==
  ASSUME TurnsTyped, AgentInv, ResearchTurnsAssumption, TurnsNext
  PROVE  TaskTyped'
<1> USE DEF TaskTyped
<1>1. TaskTyped /\ ag \in AgentSet /\ TurnAttempts \in Nat /\ TurnFaults \in Nat
  BY DEF TurnsTyped, ResearchTurnsAssumption
<1>2. ASSUME NEW drifted \in BOOLEAN, Begin(drifted) PROVE TaskTyped'
  <2>1. ag'.pc = "loop" \/ ag'.pc = "ending"
    BY <1>2 DEF Begin, Restored, NoAgent
  <2> QED
    BY <1>1, <1>2, <2>1 DEF Begin
<1>3. CASE FinishTask
  <2>1. ag'.pc = "idle"
    BY <1>3 DEF FinishTask, NoAgent
  <2> QED
    BY <1>1, <1>3, <2>1 DEF FinishTask
<1>4. CASE CommitOutput
  <2>1. ag'.pc = "idle" /\ ag.result \in Results \cup {"none"}
    BY <1>1, <1>4, AgentFields DEF CommitOutput, NoAgent
  <2> QED
    BY <1>1, <1>4, <2>1 DEF CommitOutput
<1>5. CASE LoseAttempt
  <2>1. ag'.pc = "idle"
    BY <1>5 DEF LoseAttempt, NoAgent
  <2> QED
    BY <1>1, <1>5, <2>1 DEF LoseAttempt
<1>6. CASE WriteLateRejection
  BY <1>1, <1>6 DEF WriteLateRejection
<1>7. CASE LoseRunLog
  <2>1. ag'.pc = "ending"
    BY <1>1, <1>7, AgentFields DEF LoseRunLog
  <2> QED
    BY <1>1, <1>7, <2>1 DEF LoseRunLog
<1>8. CASE TurnStep /\ UNCHANGED <<protocol, task, attempt, spent, late, output, turnFaults>>
  <2>1. ag.pc # "idle" /\ ag'.pc # "idle"
    BY <1>1, <1>8, TurnStepRuns
  <2> QED
    BY <1>1, <1>8, <2>1
<1> QED
  BY <1>2, <1>3, <1>4, <1>5, <1>6, <1>7, <1>8 DEF TurnsNext

LEMMA AgentTypedStep ==
  ASSUME TurnsTyped, AgentInv, ResearchTurnsAssumption, TurnsNext
  PROVE  ag' \in AgentSet
<1>1. ag \in AgentSet
  BY DEF TurnsTyped
<1>2. NoAgent \in AgentSet
  BY DEF NoAgent, AgentSet, NoRequest, RequestSet, Phases, Feedback
<1>3. ASSUME NEW drifted \in BOOLEAN, Begin(drifted) PROVE ag' \in AgentSet
  <2>1. AgentRecoveryCheckpoint(drifted) \in CheckpointSet
    BY CheckpointTyped DEF TurnsTyped, TaskTyped, LogTyped
  <2> QED
    BY <1>3, <2>1, RestoredTyped DEF Begin
<1>4. CASE FinishTask \/ CommitOutput \/ LoseAttempt \/ WriteLateRejection
  BY <1>1, <1>2, <1>4 DEF FinishTask, CommitOutput, LoseAttempt, WriteLateRejection
<1>5. CASE LoseRunLog
  BY <1>1, <1>5 DEF LoseRunLog, Ends, AgentSet
<1>6. CASE TurnStep
  BY <1>6, TurnStepRuns
<1> QED
  BY <1>3, <1>4, <1>5, <1>6 DEF TurnsNext

\* The log stays as it is, or it grows by an event.
LEMMA MovesLog ==
  ASSUME TurnsTyped, TurnMoved
  PROVE  \/ log' = log /\ Stays
         \/ \E e : /\ Added(e) /\ Sound(e) /\ e.att \in 1 .. attempt'
                   /\ attempt' \in Nat /\ attempt <= attempt' /\ protocol' = protocol
<1>1. attempt \in Nat /\ (ag.pc # "idle" => attempt >= 1)
  BY DEF TurnsTyped, TaskTyped
<1>2. CASE WritesNothing \/ Approves
  BY <1>2 DEF WritesNothing, Approves
<1>3. ASSUME NEW e, BeginsWith(e) PROVE /\ Added(e) /\ Sound(e) /\ e.att \in 1 .. attempt'
            /\ attempt' \in Nat /\ attempt <= attempt' /\ protocol' = protocol
  BY <1>1, <1>3 DEF BeginsWith
<1>4. ASSUME NEW e, Stops(e) PROVE /\ Added(e) /\ Sound(e) /\ e.att \in 1 .. attempt'
            /\ attempt' \in Nat /\ attempt <= attempt' /\ protocol' = protocol
  BY <1>1, <1>4 DEF Stops, Stays
<1>5. ASSUME NEW e, WritesLate(e) PROVE /\ Added(e) /\ Sound(e) /\ e.att \in 1 .. attempt'
            /\ attempt' \in Nat /\ attempt <= attempt' /\ protocol' = protocol
  <2>1. PICK f \in EventSet : late = <<f>> /\ f.att \in 1 .. attempt
    BY <1>5 DEF WritesLate, TurnsTyped, LateTyped
  <2>2. e = f
    BY <1>5, <2>1 DEF WritesLate
  <2> QED
    BY <1>1, <1>5, <2>1, <2>2 DEF WritesLate, Stays
<1>6. ASSUME NEW e, WritesOwn(e), ag.pc # "idle"
      PROVE /\ Added(e) /\ Sound(e) /\ e.att \in 1 .. attempt'
            /\ attempt' \in Nat /\ attempt <= attempt' /\ protocol' = protocol
  BY <1>1, <1>6 DEF WritesOwn, Stays
<1>7. ASSUME NEW e, \/ Starts(e) \/ Retries(e) \/ HasRead(e) \/ HasMemo(e) \/ HasSubmission(e)
                    \/ CallsRead(e) \/ HasAnswer(e) \/ Rejects(e)
      PROVE  WritesOwn(e) /\ ag.pc # "idle"
  BY <1>7 DEF Starts, Retries, HasRead, HasMemo, HasSubmission, Completes, CallsRead, HasAnswer,
              Rejects, Validates
<1> QED
  BY <1>2, <1>3, <1>4, <1>5, <1>6, <1>7 DEF TurnMoved, BeginsAgain, BeginsInVain

LEMMA LogTypedStep ==
  ASSUME TurnsTyped, TurnMoved
  PROVE  LogTyped'
<1>1. LogTyped /\ attempt \in Nat
  BY DEF TurnsTyped, TaskTyped
<1>2. CASE log' = log /\ Stays
  BY <1>1, <1>2 DEF LogTyped, Stays, D, Sound
<1>3. ASSUME NEW e, Added(e), Sound(e), e.att \in 1 .. attempt', attempt' \in Nat,
             attempt <= attempt', protocol' = protocol
      PROVE  LogTyped'
  <2>1. /\ D' = D \cup {Top} /\ log'[Top] = e /\ log' \in Seq(EventSet)
        /\ \A i \in D : log'[i] = log[i]
    BY <1>3, AddedLog
  <2>2. \A i \in D' : Sound(log'[i]) /\ log'[i].att \in 1 .. attempt'
    BY <1>1, <1>3, <2>1 DEF LogTyped
  <2>3. \A i : Sound(log[i])' = Sound(log'[i])
    BY DEF Sound
  <2> QED
    BY <2>1, <2>2, <2>3 DEF LogTyped
<1> QED
  BY <1>2, <1>3, MovesLog

LEMMA LateTypedStep ==
  ASSUME TurnsTyped, TurnMoved
  PROVE  LateTyped'
<1>1. LateTyped /\ attempt \in Nat /\ (ag.pc # "idle" => attempt >= 1)
  BY DEF TurnsTyped, TaskTyped
<1>2. attempt' \in Nat /\ attempt <= attempt'
  BY <1>1, MovesLog DEF Stays
<1>3. CASE late' = late
  <2>1. \A e : Sound(e)' = Sound(e)
    BY DEF Sound
  <2> QED
    BY <1>1, <1>2, <1>3, <2>1 DEF LateTyped
<1>4. CASE late' = <<>>
  BY <1>4 DEF LateTyped
<1>5. ASSUME ag.pc = "submitted", Stays, NEW v \in Verdicts, late' = <<Entry("rejected", v)>>
      PROVE  LateTyped'
  <2> DEFINE e == Entry("rejected", v)
  <2>1. "rejected" \in Kinds /\ v \in Feedback
    BY DEF Kinds, Feedback, Verdicts
  <2>2. e \in EventSet /\ e.kind = "rejected" /\ e.att = attempt /\ e.detail = v
    BY <2>1, EntrySound
  <2>3. PICK f : f = e
    OBVIOUS
  <2>4. Sound(f)' /\ f \in EventSet /\ f.kind = "rejected" /\ f.att \in 1 .. attempt' /\ late' = <<f>>
    <3> HIDE DEF e
    <3> QED
      BY <1>1, <1>5, <2>2, <2>3 DEF Sound, e, Stays
  <2> QED
    BY <2>4 DEF LateTyped
<1> QED
  BY <1>3, <1>4, <1>5 DEF TurnMoved, WritesNothing, Approves, BeginsAgain, BeginsInVain, BeginsWith, Stops,
       WritesLate, Starts, Retries, HasRead, HasMemo, HasSubmission, Completes, CallsRead, HasAnswer,
       Rejects, WritesOwn

LEMMA TurnsTypedStep ==
  ASSUME TurnsTyped, AgentInv, ResearchTurnsAssumption, TurnsNext
  PROVE  TurnsTyped'
BY NextMovesTurn, TaskTypedStep, LogTypedStep, LateTypedStep, AgentTypedStep DEF TurnsTyped

----
\* The inductive invariant.

\* A call comes before all that is told of one.
EventsInv ==
  /\ In(D, {"started"}) = {} =>
       \A k \in In(D, TurnEnds) : log[k].kind = "failed" /\ log[k].used = Unknown
  /\ In(D, {"completed"}) = {} =>
       In(D, {"tool_called", "tool_completed", "tool_failed", "rejected"}) = {}
  /\ ag.pc = "called" => In(D, {"started"}) # {}
  /\ ag.pc \in {"reading", "read", "submitted", "accepted"} => In(D, {"completed"}) # {}
  /\ late # <<>> => In(D, {"completed"}) # {}

\* The agent's ledger is that of the log.
TokensInv ==
  /\ InSession => ag.tokens = SumFunctionOnSet(Charged, In(D, TurnEnds))
  /\ \A i \in In(D, {"started"}) :
       SumFunctionOnSet(Charged, {j \in In(D, TurnEnds) : j < i}) + log[i].request.cap <= MaxOutput
ToCall == IF ag.pc = "reading" THEN ag.reads ELSE IF ag.pc = "read" THEN ag.reads - 1 ELSE 0
ToAnswer == IF ag.pc \in {"reading", "read"} THEN ag.reads ELSE 0
ToolsInv ==
  /\ Cardinality(In(D, {"tool_called"})) <= ToolLimit
  /\ InSession => /\ ag.tools <= ToolLimit
                  /\ ag.tools = Cardinality(In(D, {"tool_called"})) + ToCall
SubsInv ==
  /\ Cardinality(SubmissionsIn(D)) <= TurnAttempts + attempt - 1
  /\ ag.pc \in {"loop", "called", "reading", "read"} =>
       /\ ag.subs = Cardinality(SubmissionsIn(D))
       /\ Cardinality(SubmissionsIn(D)) <= TurnAttempts + attempt - 2
  /\ ag.pc \in {"submitted", "accepted"} => ag.subs = Cardinality(SubmissionsIn(D)) - 1

\* Every call but the one under way has its answer.
UsageKnown(i) == \E k \in Answers(i) : log[k].used # Unknown
UnknownInv ==
  /\ NoCallAfterUnknown
  /\ InSession /\ ag.pc # "called" /\ ~ag.unknown => \A i \in In(D, {"started"}) : UsageKnown(i)
  /\ \A i \in In(D, {"started"}), k \in In(D, TurnEnds) :
       i < k /\ log[k].att = log[i].att => Answers(i) # {}
  /\ InSession /\ ag.pc # "called" =>
       \A i \in In(D, {"started"}) : log[i].att = attempt => Answers(i) # {}
  /\ ag.pc = "called" =>
       \E l \in In(D, {"started"}) :
         /\ log[l].att = attempt
         /\ \A i \in In(D, {"started"}) : i <= l /\ (i # l => UsageKnown(i))

\* The agent is where the log's last turn left the conversation.
ConversationInv ==
  /\ \A i \in In(D, {"completed"}), j \in In(D, {"started"}) :
       i < j => log[i].request.turn < log[j].request.turn
  /\ ag.pc \in {"loop", "called"} =>
       /\ \A i \in In(D, {"completed"}) : log[i].request.turn < ag.turn
       /\ \A i \in ReadsIn(D) : log[i].request.turn + 1 = ag.turn => ag.outputs = "reads"
  /\ ag.pc \in {"reading", "read", "submitted"} =>
       \A i \in In(D, {"completed"}) : log[i].request.turn <= ag.turn
  /\ ag.pc = "submitted" => \A i \in ReadsIn(D) : log[i].request.turn < ag.turn
  /\ InSession =>
       SumFunctionOnSet(ReadsOf, ReadsIn(D))
         = Cardinality(In(D, {"tool_completed", "tool_failed"})) + ToAnswer
  /\ \A i \in In(D, {"started"}) :
       /\ SumFunctionOnSet(ReadsOf, {j \in ReadsIn(D) : j < i})
            = Cardinality({j \in In(D, {"tool_completed", "tool_failed"}) : j < i})
       /\ \A j \in ReadsIn(D) :
            j < i /\ log[j].request.turn + 1 = log[i].request.turn
              => log[i].request.outputs = "reads"

----
\* A new attempt knows what the log knows.

Recalled(c) ==
  /\ protocol = "research" => c.phase = "Submit"
  /\ c.tokens = SumFunctionOnSet(Charged, In(D, TurnEnds))
  /\ c.tools = Cardinality(In(D, {"tool_called"})) /\ c.tools <= ToolLimit
  /\ c.subs = Cardinality(SubmissionsIn(D))
  /\ \A i \in In(D, {"started"}) :
       \E k \in In(D, TurnEnds) : i < k /\ log[k].att = log[i].att /\ log[k].used # Unknown
  /\ In(D, {"started"}) # {} => \A k \in In(D, TurnEnds) : log[k].used # Unknown
  /\ \A i \in In(D, {"completed"}) : log[i].request.turn < c.turn
  /\ \A i \in ReadsIn(D) : log[i].request.turn + 1 = c.turn => c.outputs = "reads"
  /\ SumFunctionOnSet(ReadsOf, ReadsIn(D)) = Cardinality(In(D, {"tool_completed", "tool_failed"}))

LEMMA ReplayRecalls ==
  ASSUME TurnsTyped, LET c == Finish(Replayed(D)) IN c.ok /\ c.recovered /\ Restores(c)
  PROVE  Recalled(Finish(Replayed(D)))
<1> DEFINE r == Replayed(D)
           c == Finish(r)
<1>1. protocol \in {"research", "outcome"} /\ log \in Seq(EventSet) /\ \A i \in D : Sound(log[i])
  BY DEF TurnsTyped, TaskTyped, LogTyped
<1>2. r \in CheckpointSet /\ (r.ok => Ledger(D, r))
  BY <1>1, LedgerHolds
<1> HIDE DEF r
<1>3. c.ok /\ c.recovered /\ Restores(c)
  BY DEF r
<1>4. r.ok /\ r.expect = NoReads
      /\ c = [r EXCEPT !.failure = @ \/ r.open # {}, !.recovered = r.answered \/ r.calls > 0]
  BY <1>2, <1>3, FinishIs
<1> HIDE DEF c
<1>5. /\ c.phase = r.phase /\ c.tokens = r.tokens /\ c.tools = r.tools /\ c.subs = r.subs
      /\ c.turn = r.turn /\ c.outputs = r.outputs
      /\ c.failure = (r.failure \/ r.open # {})
  BY <1>2, <1>4 DEF CheckpointSet
<1>6. ~c.failure /\ c.tools <= ToolLimit
  BY <1>3 DEF Restores
<1>7. ~r.failure /\ r.open = {}
  BY <1>5, <1>6
<1>8. Counts(D, r) /\ Doubts(D, r) /\ Line(D, r) /\ Proposed(D, r)
  BY <1>2, <1>4 DEF Ledger
<1>9. /\ protocol = "research" => c.phase = "Submit"
      /\ c.tokens = SumFunctionOnSet(Charged, In(D, TurnEnds))
      /\ c.tools = Cardinality(In(D, {"tool_called"})) /\ c.tools <= ToolLimit
      /\ c.subs = Cardinality(SubmissionsIn(D))
  BY <1>5, <1>6, <1>8 DEF Counts, Proposed
<1>10. \A k \in In(D, TurnEnds) : log[k].used # Unknown
  BY <1>7, <1>8 DEF Doubts
<1>11. \A i \in In(D, {"started"}) :
         \E k \in In(D, TurnEnds) : i < k /\ log[k].att = log[i].att /\ log[k].used # Unknown
  BY <1>7, <1>8, <1>10 DEF Doubts
<1>12. /\ \A i \in In(D, {"completed"}) : log[i].request.turn < c.turn
       /\ \A i \in ReadsIn(D) : log[i].request.turn + 1 = c.turn => c.outputs = "reads"
  BY <1>4, <1>5, <1>8 DEF Line
<1>13. SumFunctionOnSet(ReadsOf, ReadsIn(D)) = Cardinality(In(D, {"tool_completed", "tool_failed"}))
  <2>1. In(D, {"tool_completed", "tool_failed"}) = In(D, {"tool_completed"})
    BY <1>8 DEF Line, In
  <2>2. r.expect.done = 0 /\ r.expect.asked = 0
    BY <1>4 DEF NoReads
  <2>3. SumFunctionOnSet(ReadsOf, ReadsIn(D)) \in Int
    <3>1. ReadsIn(D) \in SUBSET D
      BY DEF ReadsIn, In
    <3>2. IsFiniteSet(ReadsIn(D)) /\ \A x \in ReadsIn(D) : ReadsOf[x] \in Int
      BY <1>1, <3>1, LogDomain, InIsFinite, ChargedIs
    <3> QED
      BY <3>2, SumInt
  <2>4. Cardinality(In(D, {"tool_completed"})) \in Nat
    <3>1. In(D, {"tool_completed"}) \in SUBSET D
      BY DEF In
    <3> QED
      BY <1>1, <3>1, InIsFinite
  <2>5. SumFunctionOnSet(ReadsOf, ReadsIn(D)) + r.expect.done
          = Cardinality(In(D, {"tool_completed"})) + r.expect.asked
    BY <1>8 DEF Line
  <2> QED
    BY <2>1, <2>2, <2>3, <2>4, <2>5
<1>14. Recalled(c)
  BY <1>9, <1>10, <1>11, <1>12, <1>13 DEF Recalled
<1> QED
  BY <1>14 DEF c, r

LEMMA FallbackRecalls ==
  ASSUME TurnsTyped, EventsInv, ResearchTurnsAssumption, Restores(Fallback)
  PROVE  Recalled(Fallback) /\ SubmissionsIn(D) = {} /\ Fallback.outputs = "none"
         /\ Fallback.last = "none" /\ In(D, {"rejected"}) = {}
<1>1. protocol \in {"research", "outcome"} /\ log \in Seq(EventSet) /\ \A i \in D : Sound(log[i])
  BY DEF TurnsTyped, TaskTyped, LogTyped
<1>2. PICK k \in Nat :
        /\ k = Cardinality(In(D, {"started"}))
        /\ Fallback = [FreshCheckpoint EXCEPT !.recovered = k > 0, !.calls = k, !.failure = k > 0]
  BY <1>1, FallbackIs
<1>3. /\ Fallback.phase = InitialPhase /\ Fallback.tokens = 0 /\ Fallback.tools = 0
      /\ Fallback.subs = 0 /\ Fallback.turn = 0 /\ Fallback.outputs = "none"
      /\ Fallback.last = "none"
  BY <1>2 DEF FreshCheckpoint
<1>4. k = 0
  <2>1. ~Fallback.recovered \/ ~Fallback.failure
    BY DEF Restores
  <2>2. CASE k > 0
    <3>1. Fallback = [FreshCheckpoint EXCEPT !.recovered = TRUE, !.calls = k, !.failure = TRUE]
      BY <1>2, <2>2
    <3>2. Fallback.recovered = TRUE /\ Fallback.failure = TRUE
      BY <3>1 DEF FreshCheckpoint
    <3> QED
      BY <2>1, <3>2
  <2> QED
    BY <1>2, <2>2
<1>5. In(D, {"started"}) = {}
  <2>1. IsFiniteSet(In(D, {"started"}))
    <3>1. In(D, {"started"}) \in SUBSET D
      BY DEF In
    <3> QED
      BY <1>1, <3>1, LogDomain, InIsFinite
  <2> QED
    BY <1>2, <1>4, <2>1, FS_EmptySet
<1>6. \A i \in In(D, TurnEnds) : log[i].kind = "failed" /\ log[i].used = Unknown
  BY <1>5 DEF EventsInv
<1>7. In(D, {"completed"}) = {}
  BY <1>6 DEF In, TurnEnds
<1>8. In(D, {"tool_called", "tool_completed", "tool_failed", "rejected"}) = {}
  BY <1>7 DEF EventsInv
<1>9. /\ In(D, {"tool_called"}) = {} /\ In(D, {"tool_completed", "tool_failed"}) = {}
      /\ In(D, {"rejected"}) = {}
      /\ ReadsIn(D) = {} /\ SubmissionsIn(D) = {}
  BY <1>7, <1>8 DEF In, ReadsIn, SubmissionsIn
<1>10. SumFunctionOnSet(Charged, In(D, TurnEnds)) = 0
  <2>1. In(D, TurnEnds) \in SUBSET D
    BY DEF In
  <2>2. IsFiniteSet(In(D, TurnEnds)) /\ \A i \in In(D, TurnEnds) : Charged[i] = 0 /\ Charged[i] \in Int
    BY <1>1, <1>6, <2>1, InIsFinite, ChargedIs DEF Unknown
  <2>3. SumFunctionOnSet(Charged, In(D, TurnEnds)) = SumFunctionOnSet(Charged, {})
    BY <2>2, SumPart
  <2> QED
    BY <2>3, SumEmpty
<1>11. SumFunctionOnSet(ReadsOf, ReadsIn(D)) = 0 /\ Cardinality({}) = 0
  BY <1>9, SumEmpty, FS_EmptySet
<1>12. ToolLimit >= 0
  BY DEF ToolLimit, ResearchTurnsAssumption
<1> QED
  BY <1>3, <1>5, <1>6, <1>7, <1>9, <1>10, <1>11, <1>12 DEF Recalled, InitialPhase

LEMMA BeginRecalls ==
  ASSUME TurnsTyped, EventsInv, ResearchTurnsAssumption, NEW drifted \in BOOLEAN,
         Restores(AgentRecoveryCheckpoint(drifted))
  PROVE  Recalled(AgentRecoveryCheckpoint(drifted))
BY ReplayRecalls, FallbackRecalls DEF AgentRecoveryCheckpoint, D

LEMMA AgentStep ==
  ASSUME TurnsTyped, AgentInv, EventsInv, ResearchTurnsAssumption, TurnMoved
  PROVE  AgentInv'
<1> USE DEF AgentInv, InSession
<1>1. ag \in AgentSet /\ ag.reads \in Nat
  BY AgentFields DEF TurnsTyped
<1>2. CASE WritesNothing
  BY <1>2 DEF WritesNothing
<1>3. CASE Approves
  BY <1>3 DEF Approves, AgentIs, Stays, Validates
<1>4. ASSUME NEW e, BeginsAgain(e) PROVE AgentInv'
  <2>1. PICK drifted \in BOOLEAN :
          LET c == AgentRecoveryCheckpoint(drifted)
          IN  Restores(c) /\ ag'.pc = "loop" /\ ag'.phase = c.phase
    BY <1>4 DEF BeginsAgain, AgentIs
  <2>2. protocol = "research" => ag'.phase = "Submit"
    BY <2>1, BeginRecalls DEF Recalled
  <2> QED
    BY <1>4, <2>1, <2>2 DEF BeginsAgain, BeginsWith
<1>5. ASSUME NEW e, BeginsInVain(e) \/ Stops(e) PROVE AgentInv'
  <2>1. ag'.pc \in {"idle", "ending"}
    BY <1>5 DEF BeginsInVain, Stops
  <2> QED
    BY <2>1
<1>6. ASSUME NEW e, WritesLate(e) PROVE AgentInv'
  BY <1>6 DEF WritesLate, Stays
<1>7. ASSUME NEW e, Starts(e) PROVE AgentInv'
  <2>1. /\ OutputCap \in Int /\ OutputCap > 0 /\ ag'.request = Request
        /\ Request.turn = ag.turn /\ Request.phase = ag.phase /\ Request.cap = OutputCap
        /\ Request.repair = (protocol = "research" /\ ag.outputs = "deliberation")
        /\ Request.outputs = IF Request.repair THEN "none" ELSE ag.outputs
    BY <1>7, RequestTyped DEF Starts
  <2>2. /\ ag'.pc = "called" /\ ag'.phase = ag.phase /\ ag'.turn = ag.turn
        /\ ag'.outputs = ag.outputs /\ protocol' = protocol /\ ag.pc = "loop"
    BY <1>7 DEF Starts, WritesOwn, Stays, AgentIs
  <2>3. ag'.request.cap >= 1
    BY <2>1
  <2> QED
    BY <2>1, <2>2, <2>3
<1>8. ASSUME NEW e, Retries(e) \/ HasMemo(e) PROVE AgentInv'
  BY <1>8 DEF Retries, HasMemo, Completes, WritesOwn, Stays, AgentIs
<1>9. ASSUME NEW e, HasRead(e) PROVE AgentInv'
  <2>1. e.reply.reads >= 1
    BY <1>9 DEF HasRead, Completes, WritesOwn, Sound
  <2> QED
    BY <1>9, <2>1 DEF HasRead, Completes, WritesOwn, Stays, AgentIs
<1>10. ASSUME NEW e, HasSubmission(e) PROVE AgentInv'
  BY <1>10 DEF HasSubmission, Completes, WritesOwn, Stays, AgentIs
<1>11. ASSUME NEW e, CallsRead(e) PROVE AgentInv'
  BY <1>11 DEF CallsRead, WritesOwn, Stays, AgentIs
<1>12. ASSUME NEW e, HasAnswer(e) PROVE AgentInv'
  BY <1>1, <1>12 DEF HasAnswer, WritesOwn, Stays, AgentIs
<1>13. ASSUME NEW e, Rejects(e) PROVE AgentInv'
  BY <1>13 DEF Rejects, WritesOwn, Stays, AgentIs, Validates
<1> QED
  BY <1>2, <1>3, <1>4, <1>5, <1>6, <1>7, <1>8, <1>9, <1>10, <1>11, <1>12, <1>13 DEF TurnMoved

LEMMA LogSame ==
  ASSUME log' = log
  PROVE  /\ D' = D /\ \A K : In(D, K)' = In(D, K)
         /\ ReadsIn(D)' = ReadsIn(D) /\ SubmissionsIn(D)' = SubmissionsIn(D)
         /\ ResultsIn(D)' = ResultsIn(D)
         /\ Charged' = Charged /\ ReadsOf' = ReadsOf
         /\ \A i : Answers(i)' = Answers(i)
         /\ NoCallAfterUnknown' = NoCallAfterUnknown
<1>1. D' = D
  BY DEF D
<1>2. \A K : In(D, K)' = In(D, K)
  BY <1>1 DEF In
<1>3. /\ ReadsIn(D)' = ReadsIn(D) /\ SubmissionsIn(D)' = SubmissionsIn(D)
  BY <1>1, <1>2 DEF ReadsIn, SubmissionsIn, In
<1>4. ResultsIn(D)' = ResultsIn(D)
  BY <1>3 DEF ResultsIn
<1>5. Charged' = Charged /\ ReadsOf' = ReadsOf
  BY <1>1 DEF Charged, ReadsOf
<1>6. \A i : Answers(i)' = Answers(i)
  BY DEF Answers, Before, Is
<1>7. NoCallAfterUnknown' = NoCallAfterUnknown
  BY <1>6 DEF NoCallAfterUnknown, Before, Is
<1> QED
  BY <1>1, <1>2, <1>3, <1>4, <1>5, <1>6, <1>7

\* What an event adds to each set of events.
LEMMA SetsOf ==
  ASSUME NEW e, Added(e)
  PROVE  /\ In(D, {"started"})' = In(D, {"started"}) \cup (IF e.kind = "started" THEN {Top} ELSE {})
         /\ In(D, {"completed"})'
              = In(D, {"completed"}) \cup (IF e.kind = "completed" THEN {Top} ELSE {})
         /\ In(D, TurnEnds)' = In(D, TurnEnds) \cup (IF e.kind \in TurnEnds THEN {Top} ELSE {})
         /\ In(D, {"tool_called"})'
              = In(D, {"tool_called"}) \cup (IF e.kind = "tool_called" THEN {Top} ELSE {})
         /\ In(D, {"tool_completed", "tool_failed"})'
              = In(D, {"tool_completed", "tool_failed"})
                  \cup (IF e.kind \in {"tool_completed", "tool_failed"} THEN {Top} ELSE {})
         /\ In(D, {"rejected"})' = In(D, {"rejected"}) \cup (IF e.kind = "rejected" THEN {Top} ELSE {})
         /\ In(D, {"tool_called", "tool_completed", "tool_failed", "rejected"})'
              = In(D, {"tool_called", "tool_completed", "tool_failed", "rejected"})
                  \cup (IF e.kind \in {"tool_called", "tool_completed", "tool_failed", "rejected"}
                        THEN {Top} ELSE {})
<1>1. /\ D' = D \cup {Top} /\ Top \notin D /\ log'[Top] = e /\ \A i \in D : log'[i] = log[i]
  BY AddedLog
<1>2. \A K : {i \in D' : log'[i].kind \in K} = {i \in D : log[i].kind \in K}
                                                  \cup (IF e.kind \in K THEN {Top} ELSE {})
  BY <1>1
<1> QED
  BY <1>2 DEF In, TurnEnds

----
\* Each part of the invariant is kept.

LEMMA EventsStep ==
  ASSUME TurnsTyped, AgentInv, EventsInv, ResearchTurnsAssumption, TurnMoved
  PROVE  EventsInv'
<1> USE DEF EventsInv
<1>1. CASE log' = log
  <2>1. /\ In(D, {"started"})' = In(D, {"started"}) /\ In(D, TurnEnds)' = In(D, TurnEnds)
        /\ In(D, {"completed"})' = In(D, {"completed"})
        /\ In(D, {"tool_called", "tool_completed", "tool_failed", "rejected"})'
             = In(D, {"tool_called", "tool_completed", "tool_failed", "rejected"})
    BY <1>1, LogSame
  <2>2. CASE WritesNothing
    <3>1. late' # <<>> => In(D, {"completed"}) # {}
      BY <2>2 DEF WritesNothing
    <3> QED
      BY <1>1, <2>1, <2>2, <3>1 DEF WritesNothing
  <2>3. CASE Approves
    BY <1>1, <2>1, <2>3 DEF Approves, AgentIs, Validates
  <2>4. ASSUME NEW e, Added(e) PROVE FALSE
    BY <1>1, <2>4, AddedLog, LogSame
  <2> QED
    BY <2>2, <2>3, <2>4 DEF TurnMoved, BeginsAgain, BeginsInVain, BeginsWith, Stops,
       WritesLate, Starts, Retries, HasRead, HasMemo, HasSubmission, Completes, CallsRead, HasAnswer,
       Rejects, WritesOwn
<1>2. ASSUME NEW e, Added(e),
             (e.kind = "completed" \/ (e.kind = "failed" /\ e.used # Unknown)) => ag.pc = "called",
             e.kind \in {"tool_called", "tool_completed", "tool_failed", "rejected"}
               => In(D, {"completed"}) # {},
             ag'.pc = "called" => ag.pc = "called" \/ e.kind = "started",
             ag'.pc \in {"reading", "read", "submitted", "accepted"}
               => e.kind = "completed" \/ In(D, {"completed"}) # {},
             late' # <<>> => late # <<>>
      PROVE  EventsInv'
  <2>1. log'[Top] = e /\ Top \notin D /\ \A i \in D : log'[i] = log[i]
    BY <1>2, AddedLog
  <2>2. In(D, TurnEnds) \subseteq D
    BY DEF In
  <2>3. e.kind \in TurnEnds => e.kind = "completed" \/ e.kind = "failed"
    BY DEF TurnEnds
  <2>4. /\ In(D, {"started"})' = In(D, {"started"}) \cup (IF e.kind = "started" THEN {Top} ELSE {})
        /\ In(D, {"completed"})'
             = In(D, {"completed"}) \cup (IF e.kind = "completed" THEN {Top} ELSE {})
        /\ In(D, TurnEnds)' = In(D, TurnEnds) \cup (IF e.kind \in TurnEnds THEN {Top} ELSE {})
        /\ In(D, {"tool_called", "tool_completed", "tool_failed", "rejected"})'
             = In(D, {"tool_called", "tool_completed", "tool_failed", "rejected"})
                 \cup (IF e.kind \in {"tool_called", "tool_completed", "tool_failed", "rejected"}
                       THEN {Top} ELSE {})
    BY <1>2, SetsOf
  <2>5. In(D, {"started"})' = {} =>
          \A k \in In(D, TurnEnds)' : log'[k].kind = "failed" /\ log'[k].used = Unknown
    BY <1>2, <2>1, <2>2, <2>3, <2>4
  <2>6. In(D, {"completed"})' = {} =>
          In(D, {"tool_called", "tool_completed", "tool_failed", "rejected"})' = {}
    BY <1>2, <2>4
  <2> QED
    BY <1>2, <2>4, <2>5, <2>6
<1>3. ASSUME NEW e, BeginsAgain(e) \/ BeginsInVain(e) PROVE EventsInv'
  BY <1>2, <1>3 DEF BeginsAgain, BeginsInVain, BeginsWith, AgentIs
<1>4. ASSUME NEW e, Stops(e) PROVE EventsInv'
  BY <1>2, <1>4 DEF Stops, TurnEnds, Validates
<1>5. ASSUME NEW e, WritesLate(e) PROVE EventsInv'
  BY <1>2, <1>5 DEF WritesLate
<1>6. ASSUME NEW e, Starts(e) \/ Retries(e) \/ HasMemo(e) \/ HasRead(e) \/ HasSubmission(e)
      PROVE  EventsInv'
  BY <1>2, <1>6 DEF Starts, Retries, HasMemo, HasRead, HasSubmission, Completes, WritesOwn, AgentIs
<1>7. ASSUME NEW e, CallsRead(e) \/ HasAnswer(e) \/ Rejects(e)
      PROVE  EventsInv'
  BY <1>2, <1>7 DEF CallsRead, HasAnswer, Rejects, WritesOwn, AgentIs, Validates
<1>8. CASE WritesNothing \/ Approves
  BY <1>1, <1>8 DEF WritesNothing, Approves
<1> QED
  BY <1>3, <1>4, <1>5, <1>6, <1>7, <1>8 DEF TurnMoved

LEMMA SumOfLog ==
  ASSUME log \in Seq(EventSet), NEW S \in SUBSET D
  PROVE  SumFunctionOnSet(Charged, S) \in Int /\ SumFunctionOnSet(ReadsOf, S) \in Int
<1>1. IsFiniteSet(S) /\ \A x \in S : Charged[x] \in Int /\ ReadsOf[x] \in Int
  BY LogDomain, InIsFinite, ChargedIs
<1> QED
  BY <1>1, SumInt

LEMMA InIsPart ==
  /\ \A S : \A K : In(S, K) \subseteq S
  /\ \A S : ReadsIn(S) \subseteq S /\ SubmissionsIn(S) \subseteq S /\ ResultsIn(S) \subseteq S
BY DEF In, ReadsIn, SubmissionsIn, ResultsIn

\* A turn takes no more than what is left.
LEMMA CapFits ==
  ASSUME TurnsTyped, ResearchTurnsAssumption
  PROVE  ag.tokens + OutputCap <= MaxOutput
<1>1. ag.tokens \in Int /\ MaxOutput \in Nat
  BY AgentFields DEF TurnsTyped, ResearchTurnsAssumption
<1>2. DraftReserve \in Nat
  <2>1. PICK h \in Int : h = MaxOutput \div 2
    BY <1>1
  <2>2. Max({h, 1}) \in Nat
    <3>1. CASE h >= 1
      <4>1. \A x \in {h, 1} : h >= x
        BY <2>1, <3>1
      <4> QED
        BY <2>1, <3>1, <4>1 DEF Max
    <3>2. CASE h < 1
      <4>1. \A x \in {h, 1} : 1 >= x
        BY <2>1, <3>2
      <4> QED
        BY <2>1, <3>2, <4>1 DEF Max
    <3> QED
      BY <2>1, <3>1, <3>2
  <2> QED
    BY <2>1, <2>2 DEF DraftReserve
<1> QED
  BY <1>1, <1>2 DEF OutputCap, Remaining

LEMMA TokensStep ==
  ASSUME TurnsTyped, AgentInv, EventsInv, TokensInv, ResearchTurnsAssumption, TurnMoved
  PROVE  TokensInv'
<1>1. /\ log \in Seq(EventSet) /\ ag.tokens \in Int /\ ag \in AgentSet
  BY AgentFields DEF TurnsTyped, LogTyped
<1>2. CASE log' = log
  <2>1. TokensInv' = ((InSession' => ag'.tokens = SumFunctionOnSet(Charged, In(D, TurnEnds)))
                      /\ \A i \in In(D, {"started"}) :
                           SumFunctionOnSet(Charged, {j \in In(D, TurnEnds) : j < i})
                             + log[i].request.cap <= MaxOutput)
    <3>1. /\ Charged' = Charged /\ In(D, TurnEnds)' = In(D, TurnEnds)
          /\ In(D, {"started"})' = In(D, {"started"})
      BY <1>2, LogSame
    <3> QED
      BY <1>2, <3>1 DEF TokensInv
  <2>2. CASE WritesNothing
    BY <2>1, <2>2 DEF TokensInv, WritesNothing, InSession
  <2>3. CASE Approves
    BY <2>1, <2>3 DEF TokensInv, Approves, AgentIs, InSession, Validates
  <2>4. ASSUME NEW e, Added(e) PROVE FALSE
    BY <1>2, <2>4, AddedLog, LogSame
  <2> QED
    BY <2>2, <2>3, <2>4 DEF TurnMoved, BeginsAgain, BeginsInVain, BeginsWith, Stops,
       WritesLate, Starts, Retries, HasRead, HasMemo, HasSubmission, Completes, CallsRead, HasAnswer,
       Rejects, WritesOwn
<1>3. ASSUME NEW e, Added(e),
             InSession' => ag'.tokens = SumFunctionOnSet(Charged, In(D, TurnEnds))
                                          + (IF e.kind \in TurnEnds /\ e.used >= 0 THEN e.used ELSE 0),
             e.kind = "started" =>
               SumFunctionOnSet(Charged, In(D, TurnEnds)) + e.request.cap <= MaxOutput
      PROVE  TokensInv'
  <2>1. /\ log'[Top] = e /\ Top \notin D /\ Grown
        /\ \A i \in D : log'[i] = log[i] /\ i < Top /\ i \in Nat
        /\ D' = D \cup {Top} /\ Top \in Nat
    BY <1>3, AddedLog
  <2>2. /\ In(D, TurnEnds)' = In(D, TurnEnds) \cup (IF e.kind \in TurnEnds THEN {Top} ELSE {})
        /\ In(D, {"started"})' = In(D, {"started"}) \cup (IF e.kind = "started" THEN {Top} ELSE {})
    BY <1>3, SetsOf
  <2>3. In(D, TurnEnds) \subseteq D /\ In(D, {"started"}) \subseteq D
    BY InIsPart
  <2>4. \A S \in SUBSET D : /\ SumFunctionOnSet(Charged', S) = SumFunctionOnSet(Charged, S)
                            /\ SumFunctionOnSet(Charged, S) \in Int
    BY <2>1, SumsGrow, SumOfLog DEF Added, Grown
  <2>5. SumFunctionOnSet(Charged, In(D, TurnEnds))'
          = SumFunctionOnSet(Charged, In(D, TurnEnds))
              + (IF e.kind \in TurnEnds /\ e.used >= 0 THEN e.used ELSE 0)
    <3>1. e.used \in Int
      BY <1>3 DEF Added, EventSet
    <3>2. CASE e.kind \in TurnEnds
      <4>1. SumFunctionOnSet(Charged', In(D, TurnEnds) \cup {Top})
              = (IF e.used >= 0 THEN e.used ELSE 0) + SumFunctionOnSet(Charged, In(D, TurnEnds))
        BY <1>3, <2>3, AddedSums
      <4> QED
        BY <2>2, <2>3, <2>4, <3>1, <3>2, <4>1
    <3>3. CASE e.kind \notin TurnEnds
      BY <2>2, <2>3, <2>4, <3>3
    <3> QED
      BY <3>2, <3>3
  <2>6. \A i \in D : {j \in In(D, TurnEnds)' : j < i} = {j \in In(D, TurnEnds) : j < i}
    BY <2>1, <2>2, <2>3
  <2>7. {j \in In(D, TurnEnds)' : j < Top} = In(D, TurnEnds)
    BY <2>1, <2>2, <2>3
  <2>8. \A i \in In(D, {"started"})' :
          SumFunctionOnSet(Charged', {j \in In(D, TurnEnds)' : j < i}) + log'[i].request.cap <= MaxOutput
    <3>1. ASSUME NEW i \in In(D, {"started"})
          PROVE  SumFunctionOnSet(Charged', {j \in In(D, TurnEnds)' : j < i})
                   + log'[i].request.cap <= MaxOutput
      <4>1. {j \in In(D, TurnEnds) : j < i} \in SUBSET D /\ i \in D
        BY <2>3
      <4>2. SumFunctionOnSet(Charged, {j \in In(D, TurnEnds) : j < i}) + log[i].request.cap <= MaxOutput
        BY DEF TokensInv
      <4> QED
        BY <2>1, <2>4, <2>6, <4>1, <4>2
    <3>2. CASE e.kind = "started"
      <4>1. SumFunctionOnSet(Charged', {j \in In(D, TurnEnds)' : j < Top})
              = SumFunctionOnSet(Charged, In(D, TurnEnds))
        BY <2>3, <2>4, <2>7
      <4> QED
        BY <1>3, <2>1, <2>2, <3>1, <3>2, <4>1
    <3> QED
      BY <2>2, <3>1, <3>2
  <2> QED
    BY <1>3, <2>5, <2>8 DEF TokensInv
<1>4. In(D, TurnEnds) \subseteq D /\ SumFunctionOnSet(Charged, In(D, TurnEnds)) \in Int
  BY <1>1, InIsPart, SumOfLog
<1>5. ASSUME NEW e, BeginsAgain(e) PROVE TokensInv'
  <2>1. PICK drifted \in BOOLEAN :
          LET c == AgentRecoveryCheckpoint(drifted)
          IN  Restores(c) /\ ag'.tokens = c.tokens
    BY <1>5 DEF BeginsAgain, AgentIs
  <2>2. ag'.tokens = SumFunctionOnSet(Charged, In(D, TurnEnds))
    BY <2>1, BeginRecalls DEF Recalled
  <2> QED
    BY <1>3, <1>4, <1>5, <2>2 DEF BeginsAgain, BeginsWith, TurnEnds
<1>6. ASSUME NEW e, BeginsInVain(e) \/ Stops(e) PROVE TokensInv'
  BY <1>3, <1>6 DEF BeginsInVain, BeginsWith, Stops, InSession, TurnEnds
<1>7. ASSUME NEW e, WritesLate(e) PROVE TokensInv'
  BY <1>3, <1>4, <1>7 DEF WritesLate, InSession, TurnEnds, TokensInv
<1>8. ASSUME NEW e, Starts(e) PROVE TokensInv'
  <2>1. e.request.cap = OutputCap /\ ag.tokens = SumFunctionOnSet(Charged, In(D, TurnEnds))
    BY <1>8, RequestTyped DEF Starts, TokensInv, InSession
  <2>2. SumFunctionOnSet(Charged, In(D, TurnEnds)) + e.request.cap <= MaxOutput
    BY <2>1, CapFits
  <2>3. ag'.tokens = ag.tokens /\ Added(e) /\ e.kind = "started"
    BY <1>8 DEF Starts, AgentIs, WritesOwn
  <2> QED
    BY <1>3, <1>4, <2>1, <2>2, <2>3 DEF TurnEnds
<1>9. ASSUME NEW e, Retries(e) PROVE TokensInv'
  <2>1. ag'.tokens = ag.tokens /\ Added(e) /\ e.kind = "failed" /\ e.used = -1 /\ ag.pc = "called"
    BY <1>9 DEF Retries, AgentIs, WritesOwn, Unknown
  <2>2. ag.tokens = SumFunctionOnSet(Charged, In(D, TurnEnds))
    BY <2>1 DEF TokensInv, InSession
  <2> QED
    BY <1>3, <1>4, <2>1, <2>2
<1>10. ASSUME NEW e, HasRead(e) \/ HasMemo(e) \/ HasSubmission(e) PROVE TokensInv'
  <2>1. /\ ag'.tokens = ag.tokens + e.used /\ Added(e) /\ e.kind = "completed" /\ e.used \in Nat
        /\ ag.pc = "called"
    BY <1>10 DEF HasRead, HasMemo, HasSubmission, Completes, AgentIs, WritesOwn, Sound
  <2>2. ag.tokens = SumFunctionOnSet(Charged, In(D, TurnEnds))
    BY <2>1 DEF TokensInv, InSession
  <2> QED
    BY <1>3, <1>4, <2>1, <2>2 DEF TurnEnds
<1>11. ASSUME NEW e, CallsRead(e) \/ HasAnswer(e) \/ Rejects(e) PROVE TokensInv'
  <2>1. /\ ag'.tokens = ag.tokens /\ Added(e) /\ e.kind \notin TurnEnds /\ e.kind # "started"
        /\ ag.pc \notin {"idle", "ending"}
    BY <1>11 DEF CallsRead, HasAnswer, Rejects, AgentIs, WritesOwn, TurnEnds, Validates
  <2>2. ag.tokens = SumFunctionOnSet(Charged, In(D, TurnEnds))
    BY <2>1 DEF TokensInv, InSession
  <2> QED
    BY <1>3, <1>4, <2>1, <2>2
<1>12. CASE WritesNothing \/ Approves
  BY <1>2, <1>12 DEF WritesNothing, Approves
<1> QED
  BY <1>5, <1>6, <1>7, <1>8, <1>9, <1>10, <1>11, <1>12 DEF TurnMoved

\* Counts over the log, before and after.
LEMMA CountsGrow ==
  ASSUME NEW e, Added(e)
  PROVE  /\ \A S \in SUBSET D : Cardinality(S) \in Nat
                                /\ Cardinality(S \cup {Top}) = Cardinality(S) + 1
         /\ Cardinality(In(D, {"tool_called"}))'
              = Cardinality(In(D, {"tool_called"})) + (IF e.kind = "tool_called" THEN 1 ELSE 0)
         /\ Cardinality(In(D, {"tool_completed", "tool_failed"}))'
              = Cardinality(In(D, {"tool_completed", "tool_failed"}))
                  + (IF e.kind \in {"tool_completed", "tool_failed"} THEN 1 ELSE 0)
         /\ Cardinality(SubmissionsIn(D))'
              = Cardinality(SubmissionsIn(D)) + (IF IsSubmission(e) THEN 1 ELSE 0)
<1>1. log \in Seq(EventSet) /\ Top \notin D
  BY AddedLog DEF Added
<1>2. \A S \in SUBSET D : Cardinality(S) \in Nat /\ Cardinality(S \cup {Top}) = Cardinality(S) + 1
  <2> TAKE S \in SUBSET D
  <2>1. IsFiniteSet(S) /\ Cardinality(S) \in Nat /\ Top \notin S
    BY <1>1, InIsFinite
  <2> QED
    BY <2>1, FS_AddElement
<1>3. In(D, {"tool_called"}) \in SUBSET D /\ SubmissionsIn(D) \in SUBSET D
      /\ In(D, {"tool_completed", "tool_failed"}) \in SUBSET D
  BY InIsPart
<1>4. Cardinality(In(D, {"tool_called"}))'
        = Cardinality(In(D, {"tool_called"})) + (IF e.kind = "tool_called" THEN 1 ELSE 0)
  <2>1. In(D, {"tool_called"})'
          = In(D, {"tool_called"}) \cup (IF e.kind = "tool_called" THEN {Top} ELSE {})
    BY SetsOf
  <2>2. CASE e.kind = "tool_called"
    BY <1>2, <1>3, <2>1, <2>2
  <2>3. CASE ~ (e.kind = "tool_called")
    <3>1. In(D, {"tool_called"})' = In(D, {"tool_called"})
      BY <2>1, <2>3
    <3>2. Cardinality(In(D, {"tool_called"})) \in Nat
      BY <1>2, <1>3
    <3>3. Cardinality(In(D, {"tool_called"}))' = Cardinality(In(D, {"tool_called"}))
      BY <3>1
    <3> QED
      BY <2>3, <3>2, <3>3
  <2> QED
    BY <2>2, <2>3
<1>5. Cardinality(In(D, {"tool_completed", "tool_failed"}))'
        = Cardinality(In(D, {"tool_completed", "tool_failed"}))
            + (IF e.kind \in {"tool_completed", "tool_failed"} THEN 1 ELSE 0)
  <2>1. In(D, {"tool_completed", "tool_failed"})'
          = In(D, {"tool_completed", "tool_failed"})
              \cup (IF e.kind \in {"tool_completed", "tool_failed"} THEN {Top} ELSE {})
    BY SetsOf
  <2>2. CASE e.kind \in {"tool_completed", "tool_failed"}
    BY <1>2, <1>3, <2>1, <2>2
  <2>3. CASE ~ (e.kind \in {"tool_completed", "tool_failed"})
    <3>1. In(D, {"tool_completed", "tool_failed"})' = In(D, {"tool_completed", "tool_failed"})
      BY <2>1, <2>3
    <3>2. Cardinality(In(D, {"tool_completed", "tool_failed"})) \in Nat
      BY <1>2, <1>3
    <3>3. Cardinality(In(D, {"tool_completed", "tool_failed"}))' = Cardinality(In(D, {"tool_completed", "tool_failed"}))
      BY <3>1
    <3> QED
      BY <2>3, <3>2, <3>3
  <2> QED
    BY <2>2, <2>3
<1>6. Cardinality(SubmissionsIn(D))'
        = Cardinality(SubmissionsIn(D)) + (IF IsSubmission(e) THEN 1 ELSE 0)
  <2>1. SubmissionsIn(D)' = SubmissionsIn(D) \cup (IF IsSubmission(e) THEN {Top} ELSE {})
    BY AddedSets
  <2>2. CASE IsSubmission(e)
    BY <1>2, <1>3, <2>1, <2>2
  <2>3. CASE ~ (IsSubmission(e))
    <3>1. SubmissionsIn(D)' = SubmissionsIn(D)
      BY <2>1, <2>3
    <3>2. Cardinality(SubmissionsIn(D)) \in Nat
      BY <1>2, <1>3
    <3>3. Cardinality(SubmissionsIn(D))' = Cardinality(SubmissionsIn(D))
      BY <3>1
    <3> QED
      BY <2>3, <3>2, <3>3
  <2> QED
    BY <2>2, <2>3
<1> QED
  BY <1>2, <1>4, <1>5, <1>6

LEMMA ToolsStep ==
  ASSUME TurnsTyped, AgentInv, EventsInv, ToolsInv, ResearchTurnsAssumption, TurnMoved
  PROVE  ToolsInv'
<1> DEFINE called == Cardinality(In(D, {"tool_called"}))
<1>1. /\ log \in Seq(EventSet) /\ ag.tools \in Nat /\ ag.reads \in Nat
      /\ In(D, {"tool_called"}) \in SUBSET D
  BY AgentFields, InIsPart DEF TurnsTyped, LogTyped
<1>2. called \in Nat
  BY <1>1, InIsFinite
<1>3. ToolLimit \in Nat
  BY DEF ToolLimit, ResearchTurnsAssumption
<1>4. protocol' = protocol => ToolLimit' = ToolLimit
  BY DEF ToolLimit
<1>5. called <= ToolLimit
  BY DEF ToolsInv
<1>6. InSession => ag.tools <= ToolLimit /\ ag.tools = called + ToCall
  BY DEF ToolsInv
<1> HIDE DEF called
<1>7. ASSUME called' = called, protocol' = protocol,
             InSession' => ag'.tools <= ToolLimit /\ ag'.tools = called + ToCall'
      PROVE  ToolsInv'
  <2>1. ToolLimit' = ToolLimit
    BY <1>4, <1>7
  <2> QED
    BY <1>5, <1>7, <2>1 DEF ToolsInv, called
<1>8. ASSUME NEW e, Added(e), e.kind # "tool_called"
      PROVE  called' = called /\ protocol' = protocol
  <2>1. called' = called + 0
    BY <1>8, CountsGrow DEF called
  <2> QED
    BY <1>2, <1>8, <2>1 DEF Added
<1>9. CASE WritesNothing
  <2>1. called' = called
    BY <1>9, LogSame DEF WritesNothing, called
  <2> QED
    BY <1>7, <1>9, <2>1 DEF WritesNothing, Stays, InSession
<1>10. CASE Approves
  <2>1. called' = called
    BY <1>10, LogSame DEF Approves, called
  <2> QED
    BY <1>6, <1>7, <1>10, <2>1 DEF Approves, AgentIs, Validates, Stays, InSession, ToCall
<1>11. ASSUME NEW e, BeginsAgain(e) PROVE ToolsInv'
  <2>1. PICK drifted \in BOOLEAN :
          LET c == AgentRecoveryCheckpoint(drifted)
          IN  Restores(c) /\ ag'.tools = c.tools /\ ag'.pc = "loop"
    BY <1>11 DEF BeginsAgain, AgentIs
  <2>2. ag'.tools = called /\ ag'.tools <= ToolLimit
    BY <2>1, BeginRecalls DEF Recalled, called
  <2>3. Added(e) /\ e.kind # "tool_called"
    BY <1>11 DEF BeginsAgain, BeginsWith
  <2> QED
    BY <1>2, <1>7, <1>8, <2>1, <2>2, <2>3 DEF ToCall
<1>12. ASSUME NEW e, BeginsInVain(e) \/ Stops(e) PROVE ToolsInv'
  BY <1>7, <1>8, <1>12 DEF BeginsInVain, BeginsWith, Stops, InSession, TurnEnds
<1>13. ASSUME NEW e, WritesLate(e) PROVE ToolsInv'
  BY <1>6, <1>7, <1>8, <1>13 DEF WritesLate, InSession, ToCall
<1>14. ASSUME NEW e, Starts(e) \/ Retries(e) \/ HasMemo(e) \/ HasSubmission(e) PROVE ToolsInv'
  <2>1. /\ Added(e) /\ e.kind # "tool_called" /\ ag'.tools = ag.tools
        /\ ag.pc \in {"loop", "called"} /\ ag'.pc \in {"loop", "called", "submitted"}
    BY <1>14 DEF Starts, Retries, HasMemo, HasSubmission, Completes, WritesOwn, AgentIs
  <2> QED
    BY <1>6, <1>7, <1>8, <2>1 DEF InSession, ToCall
<1>15. ASSUME NEW e, HasRead(e) PROVE ToolsInv'
  <2>1. /\ Added(e) /\ e.kind # "tool_called" /\ ag'.tools = ag.tools + e.reply.reads
        /\ ag.tools + e.reply.reads <= ToolLimit
        /\ ag.pc = "called" /\ ag'.pc = "reading" /\ ag'.reads = e.reply.reads
    BY <1>15 DEF HasRead, Completes, WritesOwn, AgentIs
  <2>2. ag.tools = called + 0
    BY <1>6, <2>1 DEF InSession, ToCall
  <2> QED
    BY <1>2, <1>7, <1>8, <2>1, <2>2 DEF InSession, ToCall
<1>16. ASSUME NEW e, CallsRead(e) PROVE ToolsInv'
  <2>1. /\ Added(e) /\ e.kind = "tool_called" /\ ag'.tools = ag.tools /\ protocol' = protocol
        /\ ag.pc = "reading" /\ ag'.pc = "read" /\ ag'.reads = ag.reads
    BY <1>16 DEF CallsRead, WritesOwn, AgentIs, Stays
  <2>2. called' = called + 1
    BY <2>1, CountsGrow DEF called
  <2>3. ag.tools = called + ag.reads /\ ag.tools <= ToolLimit /\ ag.reads >= 1
    BY <1>6, <2>1 DEF InSession, ToCall, AgentInv
  <2>4. ToCall' = ag.reads - 1
    BY <2>1 DEF ToCall
  <2>5. called' <= ToolLimit /\ ag'.tools = called' + ToCall'
    BY <1>1, <1>2, <1>3, <2>1, <2>2, <2>3, <2>4
  <2>6. ToolLimit' = ToolLimit
    BY <1>4, <2>1
  <2> QED
    BY <2>1, <2>3, <2>5, <2>6 DEF ToolsInv, called
<1>17. ASSUME NEW e, HasAnswer(e) PROVE ToolsInv'
  <2>1. /\ Added(e) /\ e.kind # "tool_called" /\ ag'.tools = ag.tools /\ ag.pc = "read"
        /\ IF ag.reads > 1 THEN ag'.pc = "reading" /\ ag'.reads = ag.reads - 1
                           ELSE ag'.pc = "loop"
    BY <1>17 DEF HasAnswer, WritesOwn, AgentIs
  <2>2. ag.tools = called + (ag.reads - 1) /\ ag.tools <= ToolLimit /\ ag.reads >= 1
    BY <1>6, <2>1 DEF InSession, ToCall, AgentInv
  <2>3. ToCall' = ag.reads - 1
    BY <1>1, <2>1, <2>2 DEF ToCall
  <2> QED
    BY <1>7, <1>8, <2>1, <2>2, <2>3
<1>18. ASSUME NEW e, Rejects(e) PROVE ToolsInv'
  <2>1. /\ Added(e) /\ e.kind # "tool_called" /\ ag'.tools = ag.tools
        /\ ag.pc = "submitted" /\ ag'.pc = "loop"
    BY <1>18 DEF Rejects, WritesOwn, AgentIs, Validates
  <2> QED
    BY <1>6, <1>7, <1>8, <2>1 DEF InSession, ToCall
<1> QED
  BY <1>9, <1>10, <1>11, <1>12, <1>13, <1>14, <1>15, <1>16, <1>17, <1>18 DEF TurnMoved

LEMMA SubsStep ==
  ASSUME TurnsTyped, AgentInv, EventsInv, SubsInv, ResearchTurnsAssumption, TurnMoved
  PROVE  SubsInv'
<1> DEFINE subs == Cardinality(SubmissionsIn(D))
<1>1. /\ log \in Seq(EventSet) /\ ag.subs \in Nat /\ attempt \in Nat /\ TurnAttempts \in Nat
      /\ SubmissionsIn(D) \in SUBSET D /\ (ag.pc # "idle" => attempt >= 1)
  BY AgentFields, InIsPart DEF TurnsTyped, LogTyped, TaskTyped, ResearchTurnsAssumption
<1>2. subs \in Nat
  BY <1>1, InIsFinite
<1>3. subs <= TurnAttempts + attempt - 1
  BY DEF SubsInv
<1>4. ag.pc \in {"loop", "called", "reading", "read"} =>
        ag.subs = subs /\ subs <= TurnAttempts + attempt - 2
  BY DEF SubsInv
<1>5. ag.pc \in {"submitted", "accepted"} => ag.subs = subs - 1
  BY DEF SubsInv
<1>6. SubsInv' = (/\ subs' <= TurnAttempts + attempt' - 1
                  /\ ag'.pc \in {"loop", "called", "reading", "read"} =>
                       ag'.subs = subs' /\ subs' <= TurnAttempts + attempt' - 2
                  /\ ag'.pc \in {"submitted", "accepted"} => ag'.subs = subs' - 1)
  BY DEF SubsInv
<1>7. ASSUME NEW e, Added(e)
      PROVE  subs' = subs + (IF IsSubmission(e) THEN 1 ELSE 0)
  BY <1>7, CountsGrow
<1>8. log' = log => subs' = subs
  BY LogSame
<1> HIDE DEF subs
<1>9. CASE WritesNothing
  BY <1>3, <1>6, <1>8, <1>9 DEF WritesNothing, Stays
<1>10. CASE Approves
  BY <1>3, <1>5, <1>6, <1>8, <1>10 DEF Approves, Stays, AgentIs, Validates
<1>11. ASSUME NEW e, BeginsWith(e), ag'.pc = "ending" \/ (ag'.pc = "loop" /\ ag'.subs = subs)
       PROVE  SubsInv'
  <2>1. subs' = subs /\ attempt' = attempt + 1
    BY <1>2, <1>7, <1>11 DEF BeginsWith, IsSubmission
  <2> QED
    BY <1>1, <1>2, <1>3, <1>6, <1>11, <2>1
<1>12. ASSUME NEW e, BeginsAgain(e) PROVE SubsInv'
  <2>1. PICK drifted \in BOOLEAN :
          LET c == AgentRecoveryCheckpoint(drifted)
          IN  Restores(c) /\ ag'.subs = c.subs /\ ag'.pc = "loop"
    BY <1>12 DEF BeginsAgain, AgentIs
  <2>2. ag'.subs = subs
    BY <2>1, BeginRecalls DEF Recalled, subs
  <2> QED
    BY <1>11, <1>12, <2>1, <2>2 DEF BeginsAgain
<1>13. ASSUME NEW e, BeginsInVain(e) PROVE SubsInv'
  BY <1>11, <1>13 DEF BeginsInVain
<1>14. ASSUME NEW e, Stops(e) PROVE SubsInv'
  <2>1. Added(e) /\ attempt' = attempt /\ ag'.pc \in {"idle", "ending"}
        /\ (e.kind = "completed" => ag.pc = "called")
    BY <1>14 DEF Stops, Stays, TurnEnds
  <2>2. CASE IsSubmission(e)
    BY <1>1, <1>2, <1>4, <1>6, <1>7, <2>1, <2>2 DEF IsSubmission
  <2>3. CASE ~IsSubmission(e)
    BY <1>2, <1>3, <1>6, <1>7, <2>1, <2>3
  <2> QED
    BY <2>2, <2>3
<1>15. ASSUME NEW e, WritesLate(e) PROVE SubsInv'
  <2>1. subs' = subs
    BY <1>2, <1>7, <1>15 DEF WritesLate, IsSubmission
  <2> QED
    BY <1>3, <1>4, <1>5, <1>6, <1>15, <2>1 DEF WritesLate, Stays
<1>16. ASSUME NEW e, Starts(e) \/ Retries(e) \/ HasMemo(e) \/ HasRead(e) \/ CallsRead(e) \/ HasAnswer(e)
       PROVE  SubsInv'
  <2>1. /\ Added(e) /\ ~IsSubmission(e) /\ ag'.subs = ag.subs /\ attempt' = attempt
        /\ ag.pc \in {"loop", "called", "reading", "read"}
        /\ ag'.pc \in {"loop", "called", "reading", "read"}
    BY <1>16 DEF Starts, Retries, HasMemo, HasRead, Completes, CallsRead, HasAnswer, WritesOwn, AgentIs,
                 IsSubmission, Stays
  <2>2. subs' = subs
    BY <1>2, <1>7, <2>1
  <2> QED
    BY <1>3, <1>4, <1>6, <2>1, <2>2
<1>17. ASSUME NEW e, HasSubmission(e) PROVE SubsInv'
  <2>1. /\ Added(e) /\ IsSubmission(e) /\ ag'.subs = ag.subs /\ attempt' = attempt
        /\ ag.pc = "called" /\ ag'.pc = "submitted"
    BY <1>17 DEF HasSubmission, Completes, WritesOwn, AgentIs, IsSubmission, Stays, AgentInv
  <2>2. subs' = subs + 1
    BY <1>7, <2>1
  <2> QED
    BY <1>1, <1>2, <1>4, <1>6, <2>1, <2>2
<1>18. ASSUME NEW e, Rejects(e) PROVE SubsInv'
  <2>1. /\ Added(e) /\ ~IsSubmission(e) /\ ag'.subs = ag.subs + 1 /\ attempt' = attempt
        /\ ag.pc = "submitted" /\ ag'.pc = "loop" /\ ag.subs + 1 < TurnAttempts
    BY <1>18 DEF Rejects, WritesOwn, AgentIs, IsSubmission, Stays, Validates
  <2>2. subs' = subs
    BY <1>2, <1>7, <2>1
  <2> QED
    BY <1>1, <1>2, <1>3, <1>5, <1>6, <2>1, <2>2
<1> QED
  BY <1>9, <1>10, <1>12, <1>13, <1>14, <1>15, <1>16, <1>17, <1>18 DEF TurnMoved

LEMMA BeforeIs ==
  ASSUME log \in Seq(EventSet)
  PROVE  /\ \A kind : \A i \in D : Before(i, kind) = {j \in In(D, {kind}) : j < i}
         /\ \A i, k : k \in Answers(i) <=>
              /\ k \in In(D, TurnEnds) /\ i < k /\ log[k].att = log[i].att
              /\ \A j \in In(D, {"started"}) : j < k => j \in 1 .. i
<1>1. D = 1 .. Len(log) /\ Len(log) \in Nat
  BY LogDomain
<1>2. \A kind : \A i \in D : Before(i, kind) = {j \in In(D, {kind}) : j < i}
  BY <1>1 DEF Before, Is, In
<1>3. \A i, k : k \in Answers(i) <=>
        /\ k \in In(D, TurnEnds) /\ i < k /\ log[k].att = log[i].att
        /\ \A j \in In(D, {"started"}) : j < k => j \in 1 .. i
  <2> TAKE i, k
  <2>1. k \in Answers(i) <=>
          /\ k \in D /\ k > i /\ log[k].att = log[i].att /\ log[k].kind \in TurnEnds
          /\ Before(k, "started") \subseteq 1 .. i
    BY DEF Answers, D, TurnEnds
  <2>2. CASE k \in D
    <3>1. Before(k, "started") = {j \in In(D, {"started"}) : j < k}
      BY <1>2, <2>2
    <3> QED
      BY <2>1, <2>2, <3>1 DEF In
  <2>3. CASE k \notin D
    BY <2>1, <2>3 DEF In
  <2> QED
    BY <2>2, <2>3
<1> QED
  BY <1>2, <1>3

LEMMA BeforeAlways ==
  log \in Seq(EventSet) =>
    /\ \A p \in D : Before(p, "started") = {m \in In(D, {"started"}) : m < p}
    /\ \A p, q : q \in Answers(p) <=>
         /\ q \in In(D, TurnEnds) /\ p < q /\ log[q].att = log[p].att
         /\ \A m \in In(D, {"started"}) : m < q => m \in 1 .. p
BY BeforeIs

\* An answer stays one, and what ends the last call answers it.
LEMMA AnswersGrow ==
  ASSUME NEW e, Added(e), NEW i \in D
  PROVE  /\ \A k \in Answers(i) : k \in D /\ k \in Answers(i)'
         /\ UsageKnown(i) => UsageKnown(i)'
         /\ (/\ e.kind \in TurnEnds /\ log[i].att = e.att
             /\ \A j \in In(D, {"started"}) : j <= i) => Top \in Answers(i)'
<1>1. /\ log'[Top] = e /\ Top \notin D /\ D' = D \cup {Top} /\ Top \in Nat
      /\ \A k \in D : log'[k] = log[k] /\ k < Top /\ k \in Nat
      /\ log' \in Seq(EventSet) /\ D = 1 .. Len(log) /\ log \in Seq(EventSet) /\ Len(log) \in Nat
  BY AddedLog, LogDomain DEF Added
<1>2. (log \in Seq(EventSet) =>
    /\ \A p \in D : Before(p, "started") = {m \in In(D, {"started"}) : m < p}
    /\ \A p, q : q \in Answers(p) <=>
         /\ q \in In(D, TurnEnds) /\ p < q /\ log[q].att = log[p].att
         /\ \A m \in In(D, {"started"}) : m < q => m \in 1 .. p)'
  BY BeforeAlways, PTL
<1>3. /\ In(D, TurnEnds)' = In(D, TurnEnds) \cup (IF e.kind \in TurnEnds THEN {Top} ELSE {})
      /\ In(D, {"started"})' = In(D, {"started"}) \cup (IF e.kind = "started" THEN {Top} ELSE {})
      /\ In(D, TurnEnds) \subseteq D /\ In(D, {"started"}) \subseteq D
  BY SetsOf, InIsPart
<1>4. \A k : k \in Answers(i) =>
        /\ k \in In(D, TurnEnds) /\ i < k /\ log[k].att = log[i].att
        /\ \A j \in In(D, {"started"}) : j < k => j \in 1 .. i
  BY <1>1, BeforeIs
<1>5. \A k : (/\ k \in In(D, TurnEnds)' /\ i < k /\ log'[k].att = log'[i].att
              /\ \A j \in In(D, {"started"})' : j < k => j \in 1 .. i) => k \in Answers(i)'
  BY <1>1, <1>2
<1>6. ASSUME NEW k \in Answers(i) PROVE k \in D /\ k \in Answers(i)'
  <2>1. k \in D
    BY <1>3, <1>4
  <2>2. ASSUME NEW j \in In(D, {"started"})', j < k PROVE j \in In(D, {"started"})
    <3>1. j \in In(D, {"started"}) \/ j = Top
      BY <1>3
    <3>2. j # Top
      BY <1>1, <2>1, <2>2
    <3> QED
      BY <3>1, <3>2
  <2> QED
    BY <1>1, <1>3, <1>4, <1>5, <2>1, <2>2
<1>7. UsageKnown(i) => UsageKnown(i)'
  <2> SUFFICES ASSUME UsageKnown(i) PROVE UsageKnown(i)'
    OBVIOUS
  <2>1. PICK k \in Answers(i) : log[k].used # Unknown
    BY DEF UsageKnown
  <2>2. k \in Answers(i)' /\ log'[k].used # Unknown
    BY <1>1, <1>6, <2>1
  <2> QED
    BY <2>2 DEF UsageKnown, Unknown
<1>8. ASSUME e.kind \in TurnEnds, log[i].att = e.att, \A j \in In(D, {"started"}) : j <= i
      PROVE  Top \in Answers(i)'
  <2>1. Top \in In(D, TurnEnds)' /\ i < Top /\ log'[Top].att = log'[i].att
    BY <1>1, <1>3, <1>8
  <2>2. e.kind # "started"
    BY <1>8 DEF TurnEnds
  <2>3. In(D, {"started"})' = In(D, {"started"})
    BY <1>3, <2>2
  <2>4. \A j \in In(D, {"started"}) : j \in 1 .. i
    BY <1>1, <1>3, <1>8
  <2> QED
    BY <1>5, <2>1, <2>3, <2>4
<1> QED
  BY <1>6, <1>7, <1>8

\* What the events after it say of an open call.
LEMMA CallsGrow ==
  ASSUME NEW e, Added(e), log \in Seq(EventSet), NoCallAfterUnknown,
         e.kind = "started" => \A i \in In(D, {"started"}) : UsageKnown(i),
         \A i \in In(D, {"started"}), k \in In(D, TurnEnds) :
           i < k /\ log[k].att = log[i].att => Answers(i) # {},
         e.kind \in TurnEnds =>
           \A i \in In(D, {"started"}) : log[i].att = e.att =>
             Answers(i) # {} \/ \A j \in In(D, {"started"}) : j <= i
  PROVE  /\ NoCallAfterUnknown'
         /\ \A i \in In(D, {"started"})', k \in In(D, TurnEnds)' :
              i < k /\ log'[k].att = log'[i].att => Answers(i)' # {}
<1>1. /\ log'[Top] = e /\ Top \notin D /\ D' = D \cup {Top} /\ Top \in Nat
      /\ \A k \in D : log'[k] = log[k] /\ k < Top /\ k \in Nat
      /\ log' \in Seq(EventSet)
  BY AddedLog
<1>2. (log \in Seq(EventSet) =>
    /\ \A p \in D : Before(p, "started") = {m \in In(D, {"started"}) : m < p}
    /\ \A p, q : q \in Answers(p) <=>
         /\ q \in In(D, TurnEnds) /\ p < q /\ log[q].att = log[p].att
         /\ \A m \in In(D, {"started"}) : m < q => m \in 1 .. p)'
  BY BeforeAlways, PTL
<1>3. /\ In(D, TurnEnds)' = In(D, TurnEnds) \cup (IF e.kind \in TurnEnds THEN {Top} ELSE {})
      /\ In(D, {"started"})' = In(D, {"started"}) \cup (IF e.kind = "started" THEN {Top} ELSE {})
      /\ In(D, TurnEnds) \subseteq D /\ In(D, {"started"}) \subseteq D
  BY SetsOf, InIsPart
<1>4. ASSUME NEW i \in D', log'[i].kind = "started", NEW j \in Before(i, "started")'
      PROVE  \E k \in Answers(j)' : k < i /\ log'[k].used # Unknown
  <2>1. Before(i, "started")' = {m \in In(D, {"started"})' : m < i}
    BY <1>1, <1>2
  <2>2. j \in In(D, {"started"})' /\ j < i
    BY <2>1, <1>4
  <2>3. j \in In(D, {"started"}) /\ j \in D
    BY <1>1, <1>3, <2>2
  <2>4. CASE i \in D
    <3>1. Before(i, "started") = {m \in In(D, {"started"}) : m < i}
      BY <2>4, BeforeIs
    <3>2. j \in Before(i, "started") /\ log[i].kind = "started"
      BY <1>1, <1>4, <2>2, <2>3, <2>4, <3>1
    <3>3. PICK k \in Answers(j) : k < i /\ log[k].used # Unknown
      BY <2>4, <3>2 DEF NoCallAfterUnknown, D, Is
    <3>4. k \in D /\ k \in Answers(j)'
      BY <2>3, <3>3, AnswersGrow
    <3> QED
      BY <1>1, <3>3, <3>4
  <2>5. CASE i = Top
    <3>1. e.kind = "started"
      BY <1>1, <1>4, <2>5
    <3>2. PICK k \in Answers(j) : log[k].used # Unknown
      BY <2>3, <3>1 DEF UsageKnown
    <3>3. k \in D /\ k \in Answers(j)'
      BY <2>3, <3>2, AnswersGrow
    <3> QED
      BY <1>1, <2>5, <3>2, <3>3
  <2> QED
    BY <1>1, <2>4, <2>5
<1>5. NoCallAfterUnknown'
  <2>1. NoCallAfterUnknown' =
          (\A i \in D' : log'[i].kind = "started" =>
             \A j \in Before(i, "started")' : \E k \in Answers(j)' : k < i /\ log'[k].used # Unknown)
    BY DEF NoCallAfterUnknown, D, Is, Unknown
  <2> QED
    BY <1>4, <2>1
<1>6. ASSUME NEW i \in In(D, {"started"})', NEW k \in In(D, TurnEnds)', i < k, log'[k].att = log'[i].att
      PROVE  Answers(i)' # {}
  <2>1. CASE k \in D
    <3>1. k \in In(D, TurnEnds)
      BY <1>1, <1>3, <2>1
    <3>2. i \in In(D, {"started"}) /\ i \in D
      <4>1. i \in In(D, {"started"}) \/ i = Top
        BY <1>3
      <4>2. i # Top
        BY <1>1, <1>6, <2>1
      <4> QED
        BY <1>3, <4>1, <4>2
    <3>3. PICK m : m \in Answers(i)
      BY <1>1, <1>6, <3>1, <3>2, <2>1
    <3> QED
      BY <3>2, <3>3, AnswersGrow
  <2>2. CASE k = Top
    <3>1. e.kind \in TurnEnds
      BY <1>1, <1>3, <2>2
    <3>2. i \in In(D, {"started"}) /\ i \in D
      BY <1>1, <1>3, <3>1 DEF TurnEnds
    <3>3. log[i].att = e.att
      BY <1>1, <1>6, <2>2, <3>2
    <3>4. CASE Answers(i) # {}
      BY <3>2, <3>4, AnswersGrow
    <3>5. CASE \A j \in In(D, {"started"}) : j <= i
      BY <3>1, <3>2, <3>3, <3>5, AnswersGrow
    <3> QED
      BY <3>1, <3>2, <3>3, <3>4, <3>5
  <2> QED
    BY <1>1, <1>3, <2>1, <2>2
<1> QED
  BY <1>5, <1>6

LEMMA UnknownStep ==
  ASSUME TurnsTyped, AgentInv, EventsInv, UnknownInv, ResearchTurnsAssumption, TurnMoved
  PROVE  UnknownInv'
<1>1. /\ log \in Seq(EventSet) /\ attempt \in Nat
      /\ \A i \in D : log[i].att \in Nat /\ log[i].att <= attempt
  BY DEF TurnsTyped, LogTyped, TaskTyped
<1> DEFINE Calling == In(D, {"started"})
<1>2. /\ NoCallAfterUnknown
      /\ InSession /\ ag.pc # "called" /\ ~ag.unknown => \A i \in Calling : UsageKnown(i)
      /\ \A i \in Calling, k \in In(D, TurnEnds) : i < k /\ log[k].att = log[i].att => Answers(i) # {}
      /\ InSession /\ ag.pc # "called" =>
           \A i \in Calling : log[i].att = attempt => Answers(i) # {}
      /\ ag.pc = "called" =>
           \E l \in Calling : /\ log[l].att = attempt
                              /\ \A i \in Calling : i <= l /\ (i # l => UsageKnown(i))
  BY DEF UnknownInv
<1>3. Calling \subseteq D
  BY InIsPart
<1>4. \A i \in Calling : UsageKnown(i) => Answers(i) # {}
  BY DEF UsageKnown
<1>5. CASE WritesNothing
  <2>1. /\ In(D, {"started"})' = In(D, {"started"}) /\ In(D, TurnEnds)' = In(D, TurnEnds)
        /\ \A i : Answers(i)' = Answers(i)
        /\ NoCallAfterUnknown' /\ log' = log /\ ag'.pc \in {"idle", "ending"}
    BY <1>2, <1>5, LogSame DEF WritesNothing
  <2> QED
    BY <1>2, <2>1 DEF UnknownInv, InSession
<1>6. CASE Approves
  <2>1. /\ In(D, {"started"})' = In(D, {"started"}) /\ In(D, TurnEnds)' = In(D, TurnEnds)
        /\ \A i : Answers(i)' = Answers(i)
        /\ NoCallAfterUnknown' /\ log' = log /\ ag'.pc = "accepted" /\ ag.pc = "submitted"
        /\ ag'.unknown = ag.unknown /\ attempt' = attempt
    BY <1>2, <1>6, LogSame DEF Approves, AgentIs, Validates, Stays
  <2>2. \A i \in Calling : UsageKnown(i) => UsageKnown(i)'
    BY <2>1 DEF UsageKnown
  <2> QED
    BY <1>2, <2>1, <2>2 DEF UnknownInv, InSession
<1>7. ASSUME NEW e, Added(e), e.kind = "started" => \A i \in Calling : UsageKnown(i),
             e.kind \in TurnEnds =>
               \A i \in Calling : log[i].att = e.att => Answers(i) # {} \/ \A j \in Calling : j <= i,
             InSession' /\ ag'.pc # "called" /\ ~ag'.unknown => \A i \in Calling' : UsageKnown(i)',
             InSession' /\ ag'.pc # "called" =>
               \A i \in Calling' : log'[i].att = attempt' => Answers(i)' # {},
             ag'.pc = "called" =>
               \E l \in Calling' : /\ log'[l].att = attempt'
                                   /\ \A i \in Calling' : i <= l /\ (i # l => UsageKnown(i)')
      PROVE  UnknownInv'
  <2>1. /\ NoCallAfterUnknown'
        /\ \A i \in In(D, {"started"})', k \in In(D, TurnEnds)' :
             i < k /\ log'[k].att = log'[i].att => Answers(i)' # {}
    BY <1>1, <1>2, <1>7, CallsGrow
  <2> QED
    BY <1>7, <2>1 DEF UnknownInv
<1>8. ASSUME NEW e, Added(e)
      PROVE  /\ log'[Top] = e /\ \A k \in D : log'[k] = log[k] /\ k \in Nat /\ k < Top
             /\ Top \in Nat
             /\ e.kind # "started" => Calling' = Calling
             /\ e.kind = "started" => Calling' = Calling \cup {Top}
             /\ \A i \in Calling : (UsageKnown(i) => UsageKnown(i)') /\ (Answers(i) # {} => Answers(i)' # {})
             /\ \A i \in Calling : (/\ e.kind \in TurnEnds /\ log[i].att = e.att
                                    /\ \A j \in Calling : j <= i) => Top \in Answers(i)'
  BY <1>3, <1>8, AddedLog, SetsOf, AnswersGrow
<1>9. ASSUME NEW e, BeginsAgain(e) PROVE UnknownInv'
  <2>1. PICK drifted \in BOOLEAN :
          Restores(AgentRecoveryCheckpoint(drifted)) /\ ag'.pc = "loop"
    BY <1>9 DEF BeginsAgain, AgentIs
  <2>2. /\ \A i \in Calling :
             \E k \in In(D, TurnEnds) : i < k /\ log[k].att = log[i].att /\ log[k].used # Unknown
        /\ Calling # {} => \A k \in In(D, TurnEnds) : log[k].used # Unknown
    BY <2>1, BeginRecalls DEF Recalled
  <2>3. \A i \in Calling : UsageKnown(i)
    <3> TAKE i \in Calling
    <3>1. PICK k \in Answers(i) : TRUE
      BY <1>2, <2>2
    <3>2. k \in In(D, TurnEnds)
      BY <1>1, BeforeIs
    <3> QED
      BY <2>2, <3>2 DEF UsageKnown
  <2>4. Added(e) /\ e.kind = "begin" /\ attempt' = attempt + 1
    BY <1>9 DEF BeginsAgain, BeginsWith
  <2>5. Calling' = Calling /\ \A i \in Calling : UsageKnown(i)'
    BY <1>8, <2>3, <2>4
  <2>6. \A i \in Calling' : log'[i].att # attempt'
    BY <1>1, <1>3, <1>8, <2>4, <2>5
  <2> HIDE DEF Calling
  <2> QED
    BY <1>7, <2>1, <2>4, <2>5, <2>6 DEF TurnEnds
<1>10. ASSUME NEW e, BeginsInVain(e) PROVE UnknownInv'
  BY <1>7, <1>10 DEF BeginsInVain, BeginsWith, InSession, TurnEnds
<1>11. ASSUME NEW e, Stops(e) PROVE UnknownInv'
  <2>1. Added(e) /\ e.kind # "started" /\ ag'.pc \in {"idle", "ending"} /\ e.att = attempt
        /\ (e.kind \in TurnEnds => ag.pc \in {"loop", "called"})
    BY <1>11 DEF Stops, TurnEnds
  <2>2. e.kind \in TurnEnds =>
          \A i \in Calling : log[i].att = e.att => Answers(i) # {} \/ \A j \in Calling : j <= i
    <3>1. CASE ag.pc = "loop"
      BY <1>2, <2>1, <3>1 DEF InSession
    <3>2. CASE ag.pc = "called"
      BY <1>2, <1>4, <3>2
    <3> QED
      BY <2>1, <3>1, <3>2
  <2> HIDE DEF Calling
  <2> QED
    BY <1>7, <2>1, <2>2 DEF InSession
<1>12. ASSUME NEW e, WritesLate(e) PROVE UnknownInv'
  <2>1. Added(e) /\ e.kind = "rejected" /\ ag' = ag /\ attempt' = attempt
    BY <1>12 DEF WritesLate, Stays
  <2>2. Calling' = Calling /\ \A i \in Calling : (UsageKnown(i) => UsageKnown(i)')
        /\ (Answers(i) # {} => Answers(i)' # {}) /\ log'[i] = log[i]
    BY <1>3, <1>8, <2>1
  <2>3. InSession' = InSession
    BY <2>1 DEF InSession
  <2> HIDE DEF Calling
  <2> QED
    BY <1>2, <1>7, <2>1, <2>2, <2>3 DEF TurnEnds
<1>13. ASSUME NEW e, Starts(e) PROVE UnknownInv'
  <2>1. /\ Added(e) /\ e.kind = "started" /\ e.att = attempt /\ ag'.pc = "called"
        /\ ag.pc = "loop" /\ ~ag.unknown /\ attempt' = attempt
    BY <1>13 DEF Starts, WritesOwn, Stays, AgentIs
  <2>2. \A i \in Calling : UsageKnown(i)
    BY <1>2, <2>1 DEF InSession
  <2>3. Calling' = Calling \cup {Top} /\ \A i \in Calling : UsageKnown(i)' /\ i < Top
    BY <1>3, <1>8, <2>1, <2>2
  <2>4. log'[Top].att = attempt' /\ Top \in Nat /\ \A i \in Calling : i \in Nat
    BY <1>3, <1>8, <2>1
  <2>5. \E l \in Calling' : /\ log'[l].att = attempt'
                            /\ \A i \in Calling' : i <= l /\ (i # l => UsageKnown(i)')
    BY <2>3, <2>4
  <2> HIDE DEF Calling
  <2> QED
    BY <1>7, <2>1, <2>2, <2>5 DEF TurnEnds
<1>14. ASSUME NEW e, Retries(e) \/ HasRead(e) \/ HasMemo(e) \/ HasSubmission(e) PROVE UnknownInv'
  <2>1. /\ Added(e) /\ Sound(e) /\ e.kind \in TurnEnds /\ e.kind # "started" /\ e.att = attempt
        /\ ag.pc = "called" /\ attempt' = attempt /\ ag'.pc # "called"
        /\ (ag'.unknown \/ (e.kind = "completed" /\ e.used \in Nat))
    BY <1>14 DEF Retries, HasRead, HasMemo, HasSubmission, Completes, WritesOwn, Stays, AgentIs, TurnEnds, Sound
  <2>2. PICK l \in Calling : /\ log[l].att = attempt
                             /\ \A i \in Calling : i <= l /\ (i # l => UsageKnown(i))
    BY <1>2, <2>1
  <2>3. Top \in Answers(l)' /\ Calling' = Calling /\ log'[Top] = e
    BY <1>8, <2>1, <2>2
  <2>4. \A i \in Calling' : Answers(i)' # {}
    BY <1>4, <1>8, <2>1, <2>2, <2>3
  <2>5. ~ag'.unknown => \A i \in Calling' : UsageKnown(i)'
    <3>1. ~ag'.unknown => log'[Top].used # -1
      BY <2>1, <2>3
    <3>2. ~ag'.unknown => UsageKnown(l)'
      BY <2>3, <3>1 DEF UsageKnown, Unknown
    <3> QED
      BY <1>8, <2>1, <2>2, <2>3, <3>2
  <2>6. \A i \in Calling : log[i].att = e.att => Answers(i) # {} \/ \A j \in Calling : j <= i
    BY <1>4, <2>2
  <2> HIDE DEF Calling
  <2> QED
    BY <1>7, <2>1, <2>4, <2>5, <2>6
<1>15. ASSUME NEW e, CallsRead(e) \/ HasAnswer(e) \/ Rejects(e) PROVE UnknownInv'
  <2>1. /\ Added(e) /\ e.kind # "started" /\ e.kind \notin TurnEnds /\ attempt' = attempt
        /\ ag.pc \in {"reading", "read", "submitted"} /\ ag'.pc # "called"
        /\ ag'.unknown = ag.unknown
    BY <1>15 DEF CallsRead, HasAnswer, Rejects, WritesOwn, Stays, AgentIs, TurnEnds, Validates
  <2>2. Calling' = Calling /\ \A i \in Calling : (UsageKnown(i) => UsageKnown(i)')
        /\ (Answers(i) # {} => Answers(i)' # {}) /\ log'[i] = log[i]
    BY <1>3, <1>8, <2>1
  <2>3. InSession
    BY <2>1 DEF InSession
  <2> HIDE DEF Calling
  <2> QED
    BY <1>2, <1>7, <2>1, <2>2, <2>3
<1> QED
  BY <1>5, <1>6, <1>9, <1>10, <1>11, <1>12, <1>13, <1>14, <1>15 DEF TurnMoved

AsksReads(e) == e.kind = "completed" /\ e.reply.kind = "reads"
Answered == In(D, {"tool_completed", "tool_failed"})
ReadsAsked == SumFunctionOnSet(ReadsOf, ReadsIn(D))
\* Before a call every read has been answered, and the call says so.
ReadsAnswered(i) ==
  /\ SumFunctionOnSet(ReadsOf, {j \in ReadsIn(D) : j < i}) = Cardinality({j \in Answered : j < i})
  /\ \A j \in ReadsIn(D) :
       j < i /\ log[j].request.turn + 1 = log[i].request.turn => log[i].request.outputs = "reads"

LEMMA ReadsGrow ==
  ASSUME NEW e, Added(e)
  PROVE  /\ ReadsAsked \in Int /\ Cardinality(Answered) \in Nat
         /\ ReadsAsked' = ReadsAsked + (IF AsksReads(e) THEN e.reply.reads ELSE 0)
         /\ Cardinality(Answered)' = Cardinality(Answered)
              + (IF e.kind \in {"tool_completed", "tool_failed"} THEN 1 ELSE 0)
<1>1. /\ log \in Seq(EventSet) /\ ReadsIn(D) \in SUBSET D /\ Answered \in SUBSET D /\ Grown
      /\ Top \notin D
  BY InIsPart, AddedLog DEF Added, Answered
<1>2. ReadsAsked \in Int /\ Cardinality(Answered) \in Nat
  BY <1>1, SumOfLog, InIsFinite DEF ReadsAsked
<1>3. e.reply.reads \in Nat
  BY DEF Added, EventSet, ReplySet
<1>4. ReadsIn(D)' = ReadsIn(D) \cup (IF AsksReads(e) THEN {Top} ELSE {})
  BY AddedSets DEF AsksReads
<1>5. CASE AsksReads(e)
  <2>1. ReadsIn(D)' = ReadsIn(D) \cup {Top}
    BY <1>4, <1>5
  <2>2. SumFunctionOnSet(ReadsOf', ReadsIn(D) \cup {Top}) = e.reply.reads + ReadsAsked
    BY <1>1, AddedSums DEF ReadsAsked
  <2>3. ReadsAsked' = e.reply.reads + ReadsAsked
    BY <2>1, <2>2 DEF ReadsAsked
  <2> QED
    BY <1>2, <1>3, <1>5, <2>3, CountsGrow DEF Answered
<1>6. CASE ~AsksReads(e)
  <2>1. ReadsIn(D)' = ReadsIn(D)
    BY <1>4, <1>6
  <2>2. PICK S \in SUBSET D : S = ReadsIn(D)
    BY <1>1
  <2>3. SumFunctionOnSet(ReadsOf, S)' = SumFunctionOnSet(ReadsOf, S)
    BY <1>1, SumsGrow
  <2>4. ReadsAsked' = ReadsAsked
    BY <2>1, <2>2, <2>3 DEF ReadsAsked
  <2> QED
    BY <1>2, <1>6, <2>4, CountsGrow DEF Answered
<1> QED
  BY <1>5, <1>6

LEMMA AnsweredGrow ==
  ASSUME NEW e, Added(e)
  PROVE  /\ \A i \in In(D, {"started"}) : ReadsAnswered(i) => ReadsAnswered(i)'
         /\ (/\ e.kind = "started" /\ ReadsAsked = Cardinality(Answered)
             /\ \A j \in ReadsIn(D) :
                  log[j].request.turn + 1 = e.request.turn => e.request.outputs = "reads")
            => \A i \in {Top} : ReadsAnswered(i)'
<1>1. /\ log \in Seq(EventSet) /\ ReadsIn(D) \in SUBSET D /\ Answered \in SUBSET D /\ Grown
      /\ Top \notin D /\ log'[Top] = e /\ Top \in Nat
      /\ \A i \in D : log'[i] = log[i] /\ i < Top /\ i \in Nat
      /\ In(D, {"started"}) \subseteq D
  BY InIsPart, AddedLog DEF Added, Answered
<1>2. /\ ReadsIn(D)' = ReadsIn(D) \cup (IF AsksReads(e) THEN {Top} ELSE {})
      /\ Answered' = Answered \cup (IF e.kind \in {"tool_completed", "tool_failed"} THEN {Top} ELSE {})
  BY AddedSets, SetsOf DEF AsksReads, Answered
<1>3. \A S \in SUBSET D : SumFunctionOnSet(ReadsOf', S) = SumFunctionOnSet(ReadsOf, S)
  BY <1>1, SumsGrow
<1>4. ASSUME NEW i \in In(D, {"started"}), ReadsAnswered(i) PROVE ReadsAnswered(i)'
  <2>1. i \in D /\ i < Top /\ i \in Nat
    BY <1>1
  <2>2. {j \in ReadsIn(D)' : j < i} = {j \in ReadsIn(D) : j < i}
    BY <1>1, <1>2, <2>1
  <2>3. {j \in Answered' : j < i} = {j \in Answered : j < i}
    BY <1>1, <1>2, <2>1
  <2>4. SumFunctionOnSet(ReadsOf', {j \in ReadsIn(D)' : j < i}) = Cardinality({j \in Answered' : j < i})
    <3>1. {j \in ReadsIn(D) : j < i} \in SUBSET D
      BY <1>1
    <3>2. SumFunctionOnSet(ReadsOf, {j \in ReadsIn(D) : j < i}) = Cardinality({j \in Answered : j < i})
      BY <1>4 DEF ReadsAnswered
    <3> QED
      BY <1>3, <2>2, <2>3, <3>1, <3>2
  <2>5. ASSUME NEW j \in ReadsIn(D)', j < i, log'[j].request.turn + 1 = log'[i].request.turn
        PROVE  log'[i].request.outputs = "reads"
    <3>1. j \in ReadsIn(D)
      BY <2>2, <2>5
    <3> QED
      BY <1>1, <1>4, <2>1, <2>5, <3>1 DEF ReadsAnswered
  <2> QED
    BY <2>4, <2>5 DEF ReadsAnswered
<1>5. ASSUME e.kind = "started", ReadsAsked = Cardinality(Answered),
             \A j \in ReadsIn(D) :
               log[j].request.turn + 1 = e.request.turn => e.request.outputs = "reads",
             NEW i \in {Top}
      PROVE  ReadsAnswered(i)'
  <2>1. ReadsIn(D)' = ReadsIn(D) /\ Answered' = Answered
    BY <1>2, <1>5 DEF AsksReads
  <2>2. {j \in ReadsIn(D) : j < i} = ReadsIn(D) /\ {j \in Answered : j < i} = Answered
    BY <1>1, <1>5
  <2>3. SumFunctionOnSet(ReadsOf', {j \in ReadsIn(D)' : j < i}) = Cardinality({j \in Answered' : j < i})
    BY <1>1, <1>3, <1>5, <2>1, <2>2 DEF ReadsAsked
  <2>4. ASSUME NEW j \in ReadsIn(D)', j < i, log'[j].request.turn + 1 = log'[i].request.turn
        PROVE  log'[i].request.outputs = "reads"
    BY <1>1, <1>5, <2>1, <2>4
  <2> QED
    BY <2>3, <2>4 DEF ReadsAnswered
<1> QED
  BY <1>4, <1>5

\* ConversationInv in these words.
Turns ==
  /\ \A i \in In(D, {"completed"}), j \in In(D, {"started"}) :
       i < j => log[i].request.turn < log[j].request.turn
  /\ \A i \in In(D, {"started"}) : ReadsAnswered(i)
Onward ==
  /\ ag.pc \in {"loop", "called"} =>
       /\ \A i \in In(D, {"completed"}) : log[i].request.turn < ag.turn
       /\ \A i \in ReadsIn(D) : log[i].request.turn + 1 = ag.turn => ag.outputs = "reads"
  /\ ag.pc \in {"reading", "read", "submitted"} =>
       \A i \in In(D, {"completed"}) : log[i].request.turn <= ag.turn
  /\ ag.pc = "submitted" => \A i \in ReadsIn(D) : log[i].request.turn < ag.turn
  /\ InSession => ReadsAsked = Cardinality(Answered) + ToAnswer

LEMMA ConversationIs == ConversationInv <=> Turns /\ Onward
BY DEF ConversationInv, Turns, Onward, ReadsAnswered, ReadsAsked, Answered

LEMMA ConversationStep ==
  ASSUME TurnsTyped, AgentInv, EventsInv, ConversationInv, ResearchTurnsAssumption, TurnMoved
  PROVE  ConversationInv'
<1> DEFINE done == In(D, {"completed"})
<1>1. /\ log \in Seq(EventSet) /\ ag.turn \in Nat /\ ag.reads \in Nat /\ ag.outputs \in Feedback
      /\ \A i \in D : log[i].request.turn \in Nat
  <2>1. log \in Seq(EventSet) /\ ag \in AgentSet
    BY DEF TurnsTyped, LogTyped
  <2> QED
    BY <2>1, AgentFields, LogDomain DEF EventSet, RequestSet
<1>2. Turns /\ Onward
  BY ConversationIs
<1>3. done \subseteq D /\ ReadsIn(D) \subseteq done /\ In(D, {"started"}) \subseteq D
  BY InIsPart DEF ReadsIn
<1>4. (ConversationInv <=> Turns /\ Onward)'
  BY ConversationIs, PTL
<1>5. CASE log' = log
  <2>1. /\ In(D, {"completed"})' = In(D, {"completed"}) /\ In(D, {"started"})' = In(D, {"started"})
        /\ ReadsIn(D)' = ReadsIn(D) /\ Answered' = Answered /\ ReadsOf' = ReadsOf
    BY <1>5, LogSame DEF Answered
  <2>2. Turns' /\ ReadsAsked' = ReadsAsked
    BY <1>2, <1>5, <2>1 DEF Turns, ReadsAnswered, ReadsAsked
  <2>3. CASE WritesNothing
    <3>1. ag'.pc \in {"idle", "ending"}
      BY <2>3 DEF WritesNothing
    <3>2. Onward'
      BY <3>1 DEF Onward, InSession
    <3> QED
      BY <1>4, <2>2, <3>2
  <2>4. CASE Approves
    <3>1. ag'.pc = "accepted" /\ ag.pc = "submitted"
      BY <2>4 DEF Approves, AgentIs, Validates
    <3>2. ReadsAsked' = Cardinality(Answered)' + ToAnswer'
      BY <1>2, <2>1, <2>2, <3>1 DEF Onward, InSession, ToAnswer
    <3>3. Onward'
      BY <3>1, <3>2 DEF Onward
    <3> QED
      BY <1>4, <2>2, <3>3
  <2>5. ASSUME NEW e, Added(e) PROVE FALSE
    BY <1>5, <2>5, AddedLog, LogSame
  <2> QED
    BY <2>3, <2>4, <2>5 DEF TurnMoved, BeginsAgain, BeginsInVain, BeginsWith, Stops,
       WritesLate, Starts, Retries, HasRead, HasMemo, HasSubmission, Completes, CallsRead, HasAnswer,
       Rejects, WritesOwn
<1>6. ASSUME NEW e, Added(e)
      PROVE  /\ log'[Top] = e /\ \A k \in D : log'[k] = log[k] /\ k \in Nat /\ k < Top
             /\ Top \in Nat /\ Top \notin D
             /\ done' = done \cup (IF e.kind = "completed" THEN {Top} ELSE {})
             /\ ReadsIn(D)' = ReadsIn(D) \cup (IF AsksReads(e) THEN {Top} ELSE {})
             /\ In(D, {"started"})' = In(D, {"started"}) \cup (IF e.kind = "started" THEN {Top} ELSE {})
             /\ ReadsAsked \in Int /\ Cardinality(Answered) \in Nat
             /\ ReadsAsked' = ReadsAsked + (IF AsksReads(e) THEN e.reply.reads ELSE 0)
             /\ Cardinality(Answered)' = Cardinality(Answered)
                  + (IF e.kind \in {"tool_completed", "tool_failed"} THEN 1 ELSE 0)
  BY <1>6, AddedLog, AddedSets, SetsOf, ReadsGrow DEF AsksReads
<1>7. ASSUME NEW e, Added(e), Onward',
             e.kind = "started" =>
               /\ \A i \in done : log[i].request.turn < e.request.turn
               /\ ReadsAsked = Cardinality(Answered)
               /\ \A j \in ReadsIn(D) :
                    log[j].request.turn + 1 = e.request.turn => e.request.outputs = "reads"
      PROVE  ConversationInv'
  <2>1. \A i \in In(D, {"started"})' : ReadsAnswered(i)'
    <3>1. \A i \in In(D, {"started"}) : ReadsAnswered(i)'
      BY <1>2, <1>7, AnsweredGrow DEF Turns
    <3>2. CASE e.kind = "started"
      <4>1. \A i \in {Top} : ReadsAnswered(i)'
        BY <1>7, <3>2, AnsweredGrow
      <4> QED
        BY <1>6, <1>7, <3>1, <4>1
    <3>3. CASE e.kind # "started"
      BY <1>6, <1>7, <3>1, <3>3
    <3> QED
      BY <3>2, <3>3
  <2>2. ASSUME NEW i \in done', NEW j \in In(D, {"started"})', i < j
        PROVE  log'[i].request.turn < log'[j].request.turn
    <3>1. CASE j \in In(D, {"started"})
      <4>1. j \in D /\ j < Top
        BY <1>3, <1>6, <1>7, <3>1
      <4>2. i # Top
        BY <1>6, <1>7, <2>2, <4>1
      <4>3. i \in done
        BY <1>6, <1>7, <4>2
      <4> QED
        BY <1>2, <1>3, <1>6, <1>7, <2>2, <3>1, <4>1, <4>3 DEF Turns
    <3>2. CASE j \notin In(D, {"started"})
      <4>1. j = Top /\ e.kind = "started"
        BY <1>6, <1>7, <3>2
      <4>2. i \in done
        BY <1>6, <1>7, <4>1
      <4> QED
        BY <1>3, <1>6, <1>7, <4>1, <4>2
    <3> QED
      BY <3>1, <3>2
  <2>3. Turns'
    BY <2>1, <2>2 DEF Turns
  <2> QED
    BY <1>4, <1>7, <2>3
<1>8. ASSUME NEW e, BeginsAgain(e) PROVE ConversationInv'
  <2>1. PICK drifted \in BOOLEAN :
          LET c == AgentRecoveryCheckpoint(drifted)
          IN  Restores(c) /\ ag'.pc = "loop" /\ ag'.turn = c.turn /\ ag'.outputs = c.outputs
    BY <1>8 DEF BeginsAgain, AgentIs
  <2>2. /\ \A i \in In(D, {"completed"}) : log[i].request.turn < ag'.turn
        /\ \A i \in ReadsIn(D) : log[i].request.turn + 1 = ag'.turn => ag'.outputs = "reads"
        /\ ReadsAsked = Cardinality(Answered)
    BY <2>1, BeginRecalls DEF Recalled, ReadsAsked, Answered
  <2>3. Added(e) /\ e.kind = "begin"
    BY <1>8 DEF BeginsAgain, BeginsWith
  <2>4. /\ done' = done /\ ReadsIn(D)' = ReadsIn(D) /\ \A i \in D : log'[i] = log[i]
        /\ ReadsAsked' = Cardinality(Answered)' + 0
    <3>1. ReadsAsked' = ReadsAsked /\ Cardinality(Answered)' = Cardinality(Answered)
      BY <1>6, <2>3 DEF AsksReads
    <3>2. ReadsAsked \in Int /\ Cardinality(Answered) \in Nat
      BY <1>6, <2>3
    <3>3. done' = done /\ ReadsIn(D)' = ReadsIn(D) /\ \A i \in D : log'[i] = log[i]
      BY <1>6, <2>3 DEF AsksReads
    <3> QED
      BY <2>2, <3>1, <3>2, <3>3
  <2>5. ToAnswer' = 0
    BY <2>1 DEF ToAnswer
  <2>6. Onward'
    BY <1>3, <2>1, <2>2, <2>4, <2>5 DEF Onward
  <2> HIDE DEF done
  <2> QED
    BY <1>7, <2>3, <2>6
<1>9. ASSUME NEW e, BeginsInVain(e) \/ Stops(e) PROVE ConversationInv'
  <2>1. Added(e) /\ e.kind # "started" /\ ag'.pc \in {"idle", "ending"}
    BY <1>9 DEF BeginsInVain, BeginsWith, Stops, TurnEnds
  <2>2. Onward'
    BY <2>1 DEF Onward, InSession
  <2> HIDE DEF done
  <2> QED
    BY <1>7, <2>1, <2>2
<1>10. ASSUME NEW e, WritesLate(e) PROVE ConversationInv'
  <2>1. Added(e) /\ e.kind = "rejected" /\ ag' = ag
    BY <1>10 DEF WritesLate
  <2>2. /\ done' = done /\ ReadsIn(D)' = ReadsIn(D) /\ \A i \in D : log'[i] = log[i]
        /\ ReadsAsked' = ReadsAsked /\ Cardinality(Answered)' = Cardinality(Answered)
    <3>1. ReadsAsked' = ReadsAsked /\ Cardinality(Answered)' = Cardinality(Answered)
      BY <1>6, <2>1 DEF AsksReads
    <3>2. ReadsAsked \in Int /\ Cardinality(Answered) \in Nat
      BY <1>6, <2>1
    <3>3. done' = done /\ ReadsIn(D)' = ReadsIn(D) /\ \A i \in D : log'[i] = log[i]
      BY <1>6, <2>1 DEF AsksReads
    <3> QED
      BY <3>1, <3>3
  <2>3. InSession' = InSession /\ ToAnswer' = ToAnswer
    BY <2>1 DEF InSession, ToAnswer
  <2>4. Onward'
    BY <1>2, <1>3, <2>1, <2>2, <2>3 DEF Onward
  <2> HIDE DEF done
  <2> QED
    BY <1>7, <2>1, <2>4
<1>11. ASSUME NEW e, Starts(e) PROVE ConversationInv'
  <2>1. /\ Added(e) /\ e.kind = "started" /\ ag.pc = "loop" /\ ag'.pc = "called"
        /\ e.request = Request /\ ag'.turn = ag.turn /\ ag'.outputs = ag.outputs
    BY <1>11 DEF Starts, WritesOwn, AgentIs
  <2>2. e.request.turn = ag.turn /\ (ag.outputs = "reads" => e.request.outputs = "reads")
    BY <2>1, RequestTyped
  <2>3. /\ \A i \in done : log[i].request.turn < ag.turn
        /\ \A i \in ReadsIn(D) : log[i].request.turn + 1 = ag.turn => ag.outputs = "reads"
        /\ ReadsAsked = Cardinality(Answered) + 0
    BY <1>2, <2>1 DEF Onward, InSession, ToAnswer
  <2>4. /\ done' = done /\ ReadsIn(D)' = ReadsIn(D) /\ \A i \in D : log'[i] = log[i]
        /\ ReadsAsked' = Cardinality(Answered)' + 0 /\ ReadsAsked = Cardinality(Answered)
    <3>1. ReadsAsked' = ReadsAsked /\ Cardinality(Answered)' = Cardinality(Answered)
      BY <1>6, <2>1 DEF AsksReads
    <3>2. ReadsAsked \in Int /\ Cardinality(Answered) \in Nat
      BY <1>6, <2>1
    <3>3. done' = done /\ ReadsIn(D)' = ReadsIn(D) /\ \A i \in D : log'[i] = log[i]
      BY <1>6, <2>1 DEF AsksReads
    <3> QED
      BY <2>3, <3>1, <3>2, <3>3
  <2>5. ToAnswer' = 0
    BY <2>1 DEF ToAnswer
  <2>6. Onward'
    BY <1>3, <2>1, <2>3, <2>4, <2>5 DEF Onward
  <2> HIDE DEF done
  <2> QED
    BY <1>7, <2>1, <2>2, <2>3, <2>4, <2>6
<1>12. ASSUME NEW e, Retries(e) PROVE ConversationInv'
  <2>1. /\ Added(e) /\ e.kind = "failed" /\ ag.pc = "called" /\ ag'.pc = "loop"
        /\ ag'.turn = ag.turn /\ ag'.outputs = ag.outputs
    BY <1>12 DEF Retries, WritesOwn, AgentIs
  <2>2. ReadsAsked = Cardinality(Answered) + 0
    BY <1>2, <2>1 DEF Onward, InSession, ToAnswer
  <2>3. /\ done' = done /\ ReadsIn(D)' = ReadsIn(D) /\ \A i \in D : log'[i] = log[i]
        /\ ReadsAsked' = Cardinality(Answered)' + 0
    BY <1>6, <2>1, <2>2 DEF AsksReads
  <2>4. ToAnswer' = 0
    BY <2>1 DEF ToAnswer
  <2>5. Onward'
    BY <1>2, <1>3, <2>1, <2>3, <2>4 DEF Onward
  <2> HIDE DEF done
  <2> QED
    BY <1>7, <2>1, <2>5
<1>13. ASSUME NEW e, HasRead(e) \/ HasMemo(e) \/ HasSubmission(e) PROVE ConversationInv'
  <2>1. /\ Added(e) /\ e.kind = "completed" /\ ag.pc = "called" /\ e.request.turn = ag.turn
    BY <1>13 DEF HasRead, HasMemo, HasSubmission, Completes, WritesOwn, AgentInv
  <2>2. ReadsAsked = Cardinality(Answered) + 0 /\ \A i \in done : log[i].request.turn < ag.turn
    BY <1>2, <2>1 DEF Onward, InSession, ToAnswer
  <2>3. /\ done' = done \cup {Top} /\ log'[Top] = e /\ \A i \in D : log'[i] = log[i]
        /\ ReadsIn(D)' = ReadsIn(D) \cup (IF AsksReads(e) THEN {Top} ELSE {})
        /\ ReadsAsked' = Cardinality(Answered)' + (IF AsksReads(e) THEN e.reply.reads ELSE 0)
    <3>1. Cardinality(Answered)' = Cardinality(Answered)
      BY <1>6, <2>1
    <3> QED
      BY <1>6, <2>1, <2>2, <3>1
  <2>4. \A i \in done' : log'[i].request.turn <= ag.turn
    BY <1>1, <1>3, <2>1, <2>2, <2>3
  <2>5. CASE HasRead(e)
    <3>1. ag'.pc = "reading" /\ ag'.turn = ag.turn /\ ag'.reads = e.reply.reads /\ AsksReads(e)
      BY <2>5 DEF HasRead, Completes, AgentIs, AsksReads
    <3>2. ToAnswer' = e.reply.reads
      BY <3>1 DEF ToAnswer
    <3>3. Onward'
      BY <2>3, <2>4, <3>1, <3>2 DEF Onward
    <3> HIDE DEF done
    <3> QED
      BY <1>7, <2>1, <3>3
  <2>6. CASE HasMemo(e)
    <3>1. ag'.pc = "loop" /\ ag'.turn = ag.turn + 1 /\ ~AsksReads(e)
      BY <2>6 DEF HasMemo, Completes, AgentIs, AsksReads
    <3>2. ToAnswer' = 0 /\ ReadsIn(D)' = ReadsIn(D)
      BY <2>3, <3>1 DEF ToAnswer
    <3>3. \A i \in done' : log'[i].request.turn < ag'.turn
      BY <1>1, <1>3, <2>1, <2>3, <2>4, <3>1
    <3>4. \A i \in ReadsIn(D)' : log'[i].request.turn + 1 # ag'.turn
      BY <1>1, <1>3, <2>2, <2>3, <3>1, <3>2
    <3>5. Onward'
      BY <2>3, <3>1, <3>2, <3>3, <3>4 DEF Onward
    <3> HIDE DEF done
    <3> QED
      BY <1>7, <2>1, <3>5
  <2>7. CASE HasSubmission(e)
    <3>1. ag'.pc = "submitted" /\ ag'.turn = ag.turn /\ ~AsksReads(e)
      BY <2>7 DEF HasSubmission, Completes, AgentIs, AsksReads
    <3>2. ToAnswer' = 0 /\ ReadsIn(D)' = ReadsIn(D)
      BY <2>3, <3>1 DEF ToAnswer
    <3>3. \A i \in ReadsIn(D)' : log'[i].request.turn < ag'.turn
      BY <1>3, <2>2, <2>3, <3>1, <3>2
    <3>4. Onward'
      BY <2>3, <2>4, <3>1, <3>2, <3>3 DEF Onward
    <3> HIDE DEF done
    <3> QED
      BY <1>7, <2>1, <3>4
  <2> QED
    BY <1>13, <2>5, <2>6, <2>7
<1>14. ASSUME NEW e, CallsRead(e) PROVE ConversationInv'
  <2>1. /\ Added(e) /\ e.kind = "tool_called" /\ ag.pc = "reading" /\ ag'.pc = "read"
        /\ ag'.turn = ag.turn /\ ag'.reads = ag.reads
    BY <1>14 DEF CallsRead, WritesOwn, AgentIs
  <2>2. ReadsAsked = Cardinality(Answered) + ag.reads
    BY <1>2, <2>1 DEF Onward, InSession, ToAnswer
  <2>3. /\ done' = done /\ ReadsIn(D)' = ReadsIn(D) /\ \A i \in D : log'[i] = log[i]
        /\ ReadsAsked' = Cardinality(Answered)' + ag.reads
    <3>1. ReadsAsked' = ReadsAsked /\ Cardinality(Answered)' = Cardinality(Answered)
      BY <1>6, <2>1 DEF AsksReads
    <3>2. ReadsAsked \in Int /\ Cardinality(Answered) \in Nat
      BY <1>6, <2>1
    <3>3. done' = done /\ ReadsIn(D)' = ReadsIn(D) /\ \A i \in D : log'[i] = log[i]
      BY <1>6, <2>1 DEF AsksReads
    <3> QED
      BY <2>2, <3>1, <3>2, <3>3
  <2>4. ToAnswer' = ag.reads
    BY <2>1 DEF ToAnswer
  <2>5. Onward'
    BY <1>2, <1>3, <2>1, <2>3, <2>4 DEF Onward
  <2> HIDE DEF done
  <2> QED
    BY <1>7, <2>1, <2>5
<1>15. ASSUME NEW e, HasAnswer(e) PROVE ConversationInv'
  <2>1. /\ Added(e) /\ e.kind \in {"tool_completed", "tool_failed"} /\ ag.pc = "read"
        /\ IF ag.reads > 1
           THEN ag'.pc = "reading" /\ ag'.turn = ag.turn /\ ag'.reads = ag.reads - 1
           ELSE ag'.pc = "loop" /\ ag'.turn = ag.turn + 1 /\ ag'.outputs = "reads"
    BY <1>15 DEF HasAnswer, WritesOwn, AgentIs
  <2>2. /\ ReadsAsked = Cardinality(Answered) + ag.reads /\ ag.reads >= 1
        /\ \A i \in done : log[i].request.turn <= ag.turn
    BY <1>2, <2>1 DEF Onward, InSession, ToAnswer, AgentInv
  <2>3. /\ done' = done /\ ReadsIn(D)' = ReadsIn(D) /\ \A i \in D : log'[i] = log[i]
        /\ ReadsAsked' = Cardinality(Answered)' + (ag.reads - 1)
    <3>1. ReadsAsked' = ReadsAsked /\ Cardinality(Answered)' = Cardinality(Answered) + 1
      BY <1>6, <2>1 DEF AsksReads
    <3>2. ReadsAsked \in Int /\ Cardinality(Answered) \in Nat
      BY <1>6, <2>1
    <3>3. done' = done /\ ReadsIn(D)' = ReadsIn(D) /\ \A i \in D : log'[i] = log[i]
      BY <1>6, <2>1 DEF AsksReads
    <3> QED
      BY <1>1, <2>2, <3>1, <3>2, <3>3
  <2>4. ToAnswer' = ag.reads - 1
    BY <1>1, <2>1, <2>2 DEF ToAnswer
  <2>5. CASE ag.reads > 1
    <3>1. Onward'
      BY <1>3, <2>1, <2>2, <2>3, <2>4, <2>5 DEF Onward
    <3> HIDE DEF done
    <3> QED
      BY <1>7, <2>1, <3>1
  <2>6. CASE ~ (ag.reads > 1)
    <3>1. \A i \in done' : log'[i].request.turn < ag'.turn
      BY <1>1, <1>3, <2>1, <2>2, <2>3, <2>6
    <3>2. Onward'
      BY <2>1, <2>3, <2>4, <2>6, <3>1 DEF Onward
    <3> HIDE DEF done
    <3> QED
      BY <1>7, <2>1, <3>2
  <2> QED
    BY <2>5, <2>6
<1>16. ASSUME NEW e, Rejects(e) PROVE ConversationInv'
  <2>1. /\ Added(e) /\ e.kind = "rejected" /\ ag.pc = "submitted" /\ ag'.pc = "loop"
        /\ ag'.turn = ag.turn + 1
    BY <1>16 DEF Rejects, WritesOwn, AgentIs, Validates
  <2>2. /\ ReadsAsked = Cardinality(Answered) + 0
        /\ \A i \in done : log[i].request.turn <= ag.turn
        /\ \A i \in ReadsIn(D) : log[i].request.turn < ag.turn
    BY <1>2, <2>1 DEF Onward, InSession, ToAnswer
  <2>3. /\ done' = done /\ ReadsIn(D)' = ReadsIn(D) /\ \A i \in D : log'[i] = log[i]
        /\ ReadsAsked' = Cardinality(Answered)' + 0
    BY <1>6, <2>1, <2>2 DEF AsksReads
  <2>4. ToAnswer' = 0
    BY <2>1 DEF ToAnswer
  <2>5. \A i \in done' : log'[i].request.turn < ag'.turn
    BY <1>1, <1>3, <2>1, <2>2, <2>3
  <2>6. \A i \in ReadsIn(D)' : log'[i].request.turn + 1 # ag'.turn
    BY <1>1, <1>3, <2>1, <2>2, <2>3
  <2>7. Onward'
    BY <2>1, <2>3, <2>4, <2>5, <2>6 DEF Onward
  <2> HIDE DEF done
  <2> QED
    BY <1>7, <2>1, <2>7
<1>17. CASE WritesNothing \/ Approves
  BY <1>5, <1>17 DEF WritesNothing, Approves
<1> QED
  BY <1>8, <1>9, <1>10, <1>11, <1>12, <1>13, <1>14, <1>15, <1>16, <1>17 DEF TurnMoved

----
\* The theorems.

TurnsInv ==
  /\ TurnsTyped /\ AgentInv /\ EventsInv /\ TokensInv /\ ToolsInv /\ SubsInv
  /\ UnknownInv /\ ConversationInv

LEMMA NothingLogged ==
  ASSUME log = <<>>
  PROVE  /\ D = {} /\ \A K : In(D, K) = {}
         /\ ReadsIn(D) = {} /\ SubmissionsIn(D) = {}
<1>1. D = {}
  BY DEF D
<1> QED
  BY <1>1 DEF In, ReadsIn, SubmissionsIn

LEMMA InitInv ==
  ASSUME ResearchTurnsAssumption, TurnsInit
  PROVE  TurnsInv
<1> USE DEF TurnsInit
<1>1. /\ D = {} /\ \A K : In(D, K) = {}
      /\ ReadsIn(D) = {} /\ SubmissionsIn(D) = {}
  BY NothingLogged
<1>2. TurnAttempts \in Nat \ {0} /\ MaxTools \in Nat /\ TurnFaults \in Nat
  BY DEF ResearchTurnsAssumption
<1>3. ag.pc = "idle" /\ ag \in AgentSet /\ ~InSession
  BY DEF NoAgent, AgentSet, InSession, RequestSet, NoRequest, Phases, Feedback
<1>4. TurnsTyped
  <2>1. TaskTyped
    BY <1>2, <1>3 DEF TaskTyped
  <2>2. LogTyped
    BY <1>1 DEF LogTyped, D
  <2> QED
    BY <1>3, <2>1, <2>2 DEF TurnsTyped, LateTyped
<1>5. Cardinality({}) = 0
  BY FS_EmptySet
<1>6. AgentInv /\ EventsInv
  BY <1>1, <1>3 DEF AgentInv, EventsInv
<1>7. TokensInv
  BY <1>1, <1>3 DEF TokensInv
<1>8. ToolsInv /\ SubsInv
  <2>1. ToolLimit \in Nat
    BY <1>2 DEF ToolLimit
  <2>2. Cardinality(In(D, {"tool_called"})) = 0 /\ Cardinality(SubmissionsIn(D)) = 0
    BY <1>1, <1>5
  <2>3. ToolsInv
    BY <1>3, <2>1, <2>2 DEF ToolsInv
  <2>4. SubsInv
    BY <1>2, <1>3, <2>2 DEF SubsInv
  <2> QED
    BY <2>3, <2>4
<1>9. UnknownInv
  BY <1>1, <1>3 DEF UnknownInv, NoCallAfterUnknown, D
<1>10. ConversationInv
  BY <1>1, <1>3 DEF ConversationInv
<1> QED
  BY <1>4, <1>6, <1>7, <1>8, <1>9, <1>10 DEF TurnsInv

LEMMA StutterInv ==
  ASSUME TurnsInv, UNCHANGED turnVars
  PROVE  TurnsInv'
<1>1. /\ protocol' = protocol /\ task' = task /\ attempt' = attempt /\ spent' = spent /\ log' = log
      /\ ag' = ag /\ late' = late /\ output' = output /\ turnFaults' = turnFaults
  BY DEF turnVars
<1>2. /\ D' = D /\ \A K : In(D, K)' = In(D, K)
      /\ ReadsIn(D)' = ReadsIn(D) /\ SubmissionsIn(D)' = SubmissionsIn(D)
      /\ Charged' = Charged /\ ReadsOf' = ReadsOf
      /\ \A i : Answers(i)' = Answers(i)
      /\ NoCallAfterUnknown' = NoCallAfterUnknown
  BY <1>1, LogSame
<1> USE DEF TurnsInv
<1>3. TurnsTyped'
  BY <1>1 DEF TurnsTyped, TaskTyped, LogTyped, LateTyped, D
<1>4. AgentInv'
  BY <1>1 DEF AgentInv, InSession
<1>5. EventsInv' /\ TokensInv' /\ ToolsInv' /\ SubsInv'
  BY <1>1, <1>2 DEF EventsInv, TokensInv, ToolsInv, SubsInv, InSession, ToCall, ToolLimit
<1>6. UnknownInv'
  BY <1>1, <1>2 DEF UnknownInv, InSession, UsageKnown
<1>7. ConversationInv'
  BY <1>1, <1>2 DEF ConversationInv, InSession, ToAnswer
<1> QED
  BY <1>3, <1>4, <1>5, <1>6, <1>7

\* The invariant holds of every Task.
LEMMA TurnsAlways ==
  ASSUME ResearchTurnsAssumption
  PROVE  TurnsSpec => []TurnsInv
<1>1. TurnsInit => TurnsInv
  BY InitInv
<1>2. TurnsInv /\ [TurnsNext]_turnVars => TurnsInv'
  <2> SUFFICES ASSUME TurnsInv, [TurnsNext]_turnVars PROVE TurnsInv'
    OBVIOUS
  <2>1. CASE UNCHANGED turnVars
    BY <2>1, StutterInv
  <2>2. CASE TurnsNext
    <3>1. /\ TurnsTyped /\ AgentInv /\ EventsInv /\ TokensInv /\ ToolsInv /\ SubsInv
          /\ UnknownInv /\ ConversationInv
      BY DEF TurnsInv
    <3>2. TurnMoved
      BY <2>2, <3>1, NextMovesTurn
    <3>3. TurnsTyped' /\ AgentInv' /\ EventsInv'
      BY <2>2, <3>1, <3>2, TurnsTypedStep, AgentStep, EventsStep
    <3>4. TokensInv' /\ ToolsInv' /\ SubsInv'
      BY <3>1, <3>2, TokensStep, ToolsStep, SubsStep
    <3>5. UnknownInv' /\ ConversationInv'
      BY <3>1, <3>2, UnknownStep, ConversationStep
    <3> QED
      BY <3>3, <3>4, <3>5 DEF TurnsInv
  <2> QED
    BY <2>1, <2>2
<1> QED
  BY <1>1, <1>2, PTL DEF TurnsSpec

\* What the properties call events, in the words of the invariant.
LEMMA InTheseWords ==
  ASSUME log \in Seq(EventSet)
  PROVE  /\ Submissions = SubmissionsIn(D)
         /\ {i \in D : Is(i, "tool_called")} = In(D, {"tool_called"})
         /\ \A i \in D : Is(i, "started") => i \in In(D, {"started"})
         /\ \A i \in D :
              Before(i, "completed") \cup Before(i, "failed") = {j \in In(D, TurnEnds) : j < i}
         /\ \A i \in D :
              {j \in Before(i, "completed") : log[j].reply.kind = "reads"} = {j \in ReadsIn(D) : j < i}
         /\ \A i \in D :
              Before(i, "tool_completed") \cup Before(i, "tool_failed") = {j \in Answered : j < i}
<1>1. Submissions = SubmissionsIn(D) /\ {i \in D : Is(i, "tool_called")} = In(D, {"tool_called"})
  BY DEF Submissions, SubmissionsIn, In, Is, D
<1>2. \A i \in D : Is(i, "started") => i \in In(D, {"started"})
  BY DEF Is, In
<1>3. \A kind : \A i \in D : Before(i, kind) = {j \in In(D, {kind}) : j < i}
  BY BeforeIs
<1>4. ASSUME NEW i \in D
      PROVE  Before(i, "completed") \cup Before(i, "failed") = {j \in In(D, TurnEnds) : j < i}
  BY <1>3 DEF In, TurnEnds
<1>5. ASSUME NEW i \in D
      PROVE  {j \in Before(i, "completed") : log[j].reply.kind = "reads"} = {j \in ReadsIn(D) : j < i}
  BY <1>3 DEF ReadsIn
<1>6. ASSUME NEW i \in D
      PROVE  Before(i, "tool_completed") \cup Before(i, "tool_failed") = {j \in Answered : j < i}
  BY <1>3 DEF In, Answered
<1> QED
  BY <1>1, <1>2, <1>4, <1>5, <1>6

\* No retry, crash or lost run log buys a Task more tokens, reads or
\* submissions than its contract has: the allowance bounds all attempts
\* together, whatever each of them believed when it began.
THEOREM AllowanceAlways == ResearchTurnsAssumption => (TurnsSpec => []AllowanceHolds)
<1> SUFFICES ASSUME ResearchTurnsAssumption PROVE TurnsSpec => []AllowanceHolds
  OBVIOUS
<1>1. TurnsInv => AllowanceHolds
  <2> SUFFICES ASSUME TurnsInv PROVE AllowanceHolds
    OBVIOUS
  <2>1. TaskTyped /\ LogTyped /\ ag \in AgentSet /\ log \in Seq(EventSet)
    BY DEF TurnsInv, TurnsTyped, LogTyped
  <2>2. TurnsTypeOK
    <3>1. /\ ag.pc \in {"idle", "loop", "called", "reading", "read", "submitted", "accepted", "ending"}
          /\ ag.end \in {"none", "retry", "fail", "defer"} /\ ag.phase \in Phases
          /\ ag.outputs \in Feedback
          /\ ag.last \in Results \cup {"none"} /\ ag.result \in Results \cup {"none"}
      BY <2>1 DEF AgentSet
    <3>2. \A i \in DOMAIN log : log[i].att \in 1 .. attempt
      BY <2>1 DEF LogTyped, D
    <3> QED
      BY <2>1, <3>1, <3>2 DEF TurnsTypeOK, TaskTyped
  <2>3. Cardinality(Submissions) <= TurnAttempts + attempt - 1
    BY <2>1, InTheseWords DEF TurnsInv, SubsInv
  <2>4. Cardinality({i \in DOMAIN log : Is(i, "tool_called")}) <= ToolLimit
    BY <2>1, InTheseWords DEF TurnsInv, ToolsInv, D
  <2>5. ASSUME NEW i \in DOMAIN log, Is(i, "started")
        PROVE  SumFunctionOnSet([j \in DOMAIN log |-> Max({log[j].used, 0})],
                                Before(i, "completed") \cup Before(i, "failed"))
                 + log[i].request.cap <= MaxOutput
    <3>1. i \in D /\ i \in In(D, {"started"})
      BY <2>1, <2>5, InTheseWords DEF D
    <3>2. Before(i, "completed") \cup Before(i, "failed") = {j \in In(D, TurnEnds) : j < i}
      BY <2>1, <3>1, InTheseWords
    <3>3. [j \in DOMAIN log |-> Max({log[j].used, 0})] = Charged
      BY Zenon DEF Charged, D
    <3>4. SumFunctionOnSet(Charged, {j \in In(D, TurnEnds) : j < i}) + log[i].request.cap <= MaxOutput
      BY <3>1 DEF TurnsInv, TokensInv
    <3> QED
      BY <3>2, <3>3, <3>4
  <2> QED
    BY <2>2, <2>3, <2>4, <2>5 DEF AllowanceHolds
<1> QED
  BY <1>1, TurnsAlways, PTL

\* No provider is called, by any attempt, after a call of the Task whose usage
\* is not known: not one that failed without a count, not one that a crash cut
\* off, not one whose answer came from an attempt that had been given up.
THEOREM UnknownStops == ResearchTurnsAssumption => (TurnsSpec => []NoCallAfterUnknown)
<1> SUFFICES ASSUME ResearchTurnsAssumption PROVE TurnsSpec => []NoCallAfterUnknown
  OBVIOUS
<1>1. TurnsInv => NoCallAfterUnknown
  BY DEF TurnsInv, UnknownInv
<1> QED
  BY <1>1, TurnsAlways, PTL

\* However often a Task is taken up again, its conversation is one line: no
\* completed turn is asked twice, and no answer to a read is left out.
THEOREM OneLine == ResearchTurnsAssumption => (TurnsSpec => []OneConversation)
<1> SUFFICES ASSUME ResearchTurnsAssumption PROVE TurnsSpec => []OneConversation
  OBVIOUS
<1>1. TurnsInv => OneConversation
  <2> SUFFICES ASSUME TurnsInv PROVE OneConversation
    OBVIOUS
  <2>1. log \in Seq(EventSet) /\ Turns
    BY ConversationIs DEF TurnsInv, TurnsTyped, LogTyped
  <2>2. ASSUME NEW i \in DOMAIN log, NEW j \in DOMAIN log,
               Is(i, "completed"), Is(j, "started"), i < j
        PROVE  log[i].request.turn < log[j].request.turn
    BY <2>1, <2>2 DEF Turns, In, Is, D
  <2>3. ASSUME NEW i \in DOMAIN log, Is(i, "started")
        PROVE  LET asked == {j \in Before(i, "completed") : log[j].reply.kind = "reads"}
                   done == Before(i, "tool_completed") \cup Before(i, "tool_failed")
               IN  /\ SumFunctionOnSet([j \in DOMAIN log |-> log[j].reply.reads], asked)
                        = Cardinality(done)
                   /\ (asked # {} /\ log[i].request.turn = log[Max(asked)].request.turn + 1)
                        => log[i].request.outputs = "reads"
    <3> DEFINE asked == {j \in Before(i, "completed") : log[j].reply.kind = "reads"}
               done == Before(i, "tool_completed") \cup Before(i, "tool_failed")
    <3>1. i \in D /\ i \in In(D, {"started"})
      BY <2>1, <2>3, InTheseWords DEF D
    <3>2. asked = {j \in ReadsIn(D) : j < i} /\ done = {j \in Answered : j < i}
      BY <2>1, <3>1, InTheseWords
    <3>3. [j \in DOMAIN log |-> log[j].reply.reads] = ReadsOf
      BY Zenon DEF ReadsOf, D
    <3>4. ReadsAnswered(i)
      BY <2>1, <3>1 DEF Turns
    <3> HIDE DEF asked, done
    <3>5. SumFunctionOnSet(ReadsOf, asked) = Cardinality(done)
      BY <3>2, <3>4 DEF ReadsAnswered
    <3>6. ASSUME asked # {}, log[i].request.turn = log[Max(asked)].request.turn + 1
          PROVE  log[i].request.outputs = "reads"
      <4>1. D = 1 .. Len(log) /\ Len(log) \in Nat /\ ReadsIn(D) \subseteq D
        BY <2>1, LogDomain, InIsPart
      <4>2. asked \in SUBSET (0 .. Len(log))
        BY <3>2, <4>1
      <4>3. Max(asked) \in asked
        BY <3>6, <4>1, <4>2, MaxIsGreatest
      <4>4. Max(asked) \in ReadsIn(D) /\ Max(asked) < i
        BY <3>2, <4>3
      <4> QED
        BY <3>4, <3>6, <4>4 DEF ReadsAnswered
    <3> QED
      BY <3>3, <3>5, <3>6 DEF asked, done
  <2> QED
    BY <2>2, <2>3 DEF OneConversation
<1> QED
  BY <1>1, TurnsAlways, PTL

----
\* What a replay hears of the rejections.

Rejections == In(D, {"rejected"})

\* The rejections that the next turn is to answer.
OpenIn(S) == {k \in In(S, {"rejected"}) : \A s \in SubmissionsIn(S) : Comes(s, k)}
Voice(S, c) ==
  /\ c.expect = NoReads /\ c.phase = "Submit"
  /\ OpenIn(S) = {} => c.outputs = "none"
  /\ OpenIn(S) # {} => \E k \in OpenIn(S) : c.outputs = log[k].detail

LEMMA VoiceStep ==
  ASSUME log \in Seq(EventSet), NEW T \in SUBSET D, NEW x \in D \ T, \A i \in T : Comes(i, x),
         NEW c \in CheckpointSet, Voice(T, c), c.subs = Cardinality(SubmissionsIn(T)),
         NEW n \in CheckpointSet, Hears(c, log[x], n), Sound(log[x])
  PROVE  Voice(T \cup {x}, n)
<1> DEFINE e == log[x]
           S == T \cup {x}
<1>0. e \in EventSet /\ Hears(c, e, n) /\ x \in D
  BY LogDomain
<1>1. In(S, {"rejected"}) = In(T, {"rejected"}) \cup (IF e.kind = "rejected" THEN {x} ELSE {})
  BY DEF In
<1>2. SubmissionsIn(S) = SubmissionsIn(T) \cup (IF IsSubmission(e) THEN {x} ELSE {})
  BY DEF In, SubmissionsIn, IsSubmission
<1>3. In(T, {"rejected"}) \subseteq T /\ SubmissionsIn(T) \subseteq T
  BY DEF SubmissionsIn, In
<1>4. Comes(x, x) /\ \A i \in T : Comes(i, x) /\ ~Comes(x, i)
  BY ComesOrders
<1>5. log[x].detail = e.detail
  OBVIOUS
<1> HIDE DEF e
<1>6. c.expect = NoReads /\ c.phase = "Submit"
      /\ c.expect.asked = 0 /\ c.expect.called = 0 /\ c.expect.done = 0
  BY DEF Voice, NoReads
<1>7. CASE HearsStarted(c, e, n) \/ HearsFailed(c, e, n) \/ HearsNothing(c, e, n)
  <2>1. n.outputs = c.outputs /\ n.expect = c.expect /\ n.phase = c.phase
    BY <1>7 DEF HearsStarted, HearsFailed, HearsNothing, CheckpointSet
  <2>2. ~IsSubmission(e) /\ e.kind # "rejected"
    BY <1>7 DEF HearsStarted, HearsFailed, HearsNothing, IsSubmission
  <2>3. OpenIn(S) = OpenIn(T)
    BY <1>1, <1>2, <2>2 DEF OpenIn
  <2> QED
    BY <1>6, <2>1, <2>3 DEF Voice
<1>8. CASE HearsSubmission(c, e, n)
  <2>1. n.outputs = "none" /\ n.expect = c.expect /\ n.phase = c.phase
    BY <1>8 DEF HearsSubmission, Said, CheckpointSet
  <2>2. IsSubmission(e) /\ e.kind # "rejected"
    BY <1>6, <1>8 DEF HearsSubmission, IsSubmission, Continues
  <2>3. OpenIn(S) = {}
    BY <1>1, <1>2, <1>3, <1>4, <2>2 DEF OpenIn
  <2> QED
    BY <1>6, <2>1, <2>3 DEF Voice
<1>9. CASE HearsRejection(c, e, n)
  <2>1. e.kind = "rejected" /\ ~IsSubmission(e) /\ e.detail # "none"
    BY <1>9 DEF HearsRejection, IsSubmission, Sound, Verdicts, e
  <2>2. SubmissionsIn(S) = SubmissionsIn(T)
    BY <1>2, <2>1
  <2>3. x \in OpenIn(S) /\ OpenIn(T) \subseteq OpenIn(S)
    BY <1>1, <1>3, <1>4, <2>1, <2>2 DEF OpenIn
  <2>4. CASE c.outputs = "none"
    <3>1. n = [c EXCEPT !.outputs = e.detail]
      BY <1>6, <1>9, <2>4 DEF HearsRejection
    <3>2. n.outputs = e.detail /\ n.expect = c.expect /\ n.phase = c.phase
      BY <3>1 DEF CheckpointSet
    <3> QED
      BY <1>5, <1>6, <2>3, <3>2 DEF Voice
  <2>5. CASE c.outputs # "none"
    <3>1. n = c
      BY <1>9, <2>5 DEF HearsRejection
    <3> QED
      BY <2>3, <2>5, <3>1 DEF Voice
  <2> QED
    BY <2>4, <2>5
<1>10. ~HearsReads(c, e, n) /\ ~HearsMemo(c, e, n) /\ ~HearsCall(c, e, n) /\ ~HearsAnswer(c, e, n)
  BY <1>6 DEF HearsReads, HearsMemo, HearsCall, HearsAnswer
<1> QED
  BY <1>0, <1>7, <1>8, <1>9, <1>10 DEF Hears

\* A research Task is told of a rejection as long as it has not answered it.
LEMMA VoiceHolds ==
  ASSUME protocol = "research", log \in Seq(EventSet),
         \A i \in D : Sound(log[i]), NEW S \in SUBSET D, Replayed(S).ok
  PROVE  Voice(S, Replayed(S))
<1> DEFINE Fine(T) == Replayed(T).ok => Voice(T, Replayed(T))
           Bad == {T \in SUBSET S : ~Fine(T)}
<1> SUFFICES ASSUME Bad # {} PROVE FALSE
  OBVIOUS
<1>1. PICK T \in Bad : \A U \in SUBSET T : U # T => U \notin Bad
  <2> HIDE DEF Bad
  <2>1. Bad \in SUBSET SUBSET S /\ IsFiniteSet(S)
    BY InIsFinite DEF Bad
  <2> QED
    BY <2>1, SmallestSubset
<1>2. T \in SUBSET D /\ ~Fine(T) /\ protocol \in {"research", "outcome"}
  OBVIOUS
<1>3. T # {}
  <2>1. CASE T = {}
    <3>1. Replayed(T) = FreshCheckpoint
      BY <1>2, <2>1, ReplayEquation
    <3>2. OpenIn({}) = {}
      BY DEF OpenIn, In
    <3>3. Voice(T, FreshCheckpoint)
      BY <2>1, <3>2 DEF Voice, FreshCheckpoint, InitialPhase
    <3> QED
      BY <1>2, <3>1, <3>3
  <2> QED
    BY <2>1
<1> DEFINE x == Newest(T)
           U == Older(T)
           c == Replayed(U)
           n == Replayed(T)
<1>4. /\ x \in T /\ x \notin U /\ U \in SUBSET D /\ T = U \cup {x} /\ x \in D \ U
      /\ \A i \in U : Comes(i, x)
  BY <1>2, <1>3, NewestIs DEF Older
<1>5. Fine(U)
  BY <1>1, <1>4
<1>6. n = Fold(c, log[x])
  BY <1>2, <1>3, ReplayEquation
<1>7. log[x] \in EventSet /\ Sound(log[x])
  BY <1>4, LogDomain
<1>8. /\ c \in CheckpointSet /\ n \in CheckpointSet /\ (c.ok => Ledger(U, c))
      /\ (c.ok => Voice(U, c))
  BY <1>2, <1>4, <1>5, LedgerHolds
<1> HIDE DEF x, U, c, n, Fine, Bad
<1>9. ASSUME n.ok PROVE Voice(T, n)
  <2>1. c.ok
    BY <1>6, <1>9 DEF Fold
  <2>2. Ledger(U, c) /\ Waiting(c) /\ Voice(U, c) /\ c.subs = Cardinality(SubmissionsIn(U))
    BY <1>8, <2>1 DEF Ledger, Counts
  <2>3. Hears(c, log[x], n)
    BY <1>6, <1>7, <1>8, <1>9, <2>2, FoldCases
  <2> QED
    BY <1>4, <1>7, <1>8, <2>2, <2>3, VoiceStep
<1> QED
  BY <1>2, <1>9 DEF Fine, n

\* What comes before in a replay in order was in order.
LEMMA PrefixInOrder ==
  ASSUME log \in Seq(EventSet), Replayed(D).ok, NEW S \in SUBSET D,
         \A i \in S, j \in D : Comes(j, i) => j \in S
  PROVE  Replayed(S).ok
<1> DEFINE Above == {T \in SUBSET D : S \subseteq T /\ Replayed(T).ok}
<1>1. PICK T \in Above : \A U \in SUBSET T : U # T => U \notin Above
  <2>1. D \in Above
    OBVIOUS
  <2> HIDE DEF Above
  <2>2. Above \in SUBSET SUBSET D /\ Above # {} /\ IsFiniteSet(D)
    BY <2>1, LogDomain DEF Above
  <2> QED
    BY <2>2, SmallestSubset
<1>2. T \in SUBSET D /\ S \subseteq T /\ Replayed(T).ok
  OBVIOUS
<1>3. CASE T = {}
  BY <1>2, <1>3
<1>4. CASE T # {}
  <2>1. /\ Newest(T) \in T /\ Newest(T) \notin Older(T) /\ T = Older(T) \cup {Newest(T)}
        /\ \A j \in T : Comes(j, Newest(T))
    BY <1>2, <1>4, NewestIs DEF Older
  <2>2. CASE Newest(T) \in S
    <3>1. T \subseteq S
      BY <1>2, <2>1, <2>2
    <3>2. T = S
      BY <1>2, <3>1
    <3> QED
      BY <1>2, <3>2
  <2>3. CASE Newest(T) \notin S
    <3>1. Replayed(T) = Fold(Replayed(Older(T)), log[Newest(T)])
      BY <1>2, <1>4, ReplayEquation
    <3>2. Replayed(Older(T)).ok
      BY <1>2, <3>1 DEF Fold
    <3>3. Older(T) \in SUBSET T /\ Older(T) # T /\ S \subseteq Older(T)
      BY <1>2, <2>1, <2>3
    <3>4. Older(T) \in Above
      BY <1>2, <3>2, <3>3
    <3> QED
      BY <1>1, <3>3, <3>4
  <2> QED
    BY <2>2, <2>3
<1> QED
  BY <1>3, <1>4

----
\* Submissions and their rejections.

\* Attempt a has a submission that it has not rejected yet.
Owes(a) ==
  /\ \E i \in SubmissionsIn(D) : log[i].att = a
  /\ \A k \in Rejections : log[k].att = a => \E m \in SubmissionsIn(D) : log[m].att = a /\ k < m

\* Only rejections come late, each answers a submission of its attempt, and no
\* submission is rejected twice.
Ordered == \A i, j \in D : i < j /\ log[j].kind # "rejected" => log[i].att <= log[j].att
Answering == \A k \in Rejections : \E i \in SubmissionsIn(D) : i < k /\ log[i].att = log[k].att
OnceEach ==
  \A k, l \in Rejections : k < l /\ log[k].att = log[l].att =>
    \E m \in SubmissionsIn(D) : k < m /\ m < l /\ log[m].att = log[k].att
RejectionsInv ==
  /\ Ordered /\ Answering /\ OnceEach
  /\ ag.pc = "submitted" => Owes(attempt)
  /\ late # <<>> => /\ Owes(late[1].att) /\ late[1].att <= attempt
                    /\ ag.pc # "idle" => late[1].att < attempt

\* A rejection that comes after a later attempt's submission was not known to
\* the first turn of the attempts after its own.
Beyond(a) == {i \in In(D, TurnEnds) : log[i].att > a}
Unheard(a) ==
  \A i \in Beyond(a) : (\A j \in Beyond(a) : i <= j) =>
    log[i].request.outputs = "none" /\ ~log[i].request.repair
OvertakenInv ==
  protocol = "research" =>
    /\ \A k \in Rejections : \A s \in SubmissionsIn(D) :
         s < k /\ log[k].att < log[s].att => Unheard(log[k].att)
    /\ late # <<>> =>
         /\ Unheard(late[1].att)
         /\ Beyond(late[1].att) = {} /\ ag.pc \in {"loop", "called"} => ag.outputs = "none"

\* An attempt that can know of the rejection of the last submission answers it.
AfterSubmissions(k) == \A i \in SubmissionsIn(D) : i < k
KnownTo(k, a) == log[k].att = a \/ \E b \in In(D, {"begin"}) : log[b].att = a /\ k < b
KnowsInv ==
  protocol = "research" =>
    /\ ag.pc \in {"loop", "called"} =>
         \A k \in Rejections :
           AfterSubmissions(k) /\ log[k].detail = "deliberation" /\ KnownTo(k, attempt)
             => ag.outputs = "deliberation"
    /\ ag.pc = "submitted" => \A k \in Rejections : AfterSubmissions(k) => ~KnownTo(k, attempt)

\* The result to be bound is the last one that was proposed.
LastResult == log[Max(ResultsIn(D))].reply.result
BoundInv ==
  protocol = "research" =>
    /\ \A i \in SubmissionsIn(D) : \E j \in ResultsIn(D) : j <= i
    /\ ag.pc \in {"loop", "called"} =>
         /\ ag.outputs \in Verdicts => SubmissionsIn(D) # {}
         /\ SubmissionsIn(D) # {} => ag.last = LastResult
    /\ ag.pc = "submitted" /\ Validates => Bound = LastResult

\* Submission j is the last, and answers the rejected deliberation of the one
\* before, i.
Freezes(i, j) ==
  /\ i < j /\ \A k \in SubmissionsIn(D) : k <= i \/ k = j
  /\ \E k \in Rejections :
       /\ i < k /\ log[k].detail = "deliberation"
       /\ IF log[k].att = log[j].att THEN k < j
          ELSE \E b \in In(D, {"begin"}) : log[b].att = log[j].att /\ k < b
ResultAt(i) == log[Max({j \in ResultsIn(D) : j <= i})].reply.result
FrozenTo(r) == \A i, j \in SubmissionsIn(D) : Freezes(i, j) => r = ResultAt(i)
FrozenInv ==
  /\ output # "none" => task = "succeeded"
  /\ protocol = "research" =>
       /\ ag.pc = "submitted" => FrozenTo(Bound)
       /\ ag.pc = "accepted" => FrozenTo(ag.result)
       /\ output # "none" => FrozenTo(output)

ReviewInv == RejectionsInv /\ OvertakenInv /\ KnowsInv /\ BoundInv /\ FrozenInv

LEMMA SubmissionsArePart ==
  /\ SubmissionsIn(D) \subseteq D /\ ResultsIn(D) \subseteq SubmissionsIn(D) /\ Rejections \subseteq D
  /\ \A a : Beyond(a) \subseteq In(D, TurnEnds) /\ Beyond(a) \subseteq D
  /\ \A s \in SubmissionsIn(D) : log[s].kind = "completed" /\ s \in In(D, TurnEnds)
  /\ \A k \in Rejections : log[k].kind = "rejected"
BY DEF SubmissionsIn, ResultsIn, Rejections, Beyond, In, TurnEnds

\* Once a submission of a later attempt has overtaken it, a rejection keeps the
\* log from being replayed.
LEMMA OvertakenBreaks ==
  ASSUME TurnsTyped, protocol = "research", RejectionsInv,
         NEW k \in Rejections, NEW s \in SubmissionsIn(D), s < k, log[k].att < log[s].att,
         Unheard(log[k].att), Replayed(D).ok
  PROVE  FALSE
<1>1. /\ log \in Seq(EventSet) /\ \A i \in D : Sound(log[i])
      /\ \A i \in D : i \in Nat /\ log[i].att \in Nat /\ log[i] \in EventSet
  BY LogDomain DEF TurnsTyped, LogTyped
<1>2. k \in D /\ s \in D /\ s \in Beyond(log[k].att) /\ log[k].kind = "rejected"
  BY SubmissionsArePart DEF Beyond
<1>3. PICK f \in Beyond(log[k].att) : \A j \in Beyond(log[k].att) : f <= j
  <2>1. Beyond(log[k].att) \in SUBSET Nat
    BY <1>1, SubmissionsArePart
  <2> QED
    BY <1>2, <2>1, HasLeast
<1>4. f \in D /\ log[f].kind \in TurnEnds /\ log[k].att < log[f].att
  BY <1>3 DEF Beyond, In
<1>5. log[f].request.outputs = "none" /\ ~log[f].request.repair
  BY <1>3 DEF Unheard
<1> DEFINE S == {i \in D : Comes(i, f)}
           U == S \ {f}
<1>6. Comes(f, f)
  BY <1>4, <1>1, ComesOrders
<1>7. S \in SUBSET D /\ S # {} /\ Replayed(S).ok
  <2>1. \A i \in S, j \in D : Comes(j, i) => j \in S
    BY <1>1, <1>4, ComesOrders
  <2>2. f \in S
    BY <1>4, <1>6
  <2> HIDE DEF S
  <2>3. S \in SUBSET D
    BY DEF S
  <2> QED
    BY <1>1, <2>1, <2>2, <2>3, PrefixInOrder
<1>8. Newest(S) = f
  BY <1>1, <1>4, <1>6, <1>7, NewestIsOnly
<1>9. Older(S) = U
  BY <1>8 DEF Older
<1>10. Replayed(S) = Fold(Replayed(U), log[f])
  <2> HIDE DEF S, U
  <2> QED
    BY <1>1, <1>7, <1>8, <1>9, ReplayEquation
<1> PICK c : c = Replayed(U)
  OBVIOUS
<1>11. c.ok /\ U \in SUBSET D
  BY <1>7, <1>10 DEF Fold
<1>12. Voice(U, c) /\ c \in CheckpointSet /\ Ledger(U, c)
  <2> HIDE DEF S, U
  <2> QED
    BY <1>1, <1>11, VoiceHolds, LedgerHolds
<1>13. Continues(c, log[f].request)
  <2>1. Hears(c, log[f], Fold(c, log[f]))
    BY <1>1, <1>4, <1>7, <1>10, <1>12, FoldCases DEF Ledger
  <2> QED
    BY <1>4, <2>1 DEF Hears, HearsStarted, HearsFailed, HearsReads, HearsMemo, HearsSubmission,
         HearsCall, HearsAnswer, HearsRejection, HearsNothing, TurnEnds
<1>14. k \in OpenIn(U)
  <2>1. Comes(k, f) /\ k # f
    BY <1>2, <1>4 DEF Comes, TurnEnds
  <2>2. k \in In(U, {"rejected"})
    BY <1>2, <2>1 DEF In
  <2>3. ASSUME NEW m \in SubmissionsIn(U) PROVE Comes(m, k)
    <3>1. m \in D /\ m \in In(D, TurnEnds) /\ Comes(m, f) /\ m # f /\ log[m].kind = "completed"
      BY <2>3 DEF SubmissionsIn, In, TurnEnds
    <3>0. /\ m \in Nat /\ s \in Nat /\ k \in Nat
          /\ log[m].att \in Nat /\ log[s].att \in Nat /\ log[k].att \in Nat
      BY <1>1, <1>2, <3>1
    <3>2. m \notin Beyond(log[k].att)
      <4>1. CASE f < m
        <5>1. log[f].att <= log[m].att
          BY <1>4, <3>1, <4>1 DEF RejectionsInv, Ordered
        <5>2. Comes(f, m)
          BY <1>1, <1>4, <3>1, <4>1, <5>1 DEF Comes
        <5> QED
          BY <1>1, <1>4, <3>1, <5>2, ComesOrders
      <4>2. CASE m < f
        BY <1>1, <1>3, <1>4, <3>1, <4>2
      <4> QED
        BY <1>1, <1>4, <3>1, <4>1, <4>2
    <3>3. log[m].att <= log[k].att
      BY <1>1, <1>2, <3>1, <3>2 DEF Beyond
    <3>4. m <= s
      <4>1. s < m => log[s].att <= log[m].att
        BY <1>2, <3>1 DEF RejectionsInv, Ordered
      <4> QED
        BY <3>0, <3>3, <4>1
    <3> QED
      BY <3>0, <3>3, <3>4 DEF Comes
  <2> QED
    BY <2>2, <2>3 DEF OpenIn
<1>15. PICK o \in OpenIn(U) : c.outputs = log[o].detail
  BY <1>12, <1>14 DEF Voice
<1>16. c.outputs \in Verdicts
  <2>1. o \in D /\ log[o].kind = "rejected"
    BY <1>15 DEF OpenIn, In
  <2> QED
    BY <1>1, <1>15, <2>1 DEF Sound
<1> QED
  BY <1>5, <1>13, <1>16 DEF Continues, Verdicts

\* The last proposal in the order of the replay is the last one in the log.
LEMMA LastProposed ==
  ASSUME TurnsTyped, RejectionsInv, NEW i \in ResultsIn(D), \A j \in ResultsIn(D) : Comes(j, i)
  PROVE  log[i].reply.result = LastResult
<1>1. /\ log \in Seq(EventSet) /\ D = 1 .. Len(log) /\ Len(log) \in Nat
      /\ \A j \in D : j \in Nat /\ log[j].att \in Nat
  BY LogDomain DEF TurnsTyped, LogTyped
<1>2. ResultsIn(D) \in SUBSET (0 .. Len(log)) /\ ResultsIn(D) \subseteq D
  BY <1>1, SubmissionsArePart
<1> PICK m : m = Max(ResultsIn(D))
  OBVIOUS
<1>3. m \in ResultsIn(D) /\ \A j \in ResultsIn(D) : j <= m
  BY <1>1, <1>2, MaxIsGreatest
<1>4. i \in D /\ m \in D /\ i <= m /\ log[m].kind # "rejected"
  BY <1>2, <1>3, SubmissionsArePart
<1>5. CASE i < m
  <2>1. log[i].att <= log[m].att
    BY <1>4, <1>5 DEF RejectionsInv, Ordered
  <2>2. Comes(i, m)
    BY <1>1, <1>4, <1>5, <2>1 DEF Comes
  <2>3. Comes(m, i)
    BY <1>3
  <2>4. i = m
    BY <1>1, <1>4, <2>2, <2>3, ComesOrders
  <2> QED
    BY <1>1, <1>4, <1>5, <2>4
<1>6. CASE i = m
  BY <1>6 DEF LastResult
<1> QED
  BY <1>1, <1>4, <1>5, <1>6

\* Two rejections that no submission has answered are the same.
LEMMA OneUnanswered ==
  ASSUME TurnsTyped, RejectionsInv, NEW k \in OpenIn(D), NEW l \in OpenIn(D)
  PROVE  k = l
<1>1. /\ log \in Seq(EventSet) /\ \A j \in D : j \in Nat /\ log[j].att \in Nat
  BY LogDomain DEF TurnsTyped, LogTyped
<1>2. /\ k \in Rejections /\ l \in Rejections /\ k \in D /\ l \in D
      /\ \A s \in SubmissionsIn(D) : Comes(s, k) /\ Comes(s, l)
  BY DEF OpenIn, Rejections, In
<1>3. log[k].att = log[l].att
  <2>1. PICK i \in SubmissionsIn(D) : log[i].att = log[k].att
    BY <1>2 DEF RejectionsInv, Answering
  <2>2. PICK j \in SubmissionsIn(D) : log[j].att = log[l].att
    BY <1>2 DEF RejectionsInv, Answering
  <2>3. log[k].att <= log[l].att /\ log[l].att <= log[k].att
    BY <1>1, <1>2, <2>1, <2>2 DEF Comes
  <2> QED
    BY <1>1, <1>2, <2>3
<1>4. ASSUME NEW a \in Rejections, NEW b \in Rejections, a < b, log[a].att = log[b].att,
             \A s \in SubmissionsIn(D) : Comes(s, a)
      PROVE  FALSE
  <2>1. PICK m \in SubmissionsIn(D) : a < m /\ log[m].att = log[a].att
    BY <1>4 DEF RejectionsInv, OnceEach
  <2>2. Comes(m, a) /\ m \in D /\ a \in D
    BY <1>4, SubmissionsArePart
  <2>3. m \in Nat /\ a \in Nat /\ log[m].att \in Nat /\ log[a].att \in Nat
    BY <1>1, <2>2
  <2> QED
    BY <2>1, <2>2, <2>3 DEF Comes
<1>5. ~(k < l) /\ ~(l < k)
  BY <1>2, <1>3, <1>4
<1> QED
  BY <1>1, <1>2, <1>5

LEMMA FinishKeeps ==
  ASSUME NEW c \in CheckpointSet, Finish(c).ok
  PROVE  c.ok /\ Finish(c).outputs = c.outputs /\ Finish(c).last = c.last
<1>1. c.expect = NoReads
  BY DEF Finish, Broken, CheckpointSet
<1>2. Finish(c) = [c EXCEPT !.failure = @ \/ c.open # {},
                            !.recovered = c.answered \/ c.calls > 0]
  BY <1>1 DEF Finish
<1> QED
  BY <1>2 DEF CheckpointSet

\* What a new attempt of a research Task takes over of its review.
LEMMA BeginHears ==
  ASSUME TurnsTyped, EventsInv, RejectionsInv, OvertakenInv, ResearchTurnsAssumption,
         protocol = "research", NEW drifted \in BOOLEAN,
         NEW c, c = AgentRecoveryCheckpoint(drifted), Restores(c)
  PROVE  /\ \A k \in Rejections : AfterSubmissions(k) => c.outputs = log[k].detail
         /\ OpenIn(D) = {} => c.outputs = "none"
         /\ c.outputs \in Verdicts => SubmissionsIn(D) # {}
         /\ ResultsIn(D) # {} => c.last = LastResult
<1>1. protocol \in {"research", "outcome"} /\ log \in Seq(EventSet) /\ \A i \in D : Sound(log[i])
  BY DEF TurnsTyped, TaskTyped, LogTyped
<1>2. CASE c = Fallback
  <2>1. /\ SubmissionsIn(D) = {} /\ c.outputs = "none" /\ Rejections = {}
    BY <1>2, FallbackRecalls DEF Rejections
  <2>2. ResultsIn(D) = {}
    BY <2>1, SubmissionsArePart
  <2> QED
    BY <2>1, <2>2 DEF Verdicts
<1>3. CASE c # Fallback
  <2> PICK r : r = Replayed(D)
    OBVIOUS
  <2>1. r \in CheckpointSet /\ (r.ok => Ledger(D, r) /\ Voice(D, r))
    BY <1>1, LedgerHolds, VoiceHolds
  <2>2. c = Finish(r) /\ c.ok
    BY <1>3 DEF AgentRecoveryCheckpoint, D
  <2>3. Finish(r).ok
    BY <2>2
  <2>4. r.ok /\ c.outputs = r.outputs /\ c.last = r.last
    BY <2>1, <2>2, <2>3, FinishKeeps
  <2>5. Proposed(D, r) /\ Voice(D, r)
    BY <2>1, <2>4 DEF Ledger
  <2>6. ResultsIn(D) # {} => c.last = LastResult
    BY <2>4, <2>5, LastProposed DEF Proposed
  <2>7. ASSUME NEW k \in Rejections, AfterSubmissions(k) PROVE c.outputs = log[k].detail
    <3>1. ASSUME NEW s \in SubmissionsIn(D) PROVE Comes(s, k)
      <4>1. s < k /\ s \in D /\ k \in D
        BY <2>7, SubmissionsArePart DEF AfterSubmissions
      <4>2. s \in Nat /\ k \in Nat /\ log[s].att \in Nat /\ log[k].att \in Nat
        BY <1>1, <4>1, LogDomain
      <4>3. CASE log[k].att < log[s].att
        <5>1. Unheard(log[k].att)
          BY <4>1, <4>3 DEF OvertakenInv
        <5> QED
          BY <2>4, <4>1, <4>3, <5>1, OvertakenBreaks
      <4> QED
        BY <4>1, <4>2, <4>3 DEF Comes
    <3>2. k \in OpenIn(D)
      BY <3>1 DEF OpenIn, Rejections
    <3>3. PICK o \in OpenIn(D) : r.outputs = log[o].detail
      BY <2>5, <3>2 DEF Voice
    <3> QED
      BY <2>4, <3>2, <3>3, OneUnanswered
  <2> QED
    BY <2>4, <2>5, <2>6, <2>7 DEF Voice, Proposed
<1> QED
  BY <1>2, <1>3

----
\* The review goes on.

LEMMA AddedReview ==
  ASSUME TurnsTyped, NEW e, Added(e)
  PROVE  /\ Top \notin D /\ D' = D \cup {Top} /\ log'[Top] = e /\ Top \in Nat /\ e.att \in Nat
         /\ \A i \in D : i \in Nat /\ i < Top /\ log'[i] = log[i] /\ log[i].att \in Nat
         /\ \A i \in D : log[i].att <= attempt
         /\ Rejections' = Rejections \cup (IF e.kind = "rejected" THEN {Top} ELSE {})
         /\ SubmissionsIn(D)' = SubmissionsIn(D) \cup (IF IsSubmission(e) THEN {Top} ELSE {})
         /\ ResultsIn(D)' = ResultsIn(D)
              \cup (IF IsSubmission(e) /\ e.reply.result # "none" THEN {Top} ELSE {})
         /\ In(D, {"begin"})' = In(D, {"begin"}) \cup (IF e.kind = "begin" THEN {Top} ELSE {})
         /\ In(D, TurnEnds)' = In(D, TurnEnds) \cup (IF e.kind \in TurnEnds THEN {Top} ELSE {})
         /\ Rejections \subseteq D /\ SubmissionsIn(D) \subseteq D /\ ResultsIn(D) \subseteq D
         /\ In(D, {"begin"}) \subseteq D /\ In(D, TurnEnds) \subseteq D
<1>1. log \in Seq(EventSet) /\ \A i \in D : log[i].att <= attempt
  BY DEF TurnsTyped, LogTyped
<1>2. /\ Top \notin D /\ D' = D \cup {Top} /\ log'[Top] = e /\ Top \in Nat
      /\ \A i \in D : i \in Nat /\ i < Top /\ log'[i] = log[i] /\ log[i].att \in Nat
      /\ e.att \in Nat
  BY <1>1, AddedLog, LogDomain DEF Added, EventSet
<1>3. Rejections \subseteq D /\ SubmissionsIn(D) \subseteq D /\ ResultsIn(D) \subseteq D
      /\ In(D, {"begin"}) \subseteq D /\ In(D, TurnEnds) \subseteq D
  BY DEF Rejections, SubmissionsIn, ResultsIn, In
<1>4. /\ Rejections' = Rejections \cup (IF e.kind = "rejected" THEN {Top} ELSE {})
      /\ In(D, {"begin"})' = In(D, {"begin"}) \cup (IF e.kind = "begin" THEN {Top} ELSE {})
      /\ In(D, TurnEnds)' = In(D, TurnEnds) \cup (IF e.kind \in TurnEnds THEN {Top} ELSE {})
  BY AddedSets DEF Rejections
<1> QED
  BY <1>1, <1>2, <1>3, <1>4, AddedSets

\* An attempt owes a rejection until it is written.
LEMMA OwesStill ==
  ASSUME TurnsTyped, NEW e, Added(e), NEW a, Owes(a), e.kind = "rejected" => e.att # a
  PROVE  Owes(a)'
<1>1. /\ Top \notin D /\ log'[Top] = e /\ \A i \in D : log'[i] = log[i]
      /\ Rejections' = Rejections \cup (IF e.kind = "rejected" THEN {Top} ELSE {})
      /\ SubmissionsIn(D) \subseteq SubmissionsIn(D)'
      /\ Rejections \subseteq D /\ SubmissionsIn(D) \subseteq D
  BY AddedReview
<1>2. \E i \in SubmissionsIn(D)' : log'[i].att = a
  BY <1>1 DEF Owes
<1>3. ASSUME NEW k \in Rejections', log'[k].att = a
      PROVE  \E m \in SubmissionsIn(D)' : log'[m].att = a /\ k < m
  <2>1. k \in Rejections /\ log[k].att = a
    BY <1>1, <1>3
  <2>2. PICK m \in SubmissionsIn(D) : log[m].att = a /\ k < m
    BY <2>1 DEF Owes
  <2> QED
    BY <1>1, <2>2
<1> QED
  BY <1>2, <1>3 DEF Owes

LEMMA RejectionsStep ==
  ASSUME TurnsTyped, AgentInv, RejectionsInv, TurnMoved
  PROVE  RejectionsInv'
<1>0. attempt \in Nat /\ Ordered /\ Answering /\ OnceEach
      /\ (late # <<>> => late[1].att \in Nat)
  BY DEF TurnsTyped, TaskTyped, RejectionsInv, LateTyped
\* Nothing is written.
<1>1. ASSUME log' = log, Stays,
             ag'.pc # "submitted", ag.pc # "idle",
             \/ late' = late
             \/ /\ ag.pc = "submitted" /\ ag'.pc = "idle"
                /\ \E v \in Verdicts : late' = <<Entry("rejected", v)>>
      PROVE  RejectionsInv'
  <2>1. D' = D /\ Rejections' = Rejections /\ SubmissionsIn(D)' = SubmissionsIn(D)
    BY <1>1, LogSame DEF Rejections
  <2>2. Ordered' /\ Answering' /\ OnceEach'
    BY <1>0, <1>1, <2>1 DEF Ordered, Answering, OnceEach
  <2>3. CASE late' = late
    <3>1. late' # <<>> => Owes(late[1].att)' /\ late'[1].att <= attempt'
                          /\ (ag'.pc # "idle" => late'[1].att < attempt')
      BY <1>1, <2>1, <2>3 DEF RejectionsInv, Owes, Stays
    <3> QED
      BY <1>1, <2>2, <3>1 DEF RejectionsInv
  <2>4. ASSUME ag.pc = "submitted", ag'.pc = "idle",
               NEW v \in Verdicts, late' = <<Entry("rejected", v)>>
        PROVE  RejectionsInv'
    <3>1. late'[1].att = attempt
      BY <2>4 DEF Entry, Event
    <3>2. Owes(attempt)
      BY <2>4 DEF RejectionsInv
    <3>3. Owes(late[1].att)'
      BY <1>1, <2>1, <3>1, <3>2 DEF Owes
    <3> QED
      BY <1>0, <1>1, <2>2, <2>4, <3>1, <3>3 DEF RejectionsInv, Stays
  <2> QED
    BY <1>1, <2>3, <2>4
\* An event of the live attempt that rejects nothing.
<1>2. ASSUME NEW e, Added(e), e.kind # "rejected", attempt <= e.att, late' = late,
             ag'.pc = "submitted" => IsSubmission(e) /\ e.att = attempt',
             late # <<>> => /\ late[1].att <= attempt'
                            /\ ag'.pc # "idle" => late[1].att < attempt'
      PROVE  RejectionsInv'
  <2>1. /\ Top \notin D /\ D' = D \cup {Top} /\ log'[Top] = e /\ Top \in Nat /\ e.att \in Nat
        /\ \A i \in D : i \in Nat /\ i < Top /\ log'[i] = log[i] /\ log[i].att \in Nat
        /\ \A i \in D : log[i].att <= attempt
        /\ Rejections' = Rejections
        /\ SubmissionsIn(D)' = SubmissionsIn(D) \cup (IF IsSubmission(e) THEN {Top} ELSE {})
        /\ Rejections \subseteq D /\ SubmissionsIn(D) \subseteq D
    BY <1>2, AddedReview
  <2>2. \A i \in D : log[i].att <= e.att
    BY <1>0, <1>2, <2>1
  <2>3. Ordered'
    BY <1>0, <2>1, <2>2 DEF Ordered
  <2>4. Answering' /\ OnceEach'
    <3>1. /\ Rejections' = Rejections /\ SubmissionsIn(D) \subseteq SubmissionsIn(D)'
          /\ \A i \in Rejections \cup SubmissionsIn(D) : log'[i] = log[i]
      BY <2>1
    <3>2. Answering'
      BY <1>0, <3>1 DEF Answering
    <3>3. OnceEach'
      BY <1>0, <3>1 DEF OnceEach
    <3> QED
      BY <3>2, <3>3
  <2>6. ASSUME ag'.pc = "submitted" PROVE Owes(attempt)'
    <3>1. Top \in SubmissionsIn(D)' /\ log'[Top].att = attempt'
      BY <1>2, <2>1, <2>6
    <3>2. \A k \in Rejections' : k < Top
      BY <2>1
    <3> QED
      BY <3>1, <3>2 DEF Owes
  <2>7. ASSUME late' # <<>> PROVE Owes(late[1].att)'
    <3> PICK a : a = late[1].att
      OBVIOUS
    <3>1. Owes(a)
      BY <1>2, <2>7 DEF RejectionsInv
    <3>2. Owes(a)' /\ late'[1].att = a
      BY <1>2, <3>1, OwesStill
    <3> QED
      BY <3>2 DEF Owes
  <2> QED
    BY <1>2, <2>3, <2>4, <2>6, <2>7 DEF RejectionsInv
\* The rejection of an attempt that owes it.
<1>3. ASSUME NEW e, Added(e), e.kind = "rejected", Owes(e.att),
             ag'.pc = "submitted" => ag.pc = "submitted" /\ e.att # attempt, Stays,
             late' # <<>> => late' = late /\ e.att # late[1].att /\ ag.pc # "idle"
      PROVE  RejectionsInv'
  <2>1. /\ Top \notin D /\ D' = D \cup {Top} /\ log'[Top] = e /\ Top \in Nat /\ e.att \in Nat
        /\ \A i \in D : i \in Nat /\ i < Top /\ log'[i] = log[i] /\ log[i].att \in Nat
        /\ Rejections' = Rejections \cup {Top} /\ SubmissionsIn(D)' = SubmissionsIn(D)
        /\ Rejections \subseteq D /\ SubmissionsIn(D) \subseteq D
    <3>1. ~IsSubmission(e)
      BY <1>3 DEF IsSubmission
    <3> QED
      BY <1>3, <3>1, AddedReview
  <2>2. Ordered'
    BY <1>0, <1>3, <2>1 DEF Ordered
  <2>3. Answering'
    BY <1>0, <1>3, <2>1 DEF Answering, Owes
  <2>4. OnceEach'
    <3> SUFFICES ASSUME NEW k \in Rejections', NEW l \in Rejections', k < l,
                        log'[k].att = log'[l].att
                 PROVE  \E m \in SubmissionsIn(D)' : k < m /\ m < l /\ log'[m].att = log'[k].att
      BY DEF OnceEach
    <3>1. k # Top
      BY <2>1
    <3>2. CASE l = Top
      <4>1. k \in Rejections /\ log[k].att = e.att
        BY <2>1, <3>1, <3>2
      <4>2. PICK m \in SubmissionsIn(D) : log[m].att = e.att /\ k < m
        BY <1>3, <4>1 DEF Owes
      <4> QED
        BY <2>1, <3>2, <4>1, <4>2
    <3>3. CASE l # Top
      <4>1. k \in Rejections /\ l \in Rejections /\ log[k].att = log[l].att
        BY <2>1, <3>1, <3>3
      <4>2. PICK m \in SubmissionsIn(D) : k < m /\ m < l /\ log[m].att = log[k].att
        BY <1>0, <4>1 DEF OnceEach
      <4> QED
        BY <2>1, <4>1, <4>2
    <3> QED
      BY <3>2, <3>3
  <2>5. ASSUME ag'.pc = "submitted" PROVE Owes(attempt)'
    <3> PICK a : a = attempt
      OBVIOUS
    <3>1. Owes(a) /\ e.att # a
      BY <1>3, <2>5 DEF RejectionsInv
    <3>2. Owes(a)' /\ attempt' = a
      BY <1>3, <3>1, OwesStill DEF Stays
    <3> QED
      BY <3>2 DEF Owes
  <2>6. ASSUME late' # <<>> PROVE Owes(late[1].att)' /\ late'[1].att < attempt'
    <3> PICK a : a = late[1].att
      OBVIOUS
    <3>1. Owes(a) /\ e.att # a /\ a < attempt
      BY <1>3, <2>6 DEF RejectionsInv
    <3>2. Owes(a)' /\ late'[1].att = a
      BY <1>3, <2>6, <3>1, OwesStill
    <3> QED
      BY <1>3, <3>1, <3>2 DEF Owes, Stays
  <2> QED
    BY <1>0, <1>3, <2>2, <2>3, <2>4, <2>5, <2>6 DEF RejectionsInv, Stays
<1>4. ASSUME NEW e, BeginsAgain(e) \/ BeginsInVain(e) PROVE RejectionsInv'
  <2>1. BeginsWith(e) /\ ag'.pc # "submitted"
    BY <1>4 DEF BeginsAgain, BeginsInVain, AgentIs
  <2>2. late # <<>> => late[1].att < attempt + 1
    BY <1>0 DEF RejectionsInv
  <2> QED
    BY <1>0, <1>2, <2>1, <2>2 DEF BeginsWith
<1>5. ASSUME NEW e, WritesOwn(e), e.kind # "rejected", ag.pc # "idle",
             ag'.pc = "submitted" => IsSubmission(e)
      PROVE  RejectionsInv'
  <2>1. late # <<>> => late[1].att < attempt
    BY <1>5 DEF RejectionsInv
  <2> QED
    BY <1>0, <1>2, <1>5, <2>1 DEF WritesOwn, Stays
<1>6. ASSUME NEW e, Stays, Added(e), e.kind = "rejected", e.att = attempt, late' = late,
             ag.pc = "submitted", ag'.pc # "submitted"
      PROVE  RejectionsInv'
  <2>1. Owes(e.att) /\ (late # <<>> => late[1].att < attempt)
    BY <1>6 DEF RejectionsInv
  <2> QED
    BY <1>0, <1>3, <1>6, <2>1
<1>7. ASSUME NEW e, WritesLate(e) PROVE RejectionsInv'
  <2>1. /\ Added(e) /\ e.kind = "rejected" /\ Stays /\ ag' = ag /\ late # <<>> /\ late' = <<>>
        /\ late[1] = e
    BY <1>7 DEF WritesLate
  <2>2. Owes(e.att)
    BY <2>1 DEF RejectionsInv
  <2>3. ag.pc = "submitted" => e.att < attempt /\ e.att \in Nat
    BY <1>0, <2>1 DEF RejectionsInv
  <2>4. ag'.pc = "submitted" => ag.pc = "submitted" /\ e.att # attempt
    BY <1>0, <2>1, <2>3
  <2> QED
    BY <1>3, <2>1, <2>2, <2>4
<1>8. CASE WritesNothing
  BY <1>1, <1>8 DEF WritesNothing
<1>9. CASE Approves
  BY <1>1, <1>9 DEF Approves, AgentIs, Validates
<1>10. ASSUME NEW e, Stops(e) PROVE RejectionsInv'
  <2>1. CASE e.kind = "rejected"
    BY <1>6, <1>10, <2>1 DEF Stops, TurnEnds
  <2>2. CASE e.kind # "rejected"
    <3>1. late # <<>> => late[1].att < attempt
      BY <1>10 DEF RejectionsInv, Stops
    <3> QED
      BY <1>0, <1>2, <1>10, <2>2, <3>1 DEF Stops, Stays
  <2> QED
    BY <2>1, <2>2
<1>11. ASSUME NEW e, Starts(e) \/ Retries(e) \/ HasMemo(e) \/ HasRead(e) \/ CallsRead(e) \/ HasAnswer(e)
       PROVE  RejectionsInv'
  <2>1. WritesOwn(e) /\ e.kind # "rejected" /\ ag.pc # "idle" /\ ag'.pc # "submitted"
    BY <1>11 DEF Starts, Retries, HasMemo, HasRead, Completes, CallsRead, HasAnswer, AgentIs
  <2> QED
    BY <1>5, <2>1
<1>12. ASSUME NEW e, HasSubmission(e) PROVE RejectionsInv'
  <2>1. WritesOwn(e) /\ e.kind # "rejected" /\ ag.pc # "idle"
    BY <1>12 DEF HasSubmission, Completes
  <2>2. IsSubmission(e)
    BY <1>12 DEF HasSubmission, Completes, IsSubmission, AgentInv
  <2> QED
    BY <1>5, <2>1, <2>2
<1>13. ASSUME NEW e, Rejects(e) PROVE RejectionsInv'
  BY <1>6, <1>13 DEF Rejects, WritesOwn, Validates, AgentIs
<1> QED
  BY <1>4, <1>7, <1>8, <1>9, <1>10, <1>11, <1>12, <1>13 DEF TurnMoved

LEMMA BeyondGrows ==
  ASSUME TurnsTyped, NEW e, Added(e), NEW a \in Nat
  PROVE  Beyond(a)' = Beyond(a) \cup (IF e.kind \in TurnEnds /\ e.att > a THEN {Top} ELSE {})
<1>1. /\ log'[Top] = e /\ \A i \in D : log'[i] = log[i]
      /\ In(D, TurnEnds)' = In(D, TurnEnds) \cup (IF e.kind \in TurnEnds THEN {Top} ELSE {})
      /\ In(D, TurnEnds) \subseteq D
  BY AddedReview
<1> QED
  BY <1>1 DEF Beyond

LEMMA UnheardStill ==
  ASSUME TurnsTyped, NEW e, Added(e), NEW a \in Nat, Unheard(a),
         e.kind \in TurnEnds /\ e.att > a /\ Beyond(a) = {}
           => e.request.outputs = "none" /\ ~e.request.repair
  PROVE  Unheard(a)'
<1>1. /\ log'[Top] = e /\ \A i \in D : log'[i] = log[i] /\ i < Top /\ i \in Nat
      /\ Top \in Nat /\ Beyond(a) \subseteq D
  BY AddedReview, SubmissionsArePart
<1>2. Beyond(a)' = Beyond(a) \cup (IF e.kind \in TurnEnds /\ e.att > a THEN {Top} ELSE {})
  BY BeyondGrows
<1>3. ASSUME NEW i \in Beyond(a)', \A j \in Beyond(a)' : i <= j
      PROVE  log'[i].request.outputs = "none" /\ ~log'[i].request.repair
  <2>1. CASE i \in Beyond(a)
    <3>1. \A j \in Beyond(a) : i <= j
      BY <1>2, <1>3
    <3> QED
      BY <1>1, <2>1, <3>1 DEF Unheard
  <2>2. CASE i \notin Beyond(a)
    <3>1. i = Top /\ e.kind \in TurnEnds /\ e.att > a
      BY <1>2, <1>3, <2>2
    <3>2. Beyond(a) = {}
      <4> SUFFICES ASSUME NEW j \in Beyond(a) PROVE FALSE
        OBVIOUS
      <4>1. i <= j /\ j < Top /\ j \in Nat
        BY <1>1, <1>2, <1>3
      <4> QED
        BY <1>1, <3>1, <4>1
    <3> QED
      BY <1>1, <3>1, <3>2
  <2> QED
    BY <2>1, <2>2
<1> QED
  BY <1>3 DEF Unheard

LEMMA OvertakenStep ==
  ASSUME TurnsTyped, AgentInv, EventsInv, RejectionsInv, OvertakenInv, ResearchTurnsAssumption, TurnMoved
  PROVE  OvertakenInv'
<1>0. /\ attempt \in Nat /\ protocol' = protocol /\ (late # <<>> => late[1].att \in Nat)
      /\ \A i \in D : log[i].att \in Nat /\ log[i].att <= attempt /\ i \in Nat
  <2>1. protocol' = protocol
    BY MovesLog DEF Stays
  <2> QED
    BY <2>1, LogDomain DEF TurnsTyped, TaskTyped, LogTyped, LateTyped
<1> SUFFICES ASSUME protocol = "research"
             PROVE  /\ \A k \in Rejections' : \A s \in SubmissionsIn(D)' :
                         s < k /\ log'[k].att < log'[s].att => Unheard(log[k].att)'
                    /\ late' # <<>> =>
                         /\ Unheard(late[1].att)'
                         /\ Beyond(late[1].att)' = {} /\ ag'.pc \in {"loop", "called"}
                              => ag'.outputs = "none"
  BY <1>0 DEF OvertakenInv
<1>1. /\ \A k \in Rejections : \A s \in SubmissionsIn(D) :
           s < k /\ log[k].att < log[s].att => Unheard(log[k].att)
      /\ late # <<>> =>
           /\ Unheard(late[1].att)
           /\ Beyond(late[1].att) = {} /\ ag.pc \in {"loop", "called"} => ag.outputs = "none"
  BY DEF OvertakenInv
<1>2. (ag.pc \in {"loop", "called", "submitted", "accepted"} => ag.phase = "Submit")
      /\ ag.pc \notin {"reading", "read"}
  BY DEF AgentInv, InSession
\* The rejections in the log.
<1> DEFINE Known2 == \A k \in Rejections' : \A s \in SubmissionsIn(D)' :
                       s < k /\ log'[k].att < log'[s].att => Unheard(log[k].att)'
<1>3. ASSUME NEW e, Added(e),
             e.kind = "rejected" => \/ Unheard(e.att)
                                    \/ \A s \in SubmissionsIn(D) : log[s].att <= e.att
      PROVE  Known2
  <2>1. /\ Top \notin D /\ D' = D \cup {Top} /\ log'[Top] = e /\ Top \in Nat /\ e.att \in Nat
        /\ \A i \in D : i \in Nat /\ i < Top /\ log'[i] = log[i] /\ log[i].att \in Nat
        /\ Rejections' = Rejections \cup (IF e.kind = "rejected" THEN {Top} ELSE {})
        /\ SubmissionsIn(D)' = SubmissionsIn(D) \cup (IF IsSubmission(e) THEN {Top} ELSE {})
        /\ Rejections \subseteq D /\ SubmissionsIn(D) \subseteq D
    BY <1>3, AddedReview
  <2> SUFFICES ASSUME NEW k \in Rejections', NEW s \in SubmissionsIn(D)',
                      s < k, log'[k].att < log'[s].att
               PROVE  Unheard(log[k].att)'
    OBVIOUS
  <2> PICK a : a = log'[k].att
    OBVIOUS
  <2>2. s \in SubmissionsIn(D) /\ s \in D /\ s \in Nat /\ log'[s] = log[s]
    <3>1. k <= Top
      BY <2>1
    <3>2. s # Top
      BY <2>1, <3>1
    <3>3. s \in SubmissionsIn(D)
      BY <2>1, <3>2
    <3> QED
      BY <2>1, <3>3
  <2>3. CASE k \in Rejections
    <3>1. k \in D /\ log[k].att = a /\ a \in Nat /\ a < log[s].att
      BY <2>1, <2>2, <2>3
    <3>2. Unheard(a)
      BY <1>1, <2>2, <2>3, <3>1
    <3>3. s \in Beyond(a)
      BY <2>1, <2>2, <3>1, SubmissionsArePart DEF Beyond
    <3>4. Unheard(a)'
      BY <1>3, <3>1, <3>2, <3>3, UnheardStill
    <3> QED
      BY <3>4 DEF Unheard, Beyond
  <2>4. CASE k \notin Rejections
    <3>1. k = Top /\ e.kind = "rejected" /\ a = e.att /\ a < log[s].att
      BY <2>1, <2>2, <2>4
    <3>2. Unheard(a)
      BY <1>3, <2>1, <2>2, <3>1
    <3>3. Unheard(a)'
      BY <1>3, <2>1, <3>1, <3>2, UnheardStill DEF TurnEnds
    <3> QED
      BY <3>3 DEF Unheard, Beyond
  <2> QED
    BY <2>3, <2>4
<1> HIDE DEF Known2
\* Nothing is written.
<1>4. ASSUME log' = log, Stays, ag'.pc \notin {"loop", "called"},
             \/ late' = late
             \/ \E v \in Verdicts : late' = <<Entry("rejected", v)>>
      PROVE  OvertakenInv'
  <2>1. /\ Rejections' = Rejections /\ SubmissionsIn(D)' = SubmissionsIn(D)
        /\ In(D, TurnEnds)' = In(D, TurnEnds)
    BY <1>4, LogSame DEF Rejections
  <2>2. \A a : Beyond(a)' = Beyond(a)
    BY <1>4, <2>1 DEF Beyond
  <2>3. \A a : Unheard(a)' <=> Unheard(a)
    BY <1>4, <2>2 DEF Unheard
  <2>4. \A k \in Rejections' : \A s \in SubmissionsIn(D)' :
          s < k /\ log'[k].att < log'[s].att => Unheard(log[k].att)'
    BY <1>1, <1>4, <2>1, <2>2 DEF Unheard
  <2>5. CASE late' = late
    <3>1. late' # <<>> => Unheard(late[1].att)'
      BY <1>1, <1>4, <2>2, <2>5 DEF Unheard
    <3> QED
      BY <1>4, <2>4, <3>1 DEF OvertakenInv
  <2>6. ASSUME NEW v \in Verdicts, late' = <<Entry("rejected", v)>>
        PROVE  OvertakenInv'
    <3>1. late'[1].att = attempt
      BY <2>6 DEF Entry, Event
    <3>2. Beyond(attempt) = {}
      BY <1>0, SubmissionsArePart DEF Beyond
    <3>3. Unheard(late[1].att)'
      BY <1>4, <2>1, <3>1, <3>2 DEF Unheard, Beyond
    <3> QED
      BY <1>4, <2>4, <3>3 DEF OvertakenInv
  <2> QED
    BY <1>4, <2>5, <2>6
\* What keeps a late rejection unheard.
<1>5. ASSUME NEW e, Added(e), NEW a \in Nat, late # <<>>, late[1].att = a, late' = late, Known2,
             e.kind \in TurnEnds /\ e.att > a /\ Beyond(a) = {}
               => e.request.outputs = "none" /\ ~e.request.repair,
             Beyond(a)' = {} /\ ag'.pc \in {"loop", "called"} => ag'.outputs = "none"
      PROVE  OvertakenInv'
  <2>1. Unheard(a)'
    BY <1>1, <1>5, UnheardStill
  <2>2. late'[1].att = a
    BY <1>5
  <2>3. Unheard(late[1].att)'
    BY <2>1, <2>2 DEF Unheard, Beyond
  <2>4. Beyond(late[1].att)' = Beyond(a)'
    BY <2>2 DEF Beyond
  <2> QED
    BY <1>5, <2>3, <2>4 DEF OvertakenInv, Known2
<1>6. ASSUME NEW e, Added(e), late' = <<>>, Known2 PROVE OvertakenInv'
  BY <1>6 DEF OvertakenInv, Known2
\* An event that is no answer.
<1>7. ASSUME NEW e, Added(e), e.kind \notin TurnEnds, e.kind # "rejected", late' = late,
             late # <<>> /\ Beyond(late[1].att) = {} /\ ag'.pc \in {"loop", "called"}
               => ag'.outputs = "none"
      PROVE  OvertakenInv'
  <2>1. Known2
    BY <1>3, <1>7
  <2>2. CASE late = <<>>
    BY <1>6, <1>7, <2>1, <2>2
  <2>3. CASE late # <<>>
    <3> PICK a \in Nat : a = late[1].att
      BY <1>0, <2>3
    <3>1. Beyond(a)' = Beyond(a)
      BY <1>7, BeyondGrows
    <3> QED
      BY <1>5, <1>7, <2>1, <2>3, <3>1
  <2> QED
    BY <2>2, <2>3
\* The answer to a call.
<1>8. ASSUME NEW e, Added(e), e.kind \in TurnEnds, e.att = attempt, late' = late,
             ag.pc \in {"loop", "called"},
             ag.outputs = "none" => e.request.outputs = "none" /\ ~e.request.repair
      PROVE  OvertakenInv'
  <2>1. Known2
    BY <1>3, <1>8 DEF TurnEnds
  <2>2. CASE late = <<>>
    BY <1>6, <1>8, <2>1, <2>2
  <2>3. CASE late # <<>>
    <3> PICK a \in Nat : a = late[1].att
      BY <1>0, <2>3
    <3>1. a < attempt
      BY <1>8, <2>3 DEF RejectionsInv
    <3>2. Beyond(a)' # {}
      BY <1>0, <1>8, <3>1, BeyondGrows
    <3>3. Beyond(a) = {} => ag.outputs = "none"
      BY <1>1, <1>8, <2>3
    <3> QED
      BY <1>5, <1>8, <2>1, <2>3, <3>2, <3>3
  <2> QED
    BY <2>2, <2>3
\* The rejection of the live attempt.
<1>9. ASSUME NEW e, Added(e), e.kind = "rejected", e.att = attempt, late' = late, ag.pc = "submitted"
      PROVE  OvertakenInv'
  <2>1. Known2
    <3>1. \A s \in SubmissionsIn(D) : log[s].att <= e.att
      BY <1>0, <1>9, SubmissionsArePart
    <3> QED
      BY <1>3, <1>9, <3>1
  <2>2. CASE late = <<>>
    BY <1>6, <1>9, <2>1, <2>2
  <2>3. CASE late # <<>>
    <3> PICK a \in Nat : a = late[1].att
      BY <1>0, <2>3
    <3>1. a < attempt /\ Owes(attempt)
      BY <1>9, <2>3 DEF RejectionsInv
    <3>2. PICK s \in SubmissionsIn(D) : log[s].att = attempt
      BY <3>1 DEF Owes
    <3>3. s \in Beyond(a)
      BY <1>0, <3>1, <3>2, SubmissionsArePart DEF Beyond
    <3>4. Beyond(a)' # {}
      BY <1>9, <3>3, BeyondGrows
    <3> QED
      BY <1>5, <1>9, <2>1, <2>3, <3>4 DEF TurnEnds
  <2> QED
    BY <2>2, <2>3
<1>10. ASSUME WritesNothing \/ Approves PROVE OvertakenInv'
  BY <1>4, <1>10 DEF WritesNothing, Approves, AgentIs
<1>11. ASSUME NEW e, BeginsAgain(e) PROVE OvertakenInv'
  <2>1. PICK drifted \in BOOLEAN :
          LET c == AgentRecoveryCheckpoint(drifted)
          IN  Restores(c) /\ ag'.pc = "loop" /\ ag'.outputs = c.outputs
    BY <1>11 DEF BeginsAgain, AgentIs
  <2> PICK c : c = AgentRecoveryCheckpoint(drifted)
    OBVIOUS
  <2>2. OpenIn(D) = {} => c.outputs = "none"
    BY <2>1, BeginHears
  <2>3. ASSUME late # <<>>, Beyond(late[1].att) = {} PROVE OpenIn(D) = {}
    <3> PICK a \in Nat : a = late[1].att
      BY <1>0, <2>3
    <3> SUFFICES ASSUME NEW k \in OpenIn(D) PROVE FALSE
      OBVIOUS
    <3>1. Owes(a)
      BY <2>3 DEF RejectionsInv
    <3>2. k \in Rejections /\ \A s \in SubmissionsIn(D) : Comes(s, k)
      BY DEF OpenIn, Rejections
    <3>3. k \in D /\ k \in Nat /\ log[k].att \in Nat
      BY <1>0, <3>2, SubmissionsArePart
    <3>4. \A s \in SubmissionsIn(D) : s \in D /\ s \in Nat /\ log[s].att \in Nat /\ log[s].att <= a
      BY <1>0, <2>3, SubmissionsArePart DEF Beyond
    <3>5. PICK i \in SubmissionsIn(D) : log[i].att = a
      BY <3>1 DEF Owes
    <3>6. PICK j \in SubmissionsIn(D) : log[j].att = log[k].att
      BY <3>2 DEF RejectionsInv, Answering
    <3>7. log[k].att = a
      <4>1. Comes(i, k) /\ log[j].att <= a
        BY <3>2, <3>4, <3>5, <3>6
      <4> QED
        BY <3>3, <3>4, <3>5, <3>6, <4>1 DEF Comes
    <3>8. PICK m \in SubmissionsIn(D) : log[m].att = a /\ k < m
      BY <3>1, <3>2, <3>7 DEF Owes
    <3>9. Comes(m, k) /\ m \in Nat
      BY <3>2, <3>4, <3>8
    <3> QED
      BY <3>3, <3>7, <3>8, <3>9 DEF Comes
  <2>4. Added(e) /\ e.kind = "begin" /\ late' = late
    BY <1>11 DEF BeginsAgain, BeginsWith
  <2> QED
    BY <1>7, <2>1, <2>2, <2>3, <2>4 DEF TurnEnds
<1>12. ASSUME NEW e, BeginsInVain(e) PROVE OvertakenInv'
  BY <1>7, <1>12 DEF BeginsInVain, BeginsWith, TurnEnds
<1>13. ASSUME NEW e, WritesLate(e) PROVE OvertakenInv'
  <2>1. Added(e) /\ e.kind = "rejected" /\ late' = <<>> /\ late # <<>> /\ late[1] = e
    BY <1>13 DEF WritesLate
  <2>2. Unheard(e.att)
    BY <1>1, <2>1
  <2> QED
    BY <1>3, <1>6, <2>1, <2>2
<1>14. ASSUME NEW e, Starts(e) PROVE OvertakenInv'
  BY <1>1, <1>7, <1>14 DEF Starts, WritesOwn, AgentIs, TurnEnds
<1>15. ASSUME NEW e, Stops(e) PROVE OvertakenInv'
  <2>1. CASE ag.pc = "loop"
    <3>1. e.kind = "failed" /\ e.request = Request /\ Added(e) /\ e.att = attempt /\ late' = late
      BY <1>15, <2>1 DEF Stops
    <3>2. ag.outputs = "none" => e.request.outputs = "none" /\ ~e.request.repair
      BY <3>1, RequestTyped
    <3> QED
      BY <1>8, <2>1, <3>1, <3>2 DEF TurnEnds
  <2>2. CASE ag.pc = "called"
    BY <1>8, <1>15, <2>2 DEF Stops, AgentInv
  <2>3. CASE ag.pc = "submitted"
    BY <1>9, <1>15, <2>3 DEF Stops
  <2>4. CASE ag.pc = "accepted"
    BY <1>7, <1>15, <2>4 DEF Stops, TurnEnds
  <2> QED
    BY <1>2, <1>15, <2>1, <2>2, <2>3, <2>4 DEF Stops
<1>16. ASSUME NEW e, Retries(e) \/ HasSubmission(e) PROVE OvertakenInv'
  <2>1. /\ WritesOwn(e) /\ e.kind \in TurnEnds /\ ag.pc = "called" /\ e.request = ag.request
    BY <1>16 DEF Retries, HasSubmission, Completes, TurnEnds
  <2>2. ag.outputs = "none" => e.request.outputs = "none" /\ ~e.request.repair
    BY <2>1 DEF AgentInv
  <2> QED
    BY <1>8, <2>1, <2>2 DEF WritesOwn
<1>17. ASSUME NEW e, HasRead(e) \/ HasMemo(e) \/ CallsRead(e) \/ HasAnswer(e) PROVE FALSE
  BY <1>2, <1>17 DEF HasRead, HasMemo, Completes, CallsRead, HasAnswer
<1>18. ASSUME NEW e, Rejects(e) PROVE OvertakenInv'
  BY <1>9, <1>18 DEF Rejects, WritesOwn, Validates
<1>19. OvertakenInv'
  BY <1>10, <1>11, <1>12, <1>13, <1>14, <1>15, <1>16, <1>17, <1>18 DEF TurnMoved
<1> QED
  BY <1>0, <1>19 DEF OvertakenInv

LEMMA KnowsStep ==
  ASSUME TurnsTyped, AgentInv, EventsInv, RejectionsInv, OvertakenInv, KnowsInv,
         ResearchTurnsAssumption, TurnMoved
  PROVE  KnowsInv'
<1>0. attempt \in Nat /\ protocol' = protocol
  <2>1. protocol' = protocol
    BY MovesLog DEF Stays
  <2> QED
    BY <2>1 DEF TurnsTyped, TaskTyped
<1>1. ASSUME ag'.pc \notin {"loop", "called", "submitted"} PROVE KnowsInv'
  BY <1>1 DEF KnowsInv
<1>2. ASSUME protocol = "outcome" PROVE KnowsInv'
  BY <1>0, <1>2 DEF KnowsInv
<1>3. ASSUME protocol = "research"
      PROVE  /\ ag.pc \in {"loop", "called"} =>
                  \A k \in Rejections :
                    AfterSubmissions(k) /\ log[k].detail = "deliberation" /\ KnownTo(k, attempt)
                      => ag.outputs = "deliberation"
             /\ ag.pc = "submitted" => \A k \in Rejections : AfterSubmissions(k) => ~KnownTo(k, attempt)
             /\ ag.pc \notin {"reading", "read"}
             /\ ag.pc \in {"called"} => ag.phase = "Submit"
  BY <1>3 DEF KnowsInv, AgentInv, InSession
\* An event that neither submits nor rejects.
<1>4. ASSUME NEW e, Added(e), ~IsSubmission(e), e.kind # "rejected", e.kind # "begin"
      PROVE  /\ Rejections' = Rejections
             /\ \A k \in Rejections : /\ AfterSubmissions(k)' <=> AfterSubmissions(k)
                                      /\ log'[k] = log[k]
                                      /\ KnownTo(k, attempt') = KnownTo(k, attempt)'
  <2>1. /\ \A i \in D : log'[i] = log[i]
        /\ Rejections' = Rejections /\ SubmissionsIn(D)' = SubmissionsIn(D)
        /\ In(D, {"begin"})' = In(D, {"begin"}) /\ Rejections \subseteq D
        /\ In(D, {"begin"}) \subseteq D
    BY <1>4, AddedReview
  <2>2. ASSUME NEW k \in Rejections PROVE AfterSubmissions(k)' <=> AfterSubmissions(k)
    BY <2>1 DEF AfterSubmissions
  <2>3. ASSUME NEW k \in Rejections PROVE KnownTo(k, attempt') = KnownTo(k, attempt)'
    BY <2>1 DEF KnownTo
  <2> QED
    BY <2>1, <2>2, <2>3
<1>5. ASSUME NEW e, Starts(e) \/ Retries(e) PROVE KnowsInv'
  <2>1. /\ Added(e) /\ ~IsSubmission(e) /\ e.kind # "rejected" /\ e.kind # "begin"
        /\ attempt' = attempt /\ ag'.pc \in {"loop", "called"} /\ ag'.outputs = ag.outputs
        /\ ag.pc \in {"loop", "called"}
    BY <1>5 DEF Starts, Retries, WritesOwn, Stays, AgentIs, IsSubmission
  <2>2. CASE protocol = "research"
    BY <1>3, <1>4, <2>1, <2>2 DEF KnowsInv
  <2> QED
    BY <1>0, <2>2 DEF KnowsInv
<1>6. ASSUME NEW e, HasSubmission(e), protocol = "research" PROVE KnowsInv'
  <2>1. Added(e) /\ e.kind = "completed" /\ IsSubmission(e) /\ ag'.pc = "submitted"
    BY <1>3, <1>6 DEF HasSubmission, Completes, WritesOwn, AgentIs, IsSubmission, AgentInv
  <2>2. /\ Rejections' = Rejections /\ Top \in SubmissionsIn(D)' /\ Rejections \subseteq D
        /\ \A i \in D : i < Top /\ i \in Nat
        /\ Top \in Nat
    BY <2>1, AddedReview
  <2>3. \A k \in Rejections' : ~AfterSubmissions(k)'
    BY <2>2 DEF AfterSubmissions
  <2> QED
    BY <2>1, <2>3 DEF KnowsInv
<1>7. ASSUME NEW e, Added(e), e.kind = "rejected", Stays
      PROVE  \E t :
               /\ log'[t] = e /\ Rejections' = Rejections \cup {t}
               /\ \A k \in Rejections : /\ AfterSubmissions(k)' <=> AfterSubmissions(k)
                                        /\ log'[k] = log[k]
                                        /\ KnownTo(k, attempt)' <=> KnownTo(k, attempt)
               /\ KnownTo(t, attempt)' <=> e.att = attempt
  <2> PICK t : t = Top
    OBVIOUS
  <2>1. ~IsSubmission(e)
    BY <1>7 DEF IsSubmission
  <2>2. /\ \A i \in D : log'[i] = log[i] /\ i \in Nat /\ i < t
        /\ t \in Nat /\ log'[t] = e
        /\ Rejections' = Rejections \cup {t} /\ SubmissionsIn(D)' = SubmissionsIn(D)
        /\ In(D, {"begin"})' = In(D, {"begin"}) /\ Rejections \subseteq D
        /\ In(D, {"begin"}) \subseteq D
    BY <1>7, <2>1, AddedReview
  <2>3. ASSUME NEW k \in Rejections PROVE AfterSubmissions(k)' <=> AfterSubmissions(k)
    BY <2>2 DEF AfterSubmissions
  <2>4. ASSUME NEW k \in Rejections PROVE KnownTo(k, attempt)' <=> KnownTo(k, attempt)
    BY <1>7, <2>2 DEF KnownTo, Stays
  <2>5. \A b \in In(D, {"begin"})' : ~(t < b)
    BY <2>2
  <2>6. KnownTo(t, attempt)' <=> e.att = attempt
    BY <1>7, <2>2, <2>5 DEF KnownTo, Stays
  <2> QED
    BY <2>2, <2>3, <2>4, <2>6
<1>8. ASSUME NEW e, WritesLate(e), protocol = "research" PROVE KnowsInv'
  <2>1. /\ Added(e) /\ e.kind = "rejected" /\ Stays /\ ag' = ag /\ late # <<>> /\ late[1] = e
    BY <1>8 DEF WritesLate
  <2>2. CASE ag.pc = "idle"
    BY <1>1, <2>1, <2>2
  <2>3. CASE ag.pc # "idle"
    <3>1. e.att < attempt /\ e.att \in Nat
      BY <2>1, <2>3 DEF RejectionsInv, Added, EventSet
    <3>2. PICK t : /\ log'[t] = e /\ Rejections' = Rejections \cup {t}
                   /\ \A k \in Rejections : /\ AfterSubmissions(k)' <=> AfterSubmissions(k)
                                            /\ log'[k] = log[k]
                                            /\ KnownTo(k, attempt)' <=> KnownTo(k, attempt)
                   /\ KnownTo(t, attempt)' <=> e.att = attempt
      BY <1>7, <2>1
    <3>3. ~KnownTo(t, attempt)'
      BY <1>0, <3>1, <3>2
    <3> QED
      BY <1>3, <1>8, <2>1, <3>2, <3>3 DEF KnowsInv
  <2> QED
    BY <2>2, <2>3
<1>9. ASSUME NEW e, Rejects(e), protocol = "research" PROVE KnowsInv'
  <2>1. /\ Added(e) /\ e.kind = "rejected" /\ Stays /\ ag.pc = "submitted"
        /\ ag'.pc = "loop" /\ ag'.outputs = e.detail
    BY <1>9 DEF Rejects, WritesOwn, Validates, AgentIs
  <2>2. PICK t : /\ log'[t] = e /\ Rejections' = Rejections \cup {t}
                 /\ \A k \in Rejections : /\ AfterSubmissions(k)' <=> AfterSubmissions(k)
                                          /\ log'[k] = log[k]
                                          /\ KnownTo(k, attempt)' <=> KnownTo(k, attempt)
    BY <1>7, <2>1
  <2>3. \A k \in Rejections : AfterSubmissions(k) => ~KnownTo(k, attempt)
    BY <1>3, <1>9, <2>1
  <2> QED
    BY <2>1, <2>2, <2>3 DEF KnowsInv
<1>10. ASSUME NEW e, BeginsAgain(e), protocol = "research" PROVE KnowsInv'
  <2>1. PICK drifted \in BOOLEAN :
          LET c == AgentRecoveryCheckpoint(drifted)
          IN  Restores(c) /\ ag'.pc = "loop" /\ ag'.outputs = c.outputs
    BY <1>10 DEF BeginsAgain, AgentIs
  <2> PICK c : c = AgentRecoveryCheckpoint(drifted)
    OBVIOUS
  <2>2. \A k \in Rejections : AfterSubmissions(k) => c.outputs = log[k].detail
    BY <1>10, <2>1, BeginHears
  <2>3. Added(e) /\ e.kind = "begin"
    BY <1>10 DEF BeginsAgain, BeginsWith
  <2>4. ~IsSubmission(e)
    BY <2>3 DEF IsSubmission
  <2>5. /\ Rejections' = Rejections /\ SubmissionsIn(D)' = SubmissionsIn(D)
        /\ \A k \in Rejections : log'[k] = log[k]
    BY <2>3, <2>4, AddedReview
  <2>6. \A k \in Rejections' : AfterSubmissions(k)' => ag'.outputs = log'[k].detail
    BY <2>1, <2>2, <2>5 DEF AfterSubmissions
  <2> QED
    BY <2>1, <2>6 DEF KnowsInv
<1>11. ASSUME NEW e, HasRead(e) \/ HasMemo(e) \/ CallsRead(e) \/ HasAnswer(e), protocol = "research"
       PROVE  FALSE
  BY <1>3, <1>11 DEF HasRead, HasMemo, Completes, CallsRead, HasAnswer
<1>12. ASSUME NEW e, WritesNothing \/ Approves \/ BeginsInVain(e) \/ Stops(e) PROVE KnowsInv'
  BY <1>1, <1>12 DEF WritesNothing, Approves, BeginsInVain, Stops, AgentIs
<1>13. protocol \in {"research", "outcome"}
  BY DEF TurnsTyped, TaskTyped
<1> QED
  BY <1>2, <1>5, <1>6, <1>8, <1>9, <1>10, <1>11, <1>12, <1>13 DEF TurnMoved

LEMMA LastSame ==
  ASSUME TurnsTyped, NEW e, Added(e), ResultsIn(D) # {},
         ~(IsSubmission(e) /\ e.reply.result # "none")
  PROVE  LastResult' = LastResult
<1>1. /\ log \in Seq(EventSet) /\ D = 1 .. Len(log) /\ Len(log) \in Nat
  BY LogDomain DEF TurnsTyped, LogTyped
<1>2. /\ \A i \in D : log'[i] = log[i]
      /\ ResultsIn(D)' = ResultsIn(D) /\ ResultsIn(D) \subseteq D
  BY AddedReview
<1>3. ResultsIn(D) \in SUBSET (0 .. Len(log))
  BY <1>1, <1>2
<1> PICK m : m = Max(ResultsIn(D))
  OBVIOUS
<1>4. m \in D
  BY <1>1, <1>2, <1>3, MaxIsGreatest
<1>5. LastResult = log[m].reply.result /\ LastResult' = log'[m].reply.result
  BY <1>2 DEF LastResult
<1> QED
  BY <1>2, <1>4, <1>5

LEMMA LastNew ==
  ASSUME TurnsTyped, NEW e, Added(e), IsSubmission(e), e.reply.result # "none"
  PROVE  LastResult' = e.reply.result /\ ResultsIn(D)' # {}
<1>1. /\ log \in Seq(EventSet) /\ D = 1 .. Len(log) /\ Len(log) \in Nat /\ Top = Len(log) + 1
  BY LogDomain DEF TurnsTyped, LogTyped, Top
<1> PICK t : t = Top
  OBVIOUS
<1> PICK R : R = ResultsIn(D)'
  OBVIOUS
<1>2. /\ log'[t] = e /\ R = ResultsIn(D) \cup {t} /\ ResultsIn(D) \subseteq D
      /\ \A i \in D : i < t /\ i \in Nat
  BY AddedReview
<1>3. R \in SUBSET (0 .. t) /\ t \in Nat /\ t \in R
  BY <1>1, <1>2
<1>4. Max(R) \in R /\ \A y \in R : y <= Max(R)
  BY <1>3, MaxIsGreatest
<1>5. Max(R) = t
  <2> PICK m : m = Max(R)
    OBVIOUS
  <2>1. m \in R /\ t <= m /\ m \in 0 .. t
    BY <1>3, <1>4
  <2> QED
    BY <1>3, <2>1
<1>6. LastResult' = log'[Max(R)].reply.result
  BY DEF LastResult
<1> QED
  BY <1>2, <1>5, <1>6

LEMMA BoundStep ==
  ASSUME TurnsTyped, AgentInv, EventsInv, RejectionsInv, OvertakenInv, BoundInv,
         ResearchTurnsAssumption, TurnMoved
  PROVE  BoundInv'
<1>0. protocol' = protocol
  BY MovesLog DEF Stays
<1> SUFFICES ASSUME protocol = "research" PROVE BoundInv'
  BY <1>0 DEF BoundInv
<1>1. /\ SubmissionsIn(D) # {} => ResultsIn(D) # {}
      /\ ag.pc \in {"loop", "called"} =>
           /\ ag.outputs \in Verdicts => SubmissionsIn(D) # {}
           /\ SubmissionsIn(D) # {} => ag.last = LastResult
      /\ ag.pc = "submitted" /\ Validates => Bound = LastResult
      /\ ag.pc \notin {"reading", "read"}
      /\ ag.pc = "called" => /\ ag.phase = "Submit" /\ ag.request.phase = "Submit"
                             /\ ag.request.repair <=> ag.outputs = "deliberation"
  BY DEF BoundInv, AgentInv, InSession
<1> DEFINE Grounded == \A i \in SubmissionsIn(D) : \E j \in ResultsIn(D) : j <= i
<1>1a. Grounded
  BY DEF BoundInv
<1>1b. ASSUME NEW e, Added(e), ResultsIn(D)' # {} PROVE Grounded'
  <2>1. /\ ResultsIn(D) \subseteq ResultsIn(D)' /\ SubmissionsIn(D)' \subseteq SubmissionsIn(D) \cup {Top}
        /\ \A j \in ResultsIn(D)' : j <= Top
    <3>1. /\ ResultsIn(D)' \subseteq D \cup {Top} /\ \A i \in D : i \in Nat /\ i < Top
          /\ Top \in Nat
      BY <1>1b, AddedReview
    <3>2. ResultsIn(D) \subseteq ResultsIn(D)' /\ SubmissionsIn(D)' \subseteq SubmissionsIn(D) \cup {Top}
      BY <1>1b, AddedReview
    <3> QED
      BY <3>1, <3>2
  <2> QED
    BY <1>1a, <1>1b, <2>1
<1> HIDE DEF Grounded
\* Nothing is submitted.
<1>2. ASSUME NEW e, Added(e), ~IsSubmission(e)
      PROVE  /\ SubmissionsIn(D)' = SubmissionsIn(D) /\ ResultsIn(D)' = ResultsIn(D)
             /\ Grounded'
             /\ ResultsIn(D) # {} => LastResult' = LastResult
  <2>1. SubmissionsIn(D)' = SubmissionsIn(D) /\ ResultsIn(D)' = ResultsIn(D)
    BY <1>2, AddedReview
  <2>2. Grounded'
    BY <1>1a, <2>1 DEF Grounded
  <2> QED
    BY <1>2, <2>1, <2>2, LastSame
<1>3. ASSUME ag'.pc \notin {"loop", "called", "submitted"},
             log' = log \/ \E e : Added(e) /\ ~IsSubmission(e)
      PROVE  BoundInv'
  <2>1. SubmissionsIn(D)' = SubmissionsIn(D) /\ ResultsIn(D)' = ResultsIn(D)
    BY <1>2, <1>3, LogSame
  <2>2. Grounded'
    BY <1>1a, <2>1 DEF Grounded
  <2> QED
    BY <1>3, <2>2 DEF BoundInv, Grounded
<1>4. ASSUME NEW e, Starts(e) \/ Retries(e) PROVE BoundInv'
  <2>1. /\ Added(e) /\ ~IsSubmission(e) /\ ag'.pc \in {"loop", "called"}
        /\ ag'.outputs = ag.outputs /\ ag'.last = ag.last /\ ag.pc \in {"loop", "called"}
    BY <1>4 DEF Starts, Retries, WritesOwn, AgentIs, IsSubmission
  <2> QED
    BY <1>1, <1>2, <2>1 DEF BoundInv, Grounded
<1>5. ASSUME NEW e, WritesLate(e) PROVE BoundInv'
  <2>1. Added(e) /\ ~IsSubmission(e) /\ ag' = ag
    BY <1>5 DEF WritesLate, IsSubmission
  <2>2. (Validates' <=> Validates) /\ Bound' = Bound
    BY <2>1 DEF Validates, Bound
  <2>3. ag.pc = "submitted" => SubmissionsIn(D) # {}
    BY DEF RejectionsInv, Owes
  <2> QED
    BY <1>1, <1>2, <2>1, <2>2, <2>3 DEF BoundInv, Grounded
<1>6. ASSUME NEW e, Rejects(e) PROVE BoundInv'
  <2>1. /\ Added(e) /\ ~IsSubmission(e) /\ Validates /\ ag.pc = "submitted"
        /\ ag'.pc = "loop" /\ ag'.last = Bound
    BY <1>6 DEF Rejects, WritesOwn, AgentIs, IsSubmission, Validates
  <2>2. SubmissionsIn(D) # {}
    BY <2>1 DEF RejectionsInv, Owes
  <2> QED
    BY <1>1, <1>2, <2>1, <2>2 DEF BoundInv, Grounded
<1>7. ASSUME NEW e, HasSubmission(e) PROVE BoundInv'
  <2>1. /\ Added(e) /\ Sound(e) /\ e.kind = "completed" /\ e.request = ag.request
        /\ ag.pc = "called" /\ ag'.pc = "submitted" /\ ag'.last = ag.last
        /\ ag'.result = e.reply.result /\ ag'.request = ag.request /\ e.reply.kind = "submission"
    BY <1>7 DEF HasSubmission, Completes, WritesOwn, AgentIs
  <2>2. IsSubmission(e)
    BY <1>1, <2>1 DEF IsSubmission
  <2>3. CASE e.reply.result # "none"
    <3>1. LastResult' = e.reply.result /\ ResultsIn(D)' # {}
      BY <2>1, <2>2, <2>3, LastNew
    <3>2. Validates' => Bound' = e.reply.result
      BY <2>1, <2>3 DEF Validates, Bound
    <3> QED
      BY <1>1b, <2>1, <3>1, <3>2 DEF BoundInv, Grounded
  <2>4. CASE e.reply.result = "none"
    <3>1. ag.request.repair
      BY <1>1, <2>1, <2>4 DEF Sound
    <3>2. SubmissionsIn(D) # {} /\ ag.last = LastResult /\ ResultsIn(D) # {}
      BY <1>1, <2>1, <3>1 DEF Verdicts
    <3>3. LastResult' = LastResult /\ ResultsIn(D)' # {}
      BY <2>1, <2>4, <3>2, LastSame, AddedReview
    <3>4. Bound' = ag.last
      BY <2>1, <3>1 DEF Bound
    <3> QED
      BY <1>1b, <2>1, <3>2, <3>3, <3>4 DEF BoundInv, Grounded
  <2> QED
    BY <2>3, <2>4
<1>8. ASSUME NEW e, BeginsAgain(e) PROVE BoundInv'
  <2>1. PICK drifted \in BOOLEAN :
          LET c == AgentRecoveryCheckpoint(drifted)
          IN  Restores(c) /\ ag'.pc = "loop" /\ ag'.outputs = c.outputs /\ ag'.last = c.last
    BY <1>8 DEF BeginsAgain, AgentIs
  <2> PICK c : c = AgentRecoveryCheckpoint(drifted)
    OBVIOUS
  <2>2. /\ c.outputs \in Verdicts => SubmissionsIn(D) # {}
        /\ ResultsIn(D) # {} => c.last = LastResult
    BY <2>1, BeginHears
  <2>3. Added(e) /\ ~IsSubmission(e)
    BY <1>8 DEF BeginsAgain, BeginsWith, IsSubmission
  <2> QED
    BY <1>1, <1>2, <2>1, <2>2, <2>3 DEF BoundInv, Grounded
<1>9. ASSUME NEW e, HasRead(e) \/ HasMemo(e) \/ CallsRead(e) \/ HasAnswer(e)
       PROVE  FALSE
  BY <1>1, <1>9 DEF HasRead, HasMemo, Completes, CallsRead, HasAnswer
<1>10. ASSUME WritesNothing \/ Approves PROVE BoundInv'
  BY <1>3, <1>10 DEF WritesNothing, Approves, AgentIs
<1>11. ASSUME NEW e, BeginsInVain(e) PROVE BoundInv'
  BY <1>3, <1>11 DEF BeginsInVain, BeginsWith, IsSubmission
<1>12. ASSUME NEW e, Stops(e) PROVE BoundInv'
  <2>1. Added(e) /\ ag'.pc \in {"idle", "ending"}
    BY <1>12 DEF Stops
  <2>2. CASE ~IsSubmission(e)
    BY <1>3, <2>1, <2>2
  <2>3. CASE IsSubmission(e)
    <3>1. ag.pc = "called" /\ e.request = ag.request /\ e.kind = "completed" /\ Sound(e)
      BY <1>12, <2>3 DEF Stops, IsSubmission
    <3>2. CASE e.reply.result # "none"
      <4>1. ResultsIn(D)' # {}
        BY <2>1, <2>3, <3>2, LastNew
      <4> QED
        BY <1>1b, <2>1, <4>1 DEF BoundInv, Grounded
    <3>3. CASE e.reply.result = "none"
      <4>1. ag.request.repair
        BY <2>3, <3>1, <3>3 DEF Sound, IsSubmission
      <4>2. ResultsIn(D) # {}
        BY <1>1, <3>1, <4>1 DEF Verdicts
      <4>3. ResultsIn(D)' # {}
        BY <2>1, <4>2, AddedReview
      <4> QED
        BY <1>1b, <2>1, <4>3 DEF BoundInv, Grounded
    <3> QED
      BY <3>2, <3>3
  <2> QED
    BY <2>2, <2>3
<1> QED
  BY <1>4, <1>5, <1>6, <1>7, <1>8, <1>9, <1>10, <1>11, <1>12 DEF TurnMoved

\* Nothing but a submission changes what a result was frozen to.
LEMMA FrozenStill ==
  ASSUME TurnsTyped, BoundInv, protocol = "research", NEW e, Added(e), ~IsSubmission(e),
         e.kind = "begin" => attempt < e.att, NEW r, FrozenTo(r)
  PROVE  FrozenTo(r)'
<1> PICK t : t = Top
  OBVIOUS
<1>1. /\ t \in Nat /\ log'[t] = e /\ attempt \in Nat /\ e.att \in Nat
      /\ \A i \in D : i \in Nat /\ i < t /\ log'[i] = log[i] /\ log[i].att \in Nat
                      /\ log[i].att <= attempt
      /\ Rejections' = Rejections \cup (IF e.kind = "rejected" THEN {t} ELSE {})
      /\ SubmissionsIn(D)' = SubmissionsIn(D) /\ ResultsIn(D)' = ResultsIn(D)
      /\ In(D, {"begin"})' = In(D, {"begin"}) \cup (IF e.kind = "begin" THEN {t} ELSE {})
      /\ Rejections \subseteq D /\ SubmissionsIn(D) \subseteq D /\ ResultsIn(D) \subseteq D
      /\ In(D, {"begin"}) \subseteq D
  BY AddedReview DEF TurnsTyped, TaskTyped
<1>2. ASSUME NEW i \in SubmissionsIn(D) PROVE ResultAt(i)' = ResultAt(i)
  <2> PICK R : R = {j \in ResultsIn(D) : j <= i}
    OBVIOUS
  <2>1. R # {} /\ R \subseteq D
    BY <1>1 DEF BoundInv
  <2>2. D = 1 .. Len(log) /\ Len(log) \in Nat
    BY LogDomain DEF TurnsTyped, LogTyped
  <2>3. R \in SUBSET (0 .. Len(log))
    BY <2>1, <2>2
  <2> PICK m : m = Max(R)
    OBVIOUS
  <2>4. m \in D
    BY <2>1, <2>2, <2>3, MaxIsGreatest
  <2>5. ResultAt(i) = log[m].reply.result /\ ResultAt(i)' = log'[m].reply.result
    BY <1>1 DEF ResultAt
  <2> QED
    BY <1>1, <2>4, <2>5
<1>3. ASSUME NEW i \in SubmissionsIn(D), NEW j \in SubmissionsIn(D), Freezes(i, j)'
      PROVE  Freezes(i, j)
  <2>1. i < j /\ \A k \in SubmissionsIn(D) : k <= i \/ k = j
    BY <1>1, <1>3 DEF Freezes
  <2>2. PICK k \in Rejections' :
          /\ i < k /\ log'[k].detail = "deliberation"
          /\ IF log'[k].att = log'[j].att THEN k < j
             ELSE \E b \in In(D, {"begin"})' : log'[b].att = log'[j].att /\ k < b
    BY <1>3 DEF Freezes
  <2>3. j \in D /\ log'[j] = log[j] /\ log[j].att <= attempt /\ j < t /\ j \in Nat
        /\ log[j].att \in Nat
    BY <1>1
  <2>4. k \in D \/ (k = t /\ e.kind = "rejected")
    BY <1>1
  <2>5. k \in D
    <3>1. CASE k = t /\ e.kind = "rejected"
      <4>1. ~(k < j)
        BY <1>1, <2>3, <3>1
      <4>2. \A b \in In(D, {"begin"})' : ~(k < b)
        <5>1. In(D, {"begin"})' \subseteq D
          BY <1>1, <3>1
        <5>2. k \in Nat /\ \A b \in D : b \in Nat /\ b < k
          BY <1>1, <3>1
        <5> QED
          BY <5>1, <5>2
      <4> QED
        BY <2>2, <4>1, <4>2
    <3> QED
      BY <2>4, <3>1
  <2>6. k \in Rejections /\ log'[k] = log[k]
    BY <1>1, <2>5
  <2>7. CASE log[k].att = log[j].att
    BY <2>1, <2>2, <2>3, <2>6, <2>7 DEF Freezes
  <2>8. CASE log[k].att # log[j].att
    <3>1. PICK b \in In(D, {"begin"})' : log'[b].att = log[j].att /\ k < b
      BY <2>2, <2>3, <2>6, <2>8
    <3>2. b # t \/ e.kind # "begin"
      BY <1>1, <2>3, <3>1
    <3>3. b \in In(D, {"begin"})
      BY <1>1, <3>1, <3>2
    <3>4. log[b].att = log[j].att
      BY <1>1, <3>1, <3>3
    <3> QED
      BY <2>1, <2>2, <2>6, <2>8, <3>1, <3>3, <3>4 DEF Freezes
  <2> QED
    BY <2>7, <2>8
<1> QED
  BY <1>1, <1>2, <1>3 DEF FrozenTo

\* A submission that answers a rejected deliberation stands for the same result.
LEMMA FrozenAgain ==
  ASSUME TurnsTyped, AgentInv, BoundInv, KnowsInv, protocol = "research", NEW e, HasSubmission(e),
         NEW r, r = Bound'
  PROVE  FrozenTo(r)'
<1> PICK t : t = Top
  OBVIOUS
<1>0. /\ Added(e) /\ e.kind = "completed" /\ e.request = ag.request /\ e.att = attempt
      /\ ag.pc = "called" /\ ag'.last = ag.last /\ ag'.request = ag.request
      /\ e.reply.kind = "submission" /\ ag.phase = "Submit"
  BY DEF HasSubmission, Completes, WritesOwn, AgentIs
<1>1. IsSubmission(e) /\ (ag.outputs = "deliberation" => ag.request.repair)
  BY <1>0 DEF IsSubmission, AgentInv
<1>2. /\ t \in Nat /\ log'[t] = e
      /\ \A i \in D : i \in Nat /\ i < t /\ log'[i] = log[i]
      /\ Rejections' = Rejections
      /\ SubmissionsIn(D)' = SubmissionsIn(D) \cup {t}
      /\ ResultsIn(D)' \subseteq ResultsIn(D) \cup {t} /\ ResultsIn(D) \subseteq ResultsIn(D)'
      /\ In(D, {"begin"})' = In(D, {"begin"})
      /\ Rejections \subseteq D /\ SubmissionsIn(D) \subseteq D /\ ResultsIn(D) \subseteq D
      /\ In(D, {"begin"}) \subseteq D
  BY <1>0, <1>1, AddedReview
<1> SUFFICES ASSUME NEW i \in SubmissionsIn(D)', NEW j \in SubmissionsIn(D)', Freezes(i, j)'
             PROVE  r = ResultAt(i)'
  BY DEF FrozenTo
<1>3. i < j /\ \A s \in SubmissionsIn(D)' : s <= i \/ s = j
  BY DEF Freezes
<1>4. j = t /\ i # t /\ i \in SubmissionsIn(D)
  <2>1. i <= t /\ i \in Nat
    BY <1>2
  <2>2. j <= t /\ j \in Nat
    BY <1>2
  <2>3. t <= i \/ t = j
    BY <1>2, <1>3
  <2>4. i # t /\ j = t
    BY <1>2, <1>3, <2>1, <2>2, <2>3
  <2> QED
    BY <1>2, <2>4
<1>5. PICK k \in Rejections' :
        /\ i < k /\ log'[k].detail = "deliberation"
        /\ IF log'[k].att = log'[j].att THEN k < j
           ELSE \E b \in In(D, {"begin"})' : log'[b].att = log'[j].att /\ k < b
  BY DEF Freezes
<1>6. /\ k \in Rejections /\ k \in D /\ log[k].detail = "deliberation" /\ log'[j].att = attempt
      /\ log'[k] = log[k] /\ k \in Nat /\ i \in Nat
  BY <1>0, <1>2, <1>4, <1>5
<1>7. \A s \in SubmissionsIn(D) : s <= i /\ s \in Nat
  <2> SUFFICES ASSUME NEW s \in SubmissionsIn(D) PROVE s <= i /\ s \in Nat
    OBVIOUS
  <2>1. s \in SubmissionsIn(D)' /\ s \in Nat /\ s < t
    BY <1>2
  <2> QED
    BY <1>2, <1>3, <1>4, <2>1
<1>8. AfterSubmissions(k)
  BY <1>5, <1>6, <1>7 DEF AfterSubmissions
<1>9. KnownTo(k, attempt)
  <2>1. CASE log[k].att = attempt
    BY <2>1 DEF KnownTo
  <2>2. CASE log[k].att # attempt
    <3>1. PICK b \in In(D, {"begin"}) : log'[b].att = attempt /\ k < b
      BY <1>2, <1>5, <1>6, <2>2
    <3>2. log[b].att = attempt
      BY <1>2, <3>1
    <3> QED
      BY <3>1, <3>2 DEF KnownTo
  <2> QED
    BY <2>1, <2>2
<1>10. ag.outputs = "deliberation"
  BY <1>0, <1>6, <1>8, <1>9 DEF KnowsInv
<1>11. r = ag.last
  BY <1>0, <1>1, <1>10 DEF Bound
<1>12. ag.last = LastResult /\ ResultsIn(D) # {}
  BY <1>0, <1>4 DEF BoundInv
<1>13. {q \in ResultsIn(D)' : q <= i} = ResultsIn(D)
  <2>1. \A q \in ResultsIn(D) : q \in ResultsIn(D)' /\ q <= i
    BY <1>2, <1>7, SubmissionsArePart
  <2>2. ~(t <= i)
    BY <1>2, <1>3, <1>4, <1>6
  <2> QED
    BY <1>2, <2>1, <2>2
<1>14. LastResult = ResultAt(i)'
  <2> PICK m : m = Max(ResultsIn(D))
    OBVIOUS
  <2>1. D = 1 .. Len(log) /\ Len(log) \in Nat
    BY LogDomain DEF TurnsTyped, LogTyped
  <2>2. ResultsIn(D) \in SUBSET (0 .. Len(log))
    BY <1>2, <2>1
  <2>3. m \in D
    BY <1>2, <1>12, <2>1, <2>2, MaxIsGreatest
  <2>4. LastResult = log[m].reply.result /\ ResultAt(i)' = log'[m].reply.result
    BY <1>13 DEF LastResult, ResultAt
  <2> QED
    BY <1>2, <2>3, <2>4
<1> QED
  BY <1>11, <1>12, <1>14

\* A Task that has an output succeeded, and stays so.
LEMMA OutputStep ==
  ASSUME TurnsTyped, AgentInv, ResearchTurnsAssumption, TurnsNext,
         output # "none" => task = "succeeded"
  PROVE  output' # "none" => task' = "succeeded"
<1>1. task = "running" <=> ag.pc # "idle"
  BY DEF TurnsTyped, TaskTyped
<1>2. ASSUME NEW drifted \in BOOLEAN, Begin(drifted) PROVE output' # "none" => task' = "succeeded"
  BY <1>2 DEF Begin
<1>3. CASE FinishTask \/ CommitOutput \/ LoseAttempt \/ WriteLateRejection \/ LoseRunLog
  BY <1>1, <1>3 DEF FinishTask, CommitOutput, LoseAttempt, WriteLateRejection, LoseRunLog
<1>4. CASE TurnStep /\ UNCHANGED <<protocol, task, attempt, spent, late, output, turnFaults>>
  BY <1>4
<1> QED
  BY <1>2, <1>3, <1>4 DEF TurnsNext

LEMMA FrozenStep ==
  ASSUME TurnsTyped, AgentInv, BoundInv, KnowsInv, FrozenInv, ResearchTurnsAssumption,
         TurnsNext, TurnMoved
  PROVE  FrozenInv'
<1>0. /\ protocol' = protocol /\ (output # "none" => task = "succeeded")
      /\ (output' # "none" => task' = "succeeded")
      /\ (output # "none" => ag.pc = "idle")
  <2>1. protocol' = protocol
    BY MovesLog DEF Stays
  <2> QED
    BY <2>1, OutputStep DEF FrozenInv, TurnsTyped, TaskTyped
<1> SUFFICES ASSUME protocol = "research" PROVE FrozenInv'
  BY <1>0 DEF FrozenInv
<1>1. /\ ag.pc = "submitted" => FrozenTo(Bound)
      /\ ag.pc = "accepted" => FrozenTo(ag.result)
      /\ output # "none" => FrozenTo(output)
  BY DEF FrozenInv
\* What the later review binds is what the earlier one did.
<1>2. ASSUME NEW e, Added(e), ~IsSubmission(e), e.kind = "begin" => attempt < e.att,
             output' # "none" => output' = output \/ (ag.pc = "accepted" /\ output' = ag.result),
             ag'.pc \in {"submitted", "accepted"} => ag' = ag
      PROVE  FrozenInv'
  <2>1. ASSUME ag'.pc = "submitted" PROVE FrozenTo(Bound)'
    <3> PICK r : r = Bound
      OBVIOUS
    <3>1. FrozenTo(r)'
      BY <1>1, <1>2, <2>1, FrozenStill
    <3>2. Bound' = r
      BY <1>2, <2>1 DEF Bound
    <3> QED
      BY <3>1, <3>2 DEF FrozenTo
  <2>2. ASSUME ag'.pc = "accepted" PROVE FrozenTo(ag.result)'
    <3> PICK r : r = ag.result
      OBVIOUS
    <3>1. FrozenTo(r)' /\ ag'.result = r
      BY <1>1, <1>2, <2>2, FrozenStill
    <3> QED
      BY <3>1 DEF FrozenTo
  <2>3. ASSUME output' # "none" PROVE FrozenTo(output)'
    <3> PICK r : r = output'
      OBVIOUS
    <3>1. FrozenTo(r)
      BY <1>1, <1>2, <2>3
    <3>2. FrozenTo(r)'
      BY <1>2, <3>1, FrozenStill
    <3> QED
      BY <3>2 DEF FrozenTo
  <2> QED
    BY <1>0, <2>1, <2>2, <2>3 DEF FrozenInv
\* Nothing is written.
<1>3. ASSUME log' = log, output' = output, ag'.pc # "submitted",
             ag'.pc = "accepted" => ag.pc = "submitted" /\ ag'.result = Bound
      PROVE  FrozenInv'
  <2>1. /\ Rejections' = Rejections /\ SubmissionsIn(D)' = SubmissionsIn(D)
        /\ In(D, {"begin"})' = In(D, {"begin"}) /\ ResultsIn(D)' = ResultsIn(D)
    BY <1>3, LogSame DEF Rejections
  <2>2. /\ \A i, j : Freezes(i, j)' <=> Freezes(i, j)
        /\ \A i : ResultAt(i)' = ResultAt(i)
    BY <1>3, <2>1 DEF Freezes, ResultAt
  <2>3. ASSUME ag'.pc = "accepted" PROVE FrozenTo(ag.result)'
    BY <1>1, <1>3, <2>1, <2>2, <2>3 DEF FrozenTo
  <2>4. ASSUME output' # "none" PROVE FrozenTo(output)'
    BY <1>1, <1>3, <2>1, <2>2, <2>4 DEF FrozenTo
  <2> QED
    BY <1>0, <1>3, <2>3, <2>4 DEF FrozenInv
<1>4. ASSUME NEW e, HasSubmission(e) PROVE FrozenInv'
  <2>1. ag.pc = "called" /\ ag'.pc = "submitted" /\ output' = output
    BY <1>4 DEF HasSubmission, Completes, WritesOwn, AgentIs
  <2>2. output' = "none"
    BY <1>0, <2>1
  <2> PICK r : r = Bound'
    OBVIOUS
  <2>3. FrozenTo(r)'
    BY <1>4, FrozenAgain
  <2>4. FrozenTo(Bound)'
    BY <2>3 DEF FrozenTo
  <2> QED
    BY <1>0, <2>1, <2>2, <2>4 DEF FrozenInv
<1>5. ASSUME NEW e, Stops(e) PROVE FrozenInv'
  <2>1. Added(e) /\ ag'.pc \in {"idle", "ending"}
    BY <1>5 DEF Stops
  <2>2. CASE ag.pc = "called"
    <3>1. output' = "none"
      BY <1>0, <1>5, <2>2 DEF Stops
    <3> QED
      BY <1>0, <2>1, <3>1 DEF FrozenInv
  <2>3. CASE ag.pc # "called"
    <3>1. ~IsSubmission(e) /\ e.kind # "begin"
      BY <1>5, <2>3 DEF Stops, IsSubmission
    <3>2. output' = output \/ (ag.pc = "accepted" /\ output' = ag.result)
      BY <1>5 DEF Stops
    <3> QED
      BY <1>2, <2>1, <3>1, <3>2
  <2> QED
    BY <2>2, <2>3
<1>6. ASSUME NEW e, BeginsAgain(e) \/ BeginsInVain(e) PROVE FrozenInv'
  <2>1. BeginsWith(e) /\ ag'.pc \notin {"submitted", "accepted"}
    BY <1>6 DEF BeginsAgain, BeginsInVain, AgentIs
  <2>2. attempt < e.att
    BY <2>1 DEF BeginsWith, TurnsTyped, TaskTyped
  <2> QED
    BY <1>2, <2>1, <2>2 DEF BeginsWith, IsSubmission
<1>7. ASSUME NEW e, WritesLate(e) PROVE FrozenInv'
  BY <1>2, <1>7 DEF WritesLate, IsSubmission
<1>8. ASSUME NEW e, Starts(e) \/ Retries(e) \/ Rejects(e) PROVE FrozenInv'
  <2>1. /\ Added(e) /\ ~IsSubmission(e) /\ e.kind # "begin" /\ output' = output
        /\ ag'.pc \notin {"submitted", "accepted"}
    BY <1>8 DEF Starts, Retries, Rejects, WritesOwn, AgentIs, IsSubmission
  <2> QED
    BY <1>2, <2>1
<1>9. ASSUME NEW e, HasRead(e) \/ HasMemo(e) \/ CallsRead(e) \/ HasAnswer(e)
      PROVE  FALSE
  BY <1>9 DEF HasRead, HasMemo, Completes, CallsRead, HasAnswer, AgentInv, InSession
<1>10. ASSUME WritesNothing \/ Approves PROVE FrozenInv'
  BY <1>3, <1>10 DEF WritesNothing, Approves, AgentIs, Validates
<1> QED
  BY <1>4, <1>5, <1>6, <1>7, <1>8, <1>9, <1>10 DEF TurnMoved

----
\* The result is frozen.

LEMMA InitReview ==
  ASSUME TurnsInit
  PROVE  ReviewInv
<1> USE DEF TurnsInit
<1>1. D = {} /\ \A K : In(D, K) = {}
  BY NothingLogged
<1>2. SubmissionsIn(D) = {} /\ ResultsIn(D) = {} /\ Rejections = {}
  BY <1>1 DEF SubmissionsIn, ResultsIn, Rejections
<1>3. ag.pc = "idle"
  BY DEF NoAgent
<1>4. RejectionsInv
  BY <1>1, <1>2, <1>3 DEF RejectionsInv, Ordered, Answering, OnceEach
<1>5. OvertakenInv /\ KnowsInv
  BY <1>2, <1>3 DEF OvertakenInv, KnowsInv
<1>6. BoundInv /\ FrozenInv
  BY <1>2, <1>3 DEF BoundInv, FrozenInv
<1> QED
  BY <1>4, <1>5, <1>6 DEF ReviewInv

LEMMA StutterReview ==
  ASSUME ReviewInv, UNCHANGED turnVars
  PROVE  ReviewInv'
<1>1. /\ protocol' = protocol /\ task' = task /\ attempt' = attempt /\ log' = log
      /\ ag' = ag /\ late' = late /\ output' = output
  BY DEF turnVars
<1>2. /\ D' = D /\ \A K : In(D, K)' = In(D, K)
      /\ SubmissionsIn(D)' = SubmissionsIn(D) /\ ResultsIn(D)' = ResultsIn(D)
      /\ Rejections' = Rejections
  BY <1>1, LogSame DEF Rejections
<1>3. RejectionsInv'
  BY <1>1, <1>2 DEF ReviewInv, RejectionsInv, Ordered, Answering, OnceEach, Owes
<1>4. OvertakenInv'
  BY <1>1, <1>2 DEF ReviewInv, OvertakenInv, Unheard, Beyond
<1>5. KnowsInv'
  BY <1>1, <1>2 DEF ReviewInv, KnowsInv, AfterSubmissions, KnownTo
<1>6. BoundInv'
  BY <1>1, <1>2 DEF ReviewInv, BoundInv, LastResult, Validates, Bound
<1>7. FrozenInv'
  BY <1>1, <1>2 DEF ReviewInv, FrozenInv, FrozenTo, Freezes, ResultAt, Bound
<1> QED
  BY <1>3, <1>4, <1>5, <1>6, <1>7 DEF ReviewInv

LEMMA ReviewStep ==
  ASSUME ResearchTurnsAssumption, TurnsInv, ReviewInv, [TurnsNext]_turnVars
  PROVE  ReviewInv'
<1>1. CASE UNCHANGED turnVars
  BY <1>1, StutterReview
<1>2. CASE TurnsNext
  <2>1. /\ TurnsTyped /\ AgentInv /\ EventsInv
        /\ RejectionsInv /\ OvertakenInv /\ KnowsInv /\ BoundInv /\ FrozenInv
    BY DEF TurnsInv, ReviewInv
  <2>2. TurnMoved
    BY <1>2, <2>1, NextMovesTurn
  <2>3. RejectionsInv' /\ OvertakenInv' /\ KnowsInv'
    BY <2>1, <2>2, RejectionsStep, OvertakenStep, KnowsStep
  <2>4. BoundInv' /\ FrozenInv'
    BY <1>2, <2>1, <2>2, BoundStep, FrozenStep
  <2> QED
    BY <2>3, <2>4 DEF ReviewInv
<1> QED
  BY <1>1, <1>2

\* When only the deliberation of a submission was turned down, its result is the
\* one that is committed, whichever attempt brings the next submission: the
\* attempt that follows a crash replays the rejection and repairs under it, and a
\* log in which a rejection arrived too late for that is not taken up again.
THEOREM FrozenResult == ResearchTurnsAssumption => (TurnsSpec => []ResultFrozen)
<1> SUFFICES ASSUME ResearchTurnsAssumption PROVE TurnsSpec => []ResultFrozen
  OBVIOUS
<1>1. TurnsInit => ReviewInv
  BY InitReview
<1>2. TurnsInv /\ ReviewInv /\ [TurnsNext]_turnVars => ReviewInv'
  BY ReviewStep
<1>3. TurnsInv /\ ReviewInv => ResultFrozen
  <2> SUFFICES ASSUME TurnsInv, ReviewInv, protocol = "research", output # "none",
                      NEW i \in Submissions, NEW j \in Submissions,
                      i < j, \A k \in Submissions : k <= i \/ k = j,
                      NEW k \in DOMAIN log, i < k, Is(k, "rejected"),
                      log[k].detail = "deliberation",
                      IF log[k].att = log[j].att THEN k < j
                      ELSE \E b \in DOMAIN log : Is(b, "begin") /\ log[b].att = log[j].att /\ k < b
               PROVE  output = ResultOf(i)
    BY DEF ResultFrozen
  <2>1. Submissions = SubmissionsIn(D)
    BY InTheseWords DEF TurnsInv, TurnsTyped, LogTyped
  <2>2. k \in Rejections
    BY DEF Rejections, In, Is, D
  <2>3. log[k].att # log[j].att =>
          \E b \in In(D, {"begin"}) : log[b].att = log[j].att /\ k < b
    BY DEF In, Is, D
  <2>4. Freezes(i, j)
    BY <2>1, <2>2, <2>3 DEF Freezes
  <2>5. output = ResultAt(i)
    BY <2>1, <2>4 DEF ReviewInv, FrozenInv, FrozenTo
  <2>6. {q \in Submissions : q <= i /\ log[q].reply.result # "none"}
          = {q \in ResultsIn(D) : q <= i}
    BY <2>1 DEF ResultsIn
  <2> QED
    BY <2>5, <2>6 DEF ResultOf, ResultAt
<1> QED
  BY <1>1, <1>2, <1>3, TurnsAlways, PTL DEF TurnsSpec
==============================================================================
