---------------------------- MODULE ResearchTurns ----------------------------
(***************************************************************************)
(* One model Task: the attempts at it, the provider calls they make, and   *)
(* the events by which a later attempt finds out what was already spent    *)
(* and where the conversation stopped.  Every event is a transaction of    *)
(* its own; a crash, a stall or the loss of the run log may come between   *)
(* any two of them.                                                        *)
(*                                                                         *)
(* A research Task starts at Submit; an Outcome Task (one stage of it)     *)
(* drafts first, with governed reads, and submits then.  Tokens are output *)
(* tokens; input tokens and money are bounded by the same ledger.  The     *)
(* clock is a choice: any turn may be refused, cut off or late.  Contract, *)
(* Context, capabilities and prices are one identity: the attempts agree   *)
(* on it, or the later one has drifted.                                    *)
(***************************************************************************)
EXTENDS Integers, FiniteSetsExt, SequencesExt

CONSTANTS TurnAttempts, \* the contract's retry.max_attempts
          MaxOutput,    \* output tokens the whole Task may spend
          MaxTools,     \* governed reads an Outcome Task may make
          MaxBatch,     \* bound on the reads one turn asks for
          Results,      \* what a submission can propose
          TurnFaults    \* bound on crashes, stalls, drifts and lost run logs

ResearchTurnsAssumption ==
  /\ TurnAttempts \in Nat \ {0} /\ MaxOutput \in Nat \ {0} /\ MaxTools \in Nat
  /\ MaxBatch \in Nat \ {0} /\ "none" \notin Results /\ TurnFaults \in Nat

VARIABLES
  protocol, \* "research" or "outcome"
  task,     \* the Task's status
  attempt,  \* the number of the last attempt
  spent,    \* attempts that count against max_attempts; deferred ones do not
  log,      \* the Task's events, in the order of their cursors
  ag,       \* what the live attempt holds in memory
  late,     \* a rejection that a superseded attempt has yet to write
  output,   \* the result of the committed output
  turnFaults

turnVars == <<protocol, task, attempt, spent, log, ag, late, output, turnFaults>>

Phases == {"Draft", "Submit"}
\* Tool outputs that the next request carries.
Feedback == {"none", "reads", "deliberation", "other"}
\* No usage came back.
Unknown == -1

InitialPhase == IF protocol = "research" THEN "Submit" ELSE "Draft"
ToolLimit == IF protocol = "research" THEN 0 ELSE MaxTools
MaxModelCalls == TurnAttempts * (ToolLimit + 3)

NoRequest == [turn |-> 0, phase |-> "Submit", outputs |-> "none", repair |-> FALSE,
              tools |-> FALSE, cap |-> 0]
NoReply == [kind |-> "blank", reads |-> 0, result |-> "none"]
Event(kind, request, used, reply, detail) ==
  [att |-> attempt, kind |-> kind, request |-> request, used |-> used,
   reply |-> reply, detail |-> detail]
Entry(kind, detail) == Event(kind, NoRequest, 0, NoReply, detail)

NoAgent == [pc |-> "idle", end |-> "none", phase |-> "Submit", turn |-> 0, tries |-> 1,
         calls |-> 0, tools |-> 0, tokens |-> 0, unknown |-> FALSE, subs |-> 0,
         outputs |-> "none", reads |-> 0, request |-> NoRequest, last |-> "none",
         result |-> "none"]

TurnsTypeOK ==
  /\ protocol \in {"research", "outcome"}
  /\ task \in {"queued", "running", "succeeded", "failed"}
  /\ attempt \in Nat /\ spent \in 0 .. TurnAttempts /\ turnFaults \in 0 .. TurnFaults
  /\ \A i \in DOMAIN log : log[i].att \in 1 .. attempt
  /\ ag.pc \in {"idle", "loop", "called", "reading", "read", "submitted",
                "rejected", "accepted", "ending"}
  /\ ag.end \in {"none", "retry", "fail", "defer"}
  /\ ag.phase \in Phases /\ ag.outputs \in Feedback
  /\ ag.last \in Results \cup {"none"} /\ ag.result \in Results \cup {"none"}
  /\ output \in Results \cup {"none"}
  /\ ag.pc = "idle" <=> task # "running"
------------------------------------------------------------------------------
(***************************************************************************)
(* Recovery: what an attempt concludes from the events before it.          *)
(***************************************************************************)
\* expect: the reads of the last turn, those called and those answered.
NoReads == [asked |-> 0, called |-> 0, done |-> 0]

FreshCheckpoint ==
  [ok |-> TRUE, recovered |-> FALSE, phase |-> InitialPhase, turn |-> 0,
   outputs |-> "none", subs |-> 0, answered |-> FALSE, calls |-> 0, tools |-> 0,
   tokens |-> 0, failure |-> FALSE, open |-> {}, expect |-> NoReads, last |-> "none"]

Broken(c) == [c EXCEPT !.ok = FALSE]

\* The reply of a completed turn moves the conversation on.
FoldReply(c, e) ==
  LET n == [c EXCEPT !.outputs = "none", !.answered = TRUE,
                     !.tokens = @ + e.used,
                     !.failure = @ \/ e.used > e.request.cap,
                     !.turn = @ + 1]
      kind == e.reply.kind
  IN  CASE c.phase = "Draft" /\ kind = "reads" ->
             [n EXCEPT !.expect = [asked |-> e.reply.reads, called |-> 0, done |-> 0]]
        [] c.phase = "Draft" /\ kind = "memo" -> [n EXCEPT !.phase = "Submit"]
        [] c.phase = "Submit" /\ kind \in {"submission", "muddled"} ->
             [n EXCEPT !.subs = @ + 1,
                       !.last = IF e.reply.result = "none" THEN @ ELSE e.reply.result]
        [] OTHER -> Broken(c)

\* A turn continues the checkpoint, or it is the repair of a deliberation,
\* which carries neither the conversation nor its outputs.
Continues(c, r) ==
  /\ c.expect = NoReads /\ r.turn = c.turn /\ r.phase = c.phase
  /\ IF r.repair THEN protocol = "research" /\ c.outputs = "deliberation"
     ELSE r.outputs = c.outputs /\ (r.phase = "Draft" => r.tools)

FoldTurn(c, e) ==
  LET closed == [c EXCEPT !.open = @ \ {e.att}]
  IN  IF ~Continues(c, e.request) THEN Broken(c)
      ELSE IF e.kind = "completed" THEN FoldReply(closed, e)
      ELSE IF e.used = Unknown THEN [closed EXCEPT !.failure = TRUE]
      ELSE [closed EXCEPT !.tokens = @ + e.used]

\* Mutant: recovery does not know that a submission was turned down.
IgnoreRejection(c, e) == c

FoldRejection(c, e) ==
  IF c.phase # "Submit" \/ c.outputs # "none" THEN c
  ELSE IF c.subs = 0 THEN Broken(c)
  ELSE [c EXCEPT !.outputs = e.detail]

FoldTool(c, e) ==
  LET x == c.expect
      y == IF e.kind = "tool_called" THEN [x EXCEPT !.called = @ + 1]
                                     ELSE [x EXCEPT !.done = @ + 1]
  IN  IF x.asked = 0 \/ y.called > x.asked \/ y.done > y.called THEN Broken(c)
      ELSE LET n == [c EXCEPT !.expect = y, !.tools = @ + (y.called - x.called)]
           IN  IF y.done < y.asked THEN n
               ELSE [n EXCEPT !.expect = NoReads, !.outputs = "reads"]

Fold(c, e) ==
  IF ~c.ok THEN c
  ELSE CASE e.kind = "started" ->
              IF e.att \in c.open THEN Broken(c)
              ELSE [c EXCEPT !.open = @ \cup {e.att}, !.calls = @ + 1]
         [] e.kind \in {"completed", "failed"} -> FoldTurn(c, e)
         [] e.kind \in {"tool_called", "tool_completed"} -> FoldTool(c, e)
         [] e.kind = "tool_failed" -> Broken(c)
         [] e.kind = "rejected" -> FoldRejection(c, e)
         [] OTHER -> c

\* load_recovery_events goes attempt by attempt: what a superseded attempt wrote
\* late comes before the events of those after it.
Newest(S) ==
  CHOOSE i \in S : \A j \in S :
    log[j].att < log[i].att \/ (log[j].att = log[i].att /\ j <= i)

Replayed(S) ==
  MapThenFoldSet(LAMBDA i, c : Fold(c, log[i]), FreshCheckpoint, LAMBDA i : i, Newest, S)

\* Mutant: an interrupted provider call leaves no doubt behind.
FinishTrusting(c) ==
  IF c.expect # NoReads THEN Broken(c)
  ELSE [c EXCEPT !.recovered = c.answered \/ c.calls > 0]

\* Mutant: the reads of a cut batch are simply forgotten.
FinishCut(c) ==
  [c EXCEPT !.recovered = c.answered \/ c.calls > 0, !.failure = @ \/ c.open # {}]

Finish(c) ==
  IF c.expect # NoReads THEN Broken(c)
  ELSE [c EXCEPT !.failure = @ \/ c.open # {},
                 !.recovered = c.answered \/ c.calls > 0]

\* Whatever cannot be replayed must not erase the calls that were made.
Fallback ==
  LET calls == Quantify(DOMAIN log, LAMBDA i : log[i].kind = "started")
  IN  [FreshCheckpoint EXCEPT !.recovered = calls > 0, !.calls = calls,
                              !.failure = calls > 0]

AgentRecoveryCheckpoint(drifted) ==
  LET c == Finish(Replayed(DOMAIN log))
  IN  IF ~c.ok \/ ~c.recovered \/ drifted THEN Fallback ELSE c

\* restore() refuses an unknown, inconsistent or overdrawn ledger.
Restores(c) ==
  ~c.recovered \/ (/\ ~c.failure
                   /\ c.calls <= MaxModelCalls /\ c.tools <= ToolLimit
                   /\ c.tokens <= MaxOutput)

\* Mutant: the new attempt starts with an empty ledger.
Unspent(c) ==
  [NoAgent EXCEPT !.pc = "loop", !.phase = c.phase, !.turn = c.turn, !.subs = c.subs,
               !.outputs = c.outputs, !.last = c.last, !.tools = c.tools]
Restored(c) ==
  [NoAgent EXCEPT !.pc = "loop", !.phase = c.phase, !.turn = c.turn, !.subs = c.subs,
               !.outputs = c.outputs, !.last = c.last, !.calls = c.calls,
               !.tools = c.tools, !.tokens = c.tokens]
------------------------------------------------------------------------------
(***************************************************************************)
(* The Task and its attempts.                                              *)
(***************************************************************************)
Write(e) == log' = Append(log, e)
Ends(how) == [ag EXCEPT !.pc = "ending", !.end = how]

TurnsInit ==
  /\ protocol \in {"research", "outcome"}
  /\ task = "queued" /\ attempt = 0 /\ spent = 0 /\ log = <<>> /\ ag = NoAgent
  /\ late = <<>> /\ output = "none" /\ turnFaults = 0

\* A claim, and the budget and the conversation of the attempts before it.
Begin(drifted) ==
  /\ task = "queued" /\ (drifted => turnFaults < TurnFaults)
  /\ attempt' = attempt + 1 /\ spent' = spent + 1 /\ task' = "running"
  /\ LET c == AgentRecoveryCheckpoint(drifted)
     IN  ag' = IF Restores(c) THEN Restored(c)
               ELSE [Restored(c) EXCEPT !.pc = "ending", !.end = "fail"]
  /\ log' = Append(log, [Entry("begin", "none") EXCEPT !.att = attempt + 1])
  /\ turnFaults' = turnFaults + (IF drifted THEN 1 ELSE 0)
  /\ UNCHANGED <<protocol, late, output>>

\* TaskRuntime::finish: the row follows what the handler returned.
FinishTask ==
  /\ ag.pc = "ending"
  /\ task' = IF ag.end = "defer" \/ (ag.end = "retry" /\ spent < TurnAttempts)
             THEN "queued" ELSE "failed"
  /\ spent' = IF ag.end = "defer" THEN spent - 1 ELSE spent
  /\ ag' = NoAgent
  /\ UNCHANGED <<protocol, attempt, log, late, output, turnFaults>>

\* The accepted output is committed with the Task.
CommitOutput ==
  /\ ag.pc = "accepted"
  /\ task' = "succeeded" /\ output' = ag.result /\ ag' = NoAgent
  /\ Write(Entry("committed", "none"))
  /\ UNCHANGED <<protocol, attempt, spent, late, turnFaults>>

\* The attempt is lost to a crash, to its lease or to the Task's wall time.  A
\* worker that only stalled may yet write the rejection it was about to: that
\* write asks for the attempt's row, not for its lease.
Verdicts == {"deliberation", "other"}
LoseAttempt ==
  /\ ag.pc # "idle" /\ turnFaults < TurnFaults /\ turnFaults' = turnFaults + 1
  /\ task' = IF spent < TurnAttempts THEN "queued" ELSE "failed"
  /\ ag' = NoAgent
  /\ \/ UNCHANGED late
     \/ /\ ag.pc = "submitted" /\ late = <<>>
        /\ \E v \in Verdicts : late' = <<Entry("rejected", v)>>
  /\ UNCHANGED <<protocol, attempt, spent, log, output>>

WriteLateRejection ==
  /\ late # <<>> /\ log' = log \o late /\ late' = <<>>
  /\ UNCHANGED <<protocol, task, attempt, spent, ag, output, turnFaults>>

\* RunLogUnavailable puts the Task off, wherever the attempt is.
LoseRunLog ==
  /\ ag.pc \notin {"idle", "ending"} /\ turnFaults < TurnFaults /\ turnFaults' = turnFaults + 1
  /\ ag' = Ends("defer")
  /\ UNCHANGED <<protocol, task, attempt, spent, log, late, output>>
------------------------------------------------------------------------------
(***************************************************************************)
(* The turns of the live attempt.                                          *)
(***************************************************************************)
Remaining == MaxOutput - ag.tokens
\* An Outcome draft leaves half of the allowance to its submission.
DraftReserve == Max({MaxOutput \div 2, 1})
OutputCap == IF ag.phase = "Draft" THEN Remaining - DraftReserve ELSE Remaining

Request ==
  LET repair == protocol = "research" /\ ag.outputs = "deliberation"
  IN  [turn |-> ag.turn, phase |-> ag.phase, repair |-> repair, cap |-> OutputCap,
       outputs |-> IF repair THEN "none" ELSE ag.outputs,
       tools |-> ag.phase = "Draft" /\ ag.tools < ToolLimit]

\* AgentTurnStarted is durable before the provider is called.
StartTurn ==
  /\ ag.pc = "loop" /\ OutputCap > 0 /\ ~ag.unknown /\ ag.calls < MaxModelCalls
  /\ ag' = [ag EXCEPT !.pc = "called", !.calls = @ + 1, !.request = Request]
  /\ Write(Event("started", Request, 0, NoReply, "none"))

\* The draft ran into the reserve, or used up its share of the clock.
AbandonDraft ==
  /\ ag.pc = "loop" /\ ag.phase = "Draft" /\ Remaining > 0
  /\ ag' = Ends("retry") /\ UNCHANGED log

\* A wall clock, an input or money limit, an unknown or exhausted allowance.
RefuseTurn ==
  /\ ag.pc = "loop" /\ ag' = Ends("fail") /\ UNCHANGED log

\* A failed turn is recorded although no provider was called.
MismatchCapability ==
  /\ ag.pc = "loop" /\ OutputCap > 0 /\ ag' = Ends("fail")
  /\ Write(Event("failed", Request, Unknown, NoReply, "none"))

\* The provider fails and its usage is not known: whatever the policy says of
\* a retry, the next call is not authorized.
FailTurn(retryable) ==
  /\ ag.pc = "called"
  /\ Write(Event("failed", ag.request, Unknown, NoReply, "none"))
  /\ ag' = IF retryable /\ ag.tries < TurnAttempts
           THEN [ag EXCEPT !.pc = "loop", !.tries = @ + 1, !.unknown = TRUE]
           ELSE Ends("fail")

Usage == {1, ag.request.cap, ag.request.cap + 1}

\* An incomplete or a late answer whose usage is known.
LateTurn(used) ==
  /\ ag.pc = "called"
  /\ Write(Event("failed", ag.request, used, NoReply, "none"))
  /\ ag' = Ends("fail")

Replies ==
  LET r == ag.request
  IN  [kind : {"blank"}, reads : {0}, result : {"none"}]
      \cup (IF r.phase = "Draft"
            THEN [kind : {"memo", "submission"}, reads : {0}, result : {"none"}]
                 \cup [kind : {"reads"}, reads : 1 .. MaxBatch, result : {"none"}]
            ELSE [kind : {"submission", "muddled"}, reads : {0},
                  result : Results \cup (IF r.repair THEN {"none"} ELSE {})])

\* AgentTurnCompleted is durable, and the turn is charged before it is used.
CompleteTurn(reply, used) ==
  LET n == [ag EXCEPT !.tokens = @ + used, !.outputs = "none", !.tries = 1,
                      !.result = reply.result]
  IN  /\ ag.pc = "called"
      /\ Write(Event("completed", ag.request, used, reply, "none"))
      /\ ag' =
           IF \/ n.tokens > MaxOutput
              \/ used > ag.request.cap
              \/ ag.phase = "Draft" /\ reply.kind = "submission"
              \/ reply.kind = "muddled"
           THEN Ends("fail")
           ELSE CASE ag.phase = "Draft" /\ reply.kind = "reads" ->
                       IF ag.tools + reply.reads > ToolLimit THEN Ends("fail")
                       ELSE [n EXCEPT !.pc = "reading", !.reads = reply.reads,
                                      !.tools = @ + reply.reads]
                  [] ag.phase = "Draft" /\ reply.kind = "memo" ->
                       [n EXCEPT !.pc = "loop", !.phase = "Submit", !.turn = @ + 1]
                  [] reply.kind = "blank" -> Ends("retry")
                  [] OTHER -> [n EXCEPT !.pc = "submitted"]

CallTool ==
  /\ ag.pc = "reading" /\ ag' = [ag EXCEPT !.pc = "read"]
  /\ Write(Entry("tool_called", "none"))

\* A document that asks for a range is an answer too; other failures are not.
FinishTool(how) ==
  /\ ag.pc = "read"
  /\ Write(Entry(IF how = "read" THEN "tool_completed" ELSE "tool_failed", "none"))
  /\ ag' = IF how = "failed" THEN Ends("fail")
           ELSE IF ag.reads > 1 THEN [ag EXCEPT !.pc = "reading", !.reads = @ - 1]
           ELSE [ag EXCEPT !.pc = "loop", !.reads = 0, !.outputs = "reads",
                           !.turn = @ + 1]

\* bind_frozen_result: a repair has no result of its own.
Bound == IF ag.request.repair THEN ag.last ELSE ag.result

\* A repair that brings a result is an invalid output, and no rejection.
RefuseRevision ==
  /\ ag.pc = "submitted" /\ ag.request.repair /\ ag.result # "none"
  /\ ag' = Ends("retry") /\ UNCHANGED log

Validates == ag.pc = "submitted" /\ ~(ag.request.repair /\ ag.result # "none")

AcceptSubmission ==
  /\ Validates /\ UNCHANGED log
  /\ ag' = [ag EXCEPT !.pc = "accepted", !.result = Bound]

\* The rejection is written first.  The next round repairs it if the policy
\* and the clock leave room for one.
RejectSubmission(v, fits) ==
  /\ Validates /\ Write(Entry("rejected", v))
  /\ ag' = IF ag.subs + 1 < TurnAttempts /\ fits
           THEN [ag EXCEPT !.pc = "loop", !.subs = @ + 1, !.outputs = v,
                           !.turn = @ + 1, !.last = Bound]
           ELSE Ends("retry")

TurnStep ==
  \/ StartTurn
  \/ AbandonDraft
  \/ RefuseTurn
  \/ MismatchCapability
  \/ \E retryable \in BOOLEAN : FailTurn(retryable)
  \/ \E used \in Usage : LateTurn(used)
  \/ \E reply \in Replies, used \in Usage : CompleteTurn(reply, used)
  \/ CallTool
  \/ \E how \in {"read", "range", "failed"} : FinishTool(how)
  \/ RefuseRevision
  \/ AcceptSubmission
  \/ \E v \in Verdicts, fits \in BOOLEAN : RejectSubmission(v, fits)

TurnsNext ==
  \/ \E drifted \in BOOLEAN : Begin(drifted)
  \/ FinishTask
  \/ CommitOutput
  \/ LoseAttempt
  \/ WriteLateRejection
  \/ LoseRunLog
  \/ TurnStep /\ UNCHANGED <<protocol, task, attempt, spent, late, output, turnFaults>>

TurnsSpec == TurnsInit /\ [][TurnsNext]_turnVars
------------------------------------------------------------------------------
(***************************************************************************)
(* Properties.                                                             *)
(***************************************************************************)
Is(i, kind) == log[i].kind = kind
Before(i, kind) == {j \in 1 .. i - 1 : Is(j, kind)}
Submissions == {i \in DOMAIN log : Is(i, "completed")
                                   /\ log[i].request.phase = "Submit"
                                   /\ log[i].reply.kind \in {"submission", "muddled"}}
\* The answer to the call that event i started.
Answers(i) == {j \in DOMAIN log : /\ j > i /\ log[j].att = log[i].att
                                  /\ log[j].kind \in {"completed", "failed"}
                                  /\ Before(j, "started") \subseteq 1 .. i}

\* What the provider may yet spend and what it has spent, over every attempt of
\* the Task, stays within the Task's allowance when a call is made: no retry or
\* recovery starts from a ledger that has forgotten an earlier call.  The reads
\* are bounded over all attempts, too, and each attempt beyond the first buys
\* one more submission and not a fresh set of repair rounds.
AllowanceHolds ==
  /\ TurnsTypeOK
  /\ Cardinality(Submissions) <= TurnAttempts + attempt - 1
  /\ Cardinality({i \in DOMAIN log : Is(i, "tool_called")}) <= ToolLimit
  /\ \A i \in DOMAIN log : Is(i, "started") =>
       SumFunctionOnSet([j \in DOMAIN log |-> Max({log[j].used, 0})],
                        Before(i, "completed") \cup Before(i, "failed"))
         + log[i].request.cap <= MaxOutput

\* No provider is called once a call of this Task has ended, or was cut off,
\* without its usage being known.
NoCallAfterUnknown ==
  \A i \in DOMAIN log : Is(i, "started") =>
    \A j \in Before(i, "started") : \E k \in Answers(j) : k < i /\ log[k].used # Unknown

\* The conversation of a Task is one line through all of its attempts: a turn
\* that the provider has completed is not asked again, and no request leaves
\* out the answer to a read that the turn before it asked for, also when the
\* attempt that made the reads was cut short.
OneConversation ==
  /\ \A i, j \in DOMAIN log :
       (Is(i, "completed") /\ Is(j, "started") /\ i < j)
         => log[i].request.turn < log[j].request.turn
  /\ \A i \in DOMAIN log : Is(i, "started") =>
       LET asked == {j \in Before(i, "completed") : log[j].reply.kind = "reads"}
           done == Before(i, "tool_completed") \cup Before(i, "tool_failed")
       IN  /\ SumFunctionOnSet([j \in DOMAIN log |-> log[j].reply.reads], asked)
                = Cardinality(done)
           /\ (asked # {} /\ log[i].request.turn = log[Max(asked)].request.turn + 1)
                => log[i].request.outputs = "reads"

\* The result that a submission stands for.
ResultOf(i) ==
  log[Max({j \in Submissions : j <= i /\ log[j].reply.result # "none"})].reply.result

\* When only the deliberation of a submission was turned down, and the attempt
\* could know it, its result is the only one that the next submission can bring
\* to acceptance, in the same attempt or in a later one.
ResultFrozen ==
  (protocol = "research" /\ output # "none") =>
    \A i, j \in Submissions :
      (/\ i < j /\ \A k \in Submissions : k <= i \/ k = j
       /\ \E k \in DOMAIN log :
            /\ i < k /\ Is(k, "rejected") /\ log[k].detail = "deliberation"
            /\ IF log[k].att = log[j].att THEN k < j
               ELSE \E b \in DOMAIN log : Is(b, "begin") /\ log[b].att = log[j].att /\ k < b)
      => output = ResultOf(i)
==============================================================================
