---------------------------- MODULE PaperDispatch ----------------------------
(***************************************************************************)
(* One committed Paper plan on its way to the broker: PaperDispatchRuntime *)
(* (dispatch and reconcile_existing_only) over the Alpaca adapter, with the *)
(* effect intents the Store keeps, a slow earlier attempt that still acts, *)
(* a broker that moves on its own and requests whose answer gets lost.     *)
(*                                                                         *)
(* A step is one HTTP request, its delivery, or one Store transaction with *)
(* the code between it and the next await.  An order of the plan is known  *)
(* to the broker under two client ids: generation 0 as submitted and       *)
(* generation 1 as replaced by the only reprice.  "open" stands for every  *)
(* live state act_on_stale_orders may cancel, "closed" for every state of  *)
(* is_final_without_successor, "absent" for a 404.                         *)
(***************************************************************************)
EXTENDS Integers, FiniteSets

CONSTANTS
    Attempt,    \* attempts of gate.reconcile that can be alive at once
    NoAttempt,  \* nobody: an unclaimed task, the sender of an orphan request
    Orders,     \* number of orders in the plan
    MaxFaults   \* bound: errors, lost answers, crashes and lost leases

ASSUME DispatchAssumption ==
    /\ NoAttempt \notin Attempt
    /\ Orders \in Nat \ {0}
    /\ MaxFaults \in Nat

Order == 1..Orders
Generation == {0, 1}
BrokerStates == {"absent", "open", "pending_replace", "pending_cancel",
                 "replaced", "closed"}
ActionStates == {"none", "committed", "intent", "settled"}
Requests == [kind : {"POST", "PATCH", "DELETE"}, order : Order,
             gen : Generation, from : Attempt \cup {NoAttempt}]
Receipts == [gen : Generation, state : BrokerStates]
Counters == {"idle", "start", "intent", "audit", "find1", "find0", "post",
             "guard", "posting", "reprice", "repRecord", "rep1", "rep0",
             "repSend", "patching", "repSettle", "cancel", "canRecord",
             "can0", "deleting", "canSettle", "refresh", "evaluate", "stale",
             "failed", "stopped"}
Phases == {"submit", "stale", "final", "observe", "observed"}
Unseen == [o \in Order |-> [gen |-> 0, state |-> "absent"]]

VARIABLES
    task,     \* status of the gate.reconcile task
    owner,    \* the attempt whose permit and lease the Store accepts
    effect,   \* the effect events of the commitment
    reprice,  \* [Order -> ActionStates]: the reprice intent and its effect
    cancel,   \* [Order -> [state, gen]]: the cancel intent and its effect
    stop,     \* the Run's cancellation was requested
    window,   \* the frozen submission window and its session are current
    broker,   \* [Order -> [Generation -> BrokerStates]]: the broker's truth
    wire,     \* requests that may still reach the broker
    pc,       \* [Attempt -> Counters]: where the attempt's future waits
    phase,    \* [Attempt -> Phases]: which pass of the dispatch it is in
    pos,      \* [Attempt -> Nat]: the plan order its loop is at
    seen,     \* [Attempt -> [Order -> Receipts]]: PaperExecution.orders
    faults    \* faults so far (bounded)

store == <<task, owner, effect, reprice, cancel, stop>>
world == <<window, broker, wire>>
local == <<pc, phase, pos, seen>>
vars == <<store, world, local, faults>>

TypeOK ==
    /\ task \in {"queued", "running", "succeeded", "failed", "cancelled"}
    /\ owner \in Attempt \cup {NoAttempt}
    /\ effect \in {"none", "intent", "settled"}
    /\ reprice \in [Order -> ActionStates]
    /\ cancel \in [Order -> [state : ActionStates, gen : Generation]]
    /\ stop \in BOOLEAN
    /\ window \in BOOLEAN
    /\ broker \in [Order -> [Generation -> BrokerStates]]
    /\ wire \subseteq Requests
    /\ pc \in [Attempt -> Counters]
    /\ phase \in [Attempt -> Phases]
    /\ pos \in [Attempt -> 1..(Orders + 1)]
    /\ seen \in [Attempt -> [Order -> Receipts]]
    /\ faults \in 0..MaxFaults
------------------------------------------------------------------------------
(***************************************************************************)
(* Helpers.                                                                *)
(***************************************************************************)
\* Transactions of the Store check the permit and the daemon lease together;
\* validate_daemon_lease alone may still accept a stalled attempt of the same
\* process, so it keeps no attempt from going on here.
Fenced(a) == owner = a

Goto(a, label) == pc' = [pc EXCEPT ![a] = label]
See(a, o, g, s) ==
    seen' = [seen EXCEPT ![a][o] = [gen |-> g, state |-> s]]
Known(a) == {o \in Order : seen[a][o].state # "absent"}

\* Back in the loop the action was taken from, at the following order.
Loop(a, label) == IF phase[a] = "stale" THEN "stale" ELSE label
NextInLoop(a, label) ==
    /\ Goto(a, Loop(a, label))
    /\ pos' = [pos EXCEPT ![a] = @ + 1]

\* The future is dropped with everything it remembered.
Drop(a) ==
    /\ Goto(a, "idle")
    /\ phase' = [phase EXCEPT ![a] = "submit"]
    /\ pos' = [pos EXCEPT ![a] = 1]
    /\ seen' = [seen EXCEPT ![a] = Unseen]

First(S) == CHOOSE o \in S : \A p \in S : o <= p

\* The task goes back to the queue or ends, and nobody holds its permit.
Release(status) == task' = status /\ owner' = NoAttempt

------------------------------------------------------------------------------
(***************************************************************************)
(* Claim, and the branch of execute_task_inner on the cancellation.        *)
(***************************************************************************)
Claim(a) ==
    /\ task = "queued"
    /\ pc[a] = "idle"
    /\ stop => effect # "none"
    /\ task' = "running"
    /\ owner' = a
    /\ Goto(a, "start")
    /\ UNCHANGED <<effect, reprice, cancel, stop, world, phase, pos, seen, faults>>

\* A cancelled Run only observes an effect that was already recorded.
Begin(a) ==
    /\ pc[a] = "start"
    /\ \/ /\ ~stop
          /\ Goto(a, "intent")
          /\ UNCHANGED phase
       \/ /\ stop
          /\ effect = "none"
          /\ Goto(a, "stopped")
          /\ UNCHANGED phase
       \/ /\ stop
          /\ effect # "none"
          /\ Goto(a, IF Fenced(a) THEN "find1" ELSE "failed")
          /\ phase' = [phase EXCEPT ![a] = "observe"]
    /\ UNCHANGED <<store, world, pos, seen, faults>>

Fault == faults < MaxFaults /\ faults' = faults + 1

\* The run log is unavailable when the attempt begins: it only observes an
\* effect that was already recorded (reconcile_existing_only) or is put off.
BeginUnlogged(a) ==
    /\ pc[a] = "start"
    /\ Fault
    /\ IF effect # "none"
       THEN /\ Goto(a, IF Fenced(a) THEN "find1" ELSE "failed")
            /\ phase' = [phase EXCEPT ![a] = "observe"]
            /\ UNCHANGED <<task, owner, pos, seen>>
       ELSE /\ IF Fenced(a) THEN Release("queued") ELSE UNCHANGED <<task, owner>>
            /\ Drop(a)
    /\ UNCHANGED <<effect, reprice, cancel, stop, world>>

\* record_paper_effect_intent for the commitment: before any broker write.
RecordIntent(a) ==
    /\ pc[a] = "intent"
    /\ IF Fenced(a) /\ effect # "settled"
       THEN effect' = "intent" /\ Goto(a, "audit")
       ELSE UNCHANGED effect /\ Goto(a, "failed")
    /\ UNCHANGED <<task, owner, reprice, cancel, stop, world, phase, pos, seen,
                   faults>>

\* AuditedPaperBroker.before_write at the door of execute_commitment.
AuditSubmit(a) ==
    /\ pc[a] = "audit"
    /\ Goto(a, IF stop THEN "stopped" ELSE "find1")
    /\ UNCHANGED <<store, world, phase, pos, seen, faults>>
------------------------------------------------------------------------------
(***************************************************************************)
(* execute_committed and observe_existing_commitment.                      *)
(***************************************************************************)
\* After the last order: on to the submissions, or, observing, to the cancels
\* and then to the evaluation.
Found(a) ==
    IF pos[a] < Orders
    THEN Goto(a, "find1") /\ pos' = [pos EXCEPT ![a] = @ + 1]
    ELSE /\ Goto(a, CASE phase[a] = "submit" -> "post"
                      [] phase[a] = "observe" -> "cancel"
                      [] phase[a] = "observed" -> "evaluate")
         /\ pos' = [pos EXCEPT ![a] = 1]

\* Mutant: recovery looks for the original only.
FindSuccessorNever(a) ==
    /\ pc[a] = "find1"
    /\ Goto(a, "find0")
    /\ UNCHANGED <<store, world, phase, pos, seen, faults>>

\* lookup of the replacement's client id, then of the original's.
FindSuccessor(a) ==
    LET o == pos[a]
    IN  /\ pc[a] = "find1"
        /\ IF broker[o][1] # "absent"
           THEN See(a, o, 1, broker[o][1]) /\ Found(a)
           ELSE Goto(a, "find0") /\ UNCHANGED <<pos, seen>>
        /\ UNCHANGED <<store, world, phase, faults>>

FindOriginal(a) ==
    /\ pc[a] = "find0"
    /\ See(a, pos[a], 0, broker[pos[a]][0])
    /\ Found(a)
    /\ UNCHANGED <<store, world, phase, faults>>

\* The window and the market session are asked again before each missing
\* order; once they are over, known receipts end the pass and none at all is
\* an error.
CheckPermission(a) ==
    /\ pc[a] = "post"
    /\ Goto(a, CASE Known(a) # Order /\ window -> "guard"
                 [] Known(a) = Order \/ (Known(a) # {} /\ ~window) -> "reprice"
                 [] OTHER -> "failed")
    /\ UNCHANGED <<store, world, phase, pos, seen, faults>>

\* Mutant: the transport does not ask for the cancellation.
SubmitUnguarded(a) ==
    LET o == First(Order \ Known(a))
    IN  /\ pc[a] = "guard"
        /\ Goto(a, "posting")
        /\ wire' = wire \cup
             {[kind |-> "POST", order |-> o, gen |-> 0, from |-> a]}
        /\ UNCHANGED <<store, window, broker, phase, pos, seen, faults>>

\* submit_order: the write guard right before the POST.  No Store fence is
\* asked here.
Submit(a) ==
    LET o == First(Order \ Known(a))
    IN  /\ pc[a] = "guard"
        /\ Goto(a, IF stop THEN "stopped" ELSE "posting")
        /\ wire' = IF stop THEN wire ELSE wire \cup
             {[kind |-> "POST", order |-> o, gen |-> 0, from |-> a]}
        /\ UNCHANGED <<store, window, broker, phase, pos, seen, faults>>
------------------------------------------------------------------------------
(***************************************************************************)
(* Reprices: resume_durable_order_actions and act_on_stale_orders share    *)
(* record, replace_committed_order and settle.                             *)
(***************************************************************************)
\* The next durable reprice of a known receipt that is not settled.
ResumeReprice(a) ==
    LET todo == {o \in Known(a) :
                    o >= pos[a] /\ reprice[o] \in {"committed", "intent"}}
    IN  /\ pc[a] = "reprice"
        /\ IF todo = {} THEN Goto(a, "cancel") /\ pos' = [pos EXCEPT ![a] = 1]
           ELSE Goto(a, "repRecord") /\ pos' = [pos EXCEPT ![a] = First(todo)]
        /\ UNCHANGED <<store, world, phase, seen, faults>>

\* Mutant: the PATCH is sent on the strength of the intent artifact alone.
RecordRepriceLate(a) ==
    /\ pc[a] = "repRecord"
    /\ Goto(a, IF Fenced(a) THEN "rep1" ELSE "failed")
    /\ UNCHANGED <<store, world, phase, pos, seen, faults>>

\* record_paper_effect_intent for the reprice.
RecordReprice(a) ==
    /\ pc[a] = "repRecord"
    /\ IF Fenced(a)
       THEN reprice' = [reprice EXCEPT ![pos[a]] = "intent"] /\ Goto(a, "rep1")
       ELSE UNCHANGED reprice /\ Goto(a, "failed")
    /\ UNCHANGED <<task, owner, effect, cancel, stop, world, phase, pos, seen,
                   faults>>

\* The audit guard, then lookup of the successor: one that exists is reused.
\* An expired window leaves the reprice pending and goes on.
ReplaceLookup(a) ==
    LET o == pos[a]
    IN  /\ pc[a] = "rep1"
        /\ \/ /\ stop
              /\ Goto(a, "stopped")
              /\ UNCHANGED <<pos, seen>>
           \/ /\ ~stop
              /\ broker[o][1] # "absent"
              /\ See(a, o, 1, broker[o][1])
              /\ Goto(a, "repSettle")
              /\ UNCHANGED pos
           \/ /\ ~stop
              /\ broker[o][1] = "absent"
              /\ IF window THEN Goto(a, "rep0") /\ UNCHANGED pos
                           ELSE NextInLoop(a, "reprice")
              /\ UNCHANGED seen
        /\ UNCHANGED <<store, world, phase, faults>>

\* lookup of the original: a final one, or one being replaced, is an error.
ReplacePrior(a) ==
    /\ pc[a] = "rep0"
    /\ Goto(a, IF broker[pos[a]][0] \in {"open", "pending_cancel"}
               THEN "repSend" ELSE "failed")
    /\ UNCHANGED <<store, world, phase, pos, seen, faults>>

\* The second check of the window, the write guard and the PATCH.
Replace(a) ==
    /\ pc[a] = "repSend"
    /\ \/ /\ ~window
          /\ NextInLoop(a, "reprice")
          /\ UNCHANGED wire
       \/ /\ window
          /\ stop
          /\ Goto(a, "stopped")
          /\ UNCHANGED <<wire, pos>>
       \/ /\ window
          /\ ~stop
          /\ Goto(a, "patching")
          /\ wire' = wire \cup {[kind |-> "PATCH", order |-> pos[a],
                                 gen |-> 1, from |-> a]}
          /\ UNCHANGED pos
    /\ UNCHANGED <<store, window, broker, phase, seen, faults>>

\* settle_paper_effect for the reprice.
SettleReprice(a) ==
    /\ pc[a] = "repSettle"
    /\ IF Fenced(a)
       THEN /\ reprice' = [reprice EXCEPT ![pos[a]] = "settled"]
            /\ NextInLoop(a, "reprice")
       ELSE Goto(a, "failed") /\ UNCHANGED <<reprice, pos>>
    /\ UNCHANGED <<task, owner, effect, cancel, stop, world, phase, seen,
                   faults>>
------------------------------------------------------------------------------
(***************************************************************************)
(* Cancels: resume_existing_cancels and act_on_stale_orders share record,  *)
(* cancel_committed_order and settle.                                      *)
(***************************************************************************)
ResumeCancel(a) ==
    LET todo == {o \in Known(a) :
                    o >= pos[a] /\ cancel[o].state \in {"committed", "intent"}}
    IN  /\ pc[a] = "cancel"
        /\ \/ /\ todo # {}
              /\ Goto(a, "canRecord")
              /\ pos' = [pos EXCEPT ![a] = First(todo)]
              /\ UNCHANGED <<phase, seen>>
           \/ /\ todo = {}
              /\ phase[a] = "submit"
              /\ Goto(a, "refresh")
              /\ UNCHANGED <<phase, pos, seen>>
           \/ /\ todo = {}
              /\ phase[a] = "observe"
              /\ Goto(a, "find1")
              /\ phase' = [phase EXCEPT ![a] = "observed"]
              /\ pos' = [pos EXCEPT ![a] = 1]
              /\ seen' = [seen EXCEPT ![a] = Unseen]
        /\ UNCHANGED <<store, world, faults>>

RecordCancel(a) ==
    /\ pc[a] = "canRecord"
    /\ IF Fenced(a)
       THEN /\ cancel' = [cancel EXCEPT ![pos[a]].state = "intent"]
            /\ Goto(a, "can0")
       ELSE UNCHANGED cancel /\ Goto(a, "failed")
    /\ UNCHANGED <<task, owner, effect, reprice, stop, world, phase, pos, seen,
                   faults>>

\* cancel_committed_order: lookup of the generation the intent names, then
\* the DELETE unless it is already final or being cancelled.
CancelOrder(a) ==
    LET o == pos[a]
        g == cancel[o].gen
        s == broker[o][g]
    IN  /\ pc[a] = "can0"
        /\ \/ /\ s \in {"absent", "replaced"}
              /\ Goto(a, "failed")
              /\ UNCHANGED <<wire, seen>>
           \/ /\ s \in {"closed", "pending_cancel"}
              /\ See(a, o, g, s)
              /\ Goto(a, "canSettle")
              /\ UNCHANGED wire
           \/ /\ s \in {"open", "pending_replace"}
              /\ wire' = wire \cup {[kind |-> "DELETE", order |-> o, gen |-> g,
                                     from |-> a]}
              /\ Goto(a, "deleting")
              /\ UNCHANGED seen
        /\ UNCHANGED <<store, window, broker, phase, pos, faults>>

SettleCancel(a) ==
    /\ pc[a] = "canSettle"
    /\ IF Fenced(a)
       THEN /\ cancel' = [cancel EXCEPT ![pos[a]].state = "settled"]
            /\ NextInLoop(a, "cancel")
       ELSE Goto(a, "failed") /\ UNCHANGED <<cancel, pos>>
    /\ UNCHANGED <<task, owner, effect, reprice, stop, world, phase, seen,
                   faults>>
------------------------------------------------------------------------------
(***************************************************************************)
(* Evaluation and the treatment of stale orders.                           *)
(***************************************************************************)
\* reconcile_until_settled keeps only its last round of GETs.
Refresh(a) ==
    /\ pc[a] = "refresh"
    /\ seen' = [seen EXCEPT ![a] = [o \in Order |->
                  IF o \in Known(a)
                  THEN [@[o] EXCEPT !.state = broker[o][seen[a][o].gen]]
                  ELSE @[o]]]
    /\ Goto(a, "evaluate")
    /\ UNCHANGED <<store, world, phase, pos, faults>>

\* Mutants: a final original is enough although it has a durable reprice; a
\* subset of the orders is enough.
CompleteWithoutSuccessor(a) ==
    \A o \in Order : seen[a][o].state = "closed"
\* reconciliation_state_with_reprices = Complete: every durable reprice seen
\* through its successor, a receipt for every order, each of them final.
Complete(a) ==
    \A o \in Order :
        /\ seen[a][o].state = "closed"
        /\ reprice[o] # "none" => seen[a][o].gen = 1

\* commit_fenced_attempt_with_effect once complete; otherwise the progress is
\* written and either the stale orders are acted on, once, or the task is
\* deferred.  A stalled attempt's transactions are refused.
Evaluate(a) ==
    /\ pc[a] = "evaluate"
    /\ \/ /\ ~Fenced(a)
          /\ Drop(a)
          /\ UNCHANGED <<task, owner, effect>>
       \/ /\ Fenced(a)
          /\ Complete(a)
          /\ effect' = "settled"
          /\ Release("succeeded")
          /\ Drop(a)
       \/ /\ Fenced(a)
          /\ ~Complete(a)
          /\ Release("queued")
          /\ Drop(a)
          /\ UNCHANGED effect
       \/ /\ Fenced(a)
          /\ ~Complete(a)
          /\ phase[a] = "submit"
          /\ \E o \in Order : seen[a][o].state = "open"
          /\ Goto(a, "stale")
          /\ phase' = [phase EXCEPT ![a] = "stale"]
          /\ pos' = [pos EXCEPT ![a] = 1]
          /\ UNCHANGED <<task, owner, effect, seen>>
    /\ UNCHANGED <<reprice, cancel, stop, world, faults>>

\* Candidates of act_on_stale_orders not yet looked at; which of them is past
\* the grace is open.
Candidates(a) ==
    {o \in Order : /\ o >= pos[a]
                   /\ seen[a][o].state = "open"
                   /\ cancel[o].state = "none"}

\* commit_execution_reprice_intent: at most one per order, inside the window.
StaleReprice(a) ==
    /\ pc[a] = "stale"
    /\ \E o \in Candidates(a) :
          /\ seen[a][o].gen = 0
          /\ reprice[o] = "none"
          /\ window
          /\ IF Fenced(a)
             THEN /\ reprice' = [reprice EXCEPT ![o] = "committed"]
                  /\ Goto(a, "repRecord")
             ELSE UNCHANGED reprice /\ Goto(a, "failed")
          /\ pos' = [pos EXCEPT ![a] = o]
    /\ UNCHANGED <<task, owner, effect, cancel, stop, world, phase, seen,
                   faults>>

\* commit_execution_cancel_intent, on the generation the receipt names.  Live
\* states that cannot be repriced come here as well.
StaleCancel(a) ==
    /\ pc[a] = "stale"
    /\ \E o \in Candidates(a) :
          /\ IF Fenced(a)
             THEN /\ cancel' = [cancel EXCEPT ![o] =
                        [state |-> "committed", gen |-> seen[a][o].gen]]
                  /\ Goto(a, "canRecord")
             ELSE UNCHANGED cancel /\ Goto(a, "failed")
          /\ pos' = [pos EXCEPT ![a] = o]
    /\ UNCHANGED <<task, owner, effect, reprice, stop, world, phase, seen,
                   faults>>

\* No further stale order: refresh and evaluate for the last time.
StaleDone(a) ==
    /\ pc[a] = "stale"
    /\ Goto(a, "refresh")
    /\ phase' = [phase EXCEPT ![a] = "final"]
    /\ UNCHANGED <<store, world, pos, seen, faults>>
------------------------------------------------------------------------------
(***************************************************************************)
(* How an attempt ends without a result (execute_task_at_logged), and what *)
(* happens to its permit.                                                  *)
(***************************************************************************)
\* Broker and Store errors have no retry cause: the task fails, and its Run
\* with it.  A stalled attempt's completion is refused.
ReportFailed(a) ==
    /\ pc[a] = "failed"
    /\ IF Fenced(a) THEN Release("failed") ELSE UNCHANGED <<task, owner>>
    /\ Drop(a)
    /\ UNCHANGED <<effect, reprice, cancel, stop, world, faults>>

\* Mutant: a refused write ends the task whatever was already sent.
ReportStoppedAlways(a) ==
    /\ pc[a] = "stopped"
    /\ IF Fenced(a) THEN Release("cancelled") ELSE UNCHANGED <<task, owner>>
    /\ Drop(a)
    /\ UNCHANGED <<effect, reprice, cancel, stop, world, faults>>

\* RunCancelled: deferred when an effect is recorded, cancelled otherwise.
ReportStopped(a) ==
    /\ pc[a] = "stopped"
    /\ IF Fenced(a)
       THEN Release(IF effect = "none" THEN "cancelled" ELSE "queued")
       ELSE UNCHANGED <<task, owner>>
    /\ Drop(a)
    /\ UNCHANGED <<effect, reprice, cancel, stop, world, faults>>

\* A request of this attempt that is still under way has no reader any more.
Orphaned(a) == {IF r.from = a THEN [r EXCEPT !.from = NoAttempt] ELSE r :
                   r \in wire}

\* An error, or a refused write, whose end the run log does not take, also one
\* of a pass that began without it: the task is deferred.
PutOff(a) ==
    /\ pc[a] \in {"failed", "stopped"}
    /\ Fault
    /\ Fenced(a)
    /\ Release("queued")
    /\ Drop(a)
    /\ UNCHANGED <<effect, reprice, cancel, stop, world>>

\* The lease of the permit runs out.  Recovery requeues a reconcile with a
\* recorded effect; without one its only attempt is spent.
LeaseOut ==
    /\ owner # NoAttempt
    /\ IF pc[owner] = "idle" THEN UNCHANGED faults ELSE Fault
    /\ Release(IF effect # "none" THEN "queued"
               ELSE IF stop THEN "cancelled" ELSE "failed")
    /\ UNCHANGED <<effect, reprice, cancel, stop, world, local>>

\* The process dies.
Crash(a) ==
    /\ pc[a] # "idle"
    /\ Fault
    /\ wire' = Orphaned(a)
    /\ Drop(a)
    /\ UNCHANGED <<store, window, broker>>

\* Any await ends in an error, or the wall time of the task is over and its
\* future is dropped: a write under way may still arrive, now or later.
Fails(a) ==
    /\ pc[a] \notin {"idle", "failed", "stopped"}
    /\ Fault
    /\ wire' = Orphaned(a)
    /\ Goto(a, "failed")
    /\ UNCHANGED <<store, window, broker, phase, pos, seen>>
------------------------------------------------------------------------------
(***************************************************************************)
(* The environment: the broker, the clock and the operator.                *)
(***************************************************************************)
Accepts(r) ==
    CASE r.kind = "POST" -> broker[r.order][0] = "absent"
      [] r.kind = "PATCH" -> /\ broker[r.order][0] = "open"
                             /\ broker[r.order][1] = "absent"
      [] r.kind = "DELETE" -> broker[r.order][r.gen] = "open"

Applied(r) ==
    CASE r.kind = "POST" -> [broker EXCEPT ![r.order][0] = "open"]
      [] r.kind = "PATCH" -> [broker EXCEPT ![r.order] =
                                [g \in Generation |->
                                   IF g = 0 THEN "pending_replace" ELSE "open"]]
      [] r.kind = "DELETE" ->
            [broker EXCEPT ![r.order][r.gen] = "pending_cancel"]

\* The broker takes a request or refuses it; the sender, if it still waits,
\* gets the answer.  A refused DELETE (404, 422) is read past.
Deliver(r) ==
    LET a == r.from
        took == Accepts(r)
        label == CASE r.kind = "DELETE" -> "canSettle"
                   [] r.kind = "POST" /\ took -> "post"
                   [] r.kind = "PATCH" /\ took -> "repSettle"
                   [] OTHER -> "failed"
    IN  /\ wire' = wire \ {r}
        /\ broker' = IF took THEN Applied(r) ELSE broker
        /\ IF a = NoAttempt \/ (~took /\ r.kind # "DELETE")
           THEN UNCHANGED seen
           ELSE See(a, r.order, r.gen, broker'[r.order][r.gen])
        /\ IF a = NoAttempt THEN UNCHANGED pc ELSE Goto(a, label)
        /\ UNCHANGED <<store, window, phase, pos, faults>>

\* A request whose sender gave up never arrives.
LoseRequest(r) ==
    /\ r.from = NoAttempt
    /\ wire' = wire \ {r}
    /\ UNCHANGED <<store, window, broker, local, faults>>

\* An order fills, is rejected or expires; a replacement takes effect, or
\* comes too late for an original that fills first and is then rejected.
BrokerMoves(o) ==
    /\ \/ /\ broker[o][0] \in {"open", "pending_cancel"}
          /\ broker' = [broker EXCEPT ![o][0] = "closed"]
       \/ /\ broker[o][0] = "pending_replace"
          /\ \E s \in {"replaced", "closed"} :
                broker' = [broker EXCEPT ![o][0] = s]
       \/ /\ broker[o][1] \in {"open", "pending_cancel"}
          /\ broker[o][0] # "pending_replace"
          /\ broker' = [broker EXCEPT ![o][1] = "closed"]
    /\ UNCHANGED <<store, window, wire, local, faults>>

\* The frozen approval, quotes or session are over; they do not come back.
CloseWindow ==
    /\ window
    /\ window' = FALSE
    /\ UNCHANGED <<store, broker, wire, local, faults>>

\* request_run_cancel: a reconcile that waits without an effect is cancelled,
\* a running one is left alone, also by the runtime's monitor.
RequestCancel ==
    /\ ~stop
    /\ stop' = TRUE
    /\ task' = IF task = "queued" /\ effect = "none" THEN "cancelled" ELSE task
    /\ UNCHANGED <<owner, effect, reprice, cancel, world, local, faults>>
------------------------------------------------------------------------------
Init ==
    /\ task = "queued"
    /\ owner = NoAttempt
    /\ effect = "none"
    /\ reprice = [o \in Order |-> "none"]
    /\ cancel = [o \in Order |-> [state |-> "none", gen |-> 0]]
    /\ stop = FALSE
    /\ window = TRUE
    /\ broker = [o \in Order |-> [g \in Generation |-> "absent"]]
    /\ wire = {}
    /\ pc = [a \in Attempt |-> "idle"]
    /\ phase = [a \in Attempt |-> "submit"]
    /\ pos = [a \in Attempt |-> 1]
    /\ seen = [a \in Attempt |-> Unseen]
    /\ faults = 0

\* One await of the dispatch future.
Step(a) ==
    \/ Begin(a) \/ RecordIntent(a) \/ AuditSubmit(a)
    \/ FindSuccessor(a) \/ FindOriginal(a) \/ CheckPermission(a) \/ Submit(a)
    \/ ResumeReprice(a) \/ RecordReprice(a) \/ ReplaceLookup(a)
    \/ ReplacePrior(a) \/ Replace(a) \/ SettleReprice(a)
    \/ ResumeCancel(a) \/ RecordCancel(a) \/ CancelOrder(a) \/ SettleCancel(a)
    \/ Refresh(a) \/ Evaluate(a)
    \/ StaleReprice(a) \/ StaleCancel(a) \/ StaleDone(a)
    \/ ReportFailed(a) \/ ReportStopped(a)

Next ==
    \/ \E a \in Attempt :
          \/ Claim(a)
          \/ Step(a)
          \/ BeginUnlogged(a)
          \/ PutOff(a)
          \/ Crash(a)
          \/ Fails(a)
    \/ \E r \in wire : Deliver(r) \/ LoseRequest(r)
    \/ \E o \in Order : BrokerMoves(o)
    \/ LeaseOut
    \/ CloseWindow
    \/ RequestCancel

Spec == Init /\ [][Next]_vars

\* The executor polls every future, HTTP requests end, the broker brings
\* every order to an end, leases run out and the pool claims again.
Fairness ==
    /\ \A a \in Attempt : WF_vars(Step(a))
    /\ SF_vars(\E a \in Attempt : Claim(a))
    /\ WF_vars(\E r \in wire : Deliver(r) \/ LoseRequest(r))
    /\ \A o \in Order : WF_vars(BrokerMoves(o))
    /\ WF_vars(LeaseOut /\ pc[owner] = "idle")

FairSpec == Spec /\ Fairness
------------------------------------------------------------------------------
(***************************************************************************)
(* Properties.                                                             *)
(***************************************************************************)
Live == {"open", "pending_replace", "pending_cancel"}
Sent(kind, o) == \E r \in wire : r.kind = kind /\ r.order = o

\* What the Store records as settled is settled at the broker.  The commitment:
\* every order of the plan reached it and ended there, no replacement is live,
\* and no request a stalled or dead attempt left behind can bring one to life
\* again.  A reprice: its successor exists, for it is never sent again and an
\* absent successor would block completion for ever.
SettledMeansClosed ==
    /\ effect = "settled" =>
           \A o \in Order :
               /\ broker[o][0] \in {"closed", "replaced"}
               /\ broker[o][1] \in {"closed", "absent"}
               /\ broker[o][0] = "replaced" => broker[o][1] = "closed"
    /\ \A o \in Order : reprice[o] = "settled" => broker[o][1] # "absent"

\* Whatever the broker has, or may still get, of this plan was announced in
\* the Store first: a restart that finds no intent may conclude that there is
\* nothing to look for.
IntentBeforeWrite ==
    \A o \in Order :
        /\ broker[o][0] # "absent" \/ Sent("POST", o) => effect # "none"
        /\ broker[o][1] # "absent" \/ Sent("PATCH", o) =>
              reprice[o] \in {"intent", "settled"}
        /\ Sent("DELETE", o) => cancel[o].state \in {"intent", "settled"}

\* After the cancel request no new order and no replacement is sent, by no
\* attempt and on no path; protective cancels still are.
NoExposureAfterCancel ==
    [][stop => \A r \in wire' \ wire :
                   r.kind = "DELETE" \/ r.from = NoAttempt]_vars

\* In every (well typed) state: a task with an order that may still trade was
\* never written off by the cancellation; only its own attempt's failure can
\* leave it behind.
CancelKeepsOrders ==
    TypeOK /\ (task = "cancelled" =>
        \A o \in Order : broker[o][0] = "absent" /\ ~Sent("POST", o))

\* "POST transport errors may leave an unknown remote state; this layer does
\* not retry, the next dispatch recovers by querying the same client order id"
\* (execute_committed): an order that is live is never left without a
\* dispatch to come.
LiveOrderKeepsDispatch ==
    task \in {"queued", "running", "succeeded"}
        \/ \A o \in Order : broker[o][0] \notin Live /\ ~Sent("POST", o)

\* Nothing about the plan stays unknown: each order reached the broker and
\* each durable reprice has its successor.
Resolvable ==
    \A o \in Order :
        /\ broker[o][0] # "absent"
        /\ reprice[o] # "none" => broker[o][1] # "absent"

\* A plan that was completely handed over is settled, or its reconcile has
\* failed: neither a cancelled Run, an expired window, a crash nor a stalled
\* attempt leaves it deferring for ever.
HandedOverSettles ==
    effect = "intent"
        ~> (effect = "settled" \/ task = "failed" \/ ~Resolvable)
==============================================================================
