------------------------- MODULE PaperDispatchProofs -------------------------
(***************************************************************************)
(* Proofs about PaperDispatch, for any number of attempts, orders and      *)
(* faults.                                                                 *)
(*                                                                         *)
(* None of the safety invariants is inductive: what an attempt may still   *)
(* send depends on where its future waits, on what it has seen and on the  *)
(* Store it wrote to before it stalled.  IInv says so for each attempt     *)
(* (AttemptInv), for each request under way (Requested) and for the two    *)
(* client ids of an order at the broker (Succession).                      *)
(***************************************************************************)
EXTENDS PaperDispatch, WellFoundedInduction, TLAPS

\* The pass an attempt is in, by where its future waits.
PassOf(a) ==
    /\ pc[a] \in {"idle", "start", "intent", "audit", "post", "guard",
                  "posting", "reprice"} => phase[a] = "submit"
    /\ pc[a] \in {"find1", "find0"} =>
           phase[a] \in {"submit", "observe", "observed"}
    /\ pc[a] \in {"repRecord", "rep1", "rep0", "repSend", "patching",
                  "repSettle"} => phase[a] \in {"submit", "stale"}
    /\ pc[a] = "cancel" => phase[a] \in {"submit", "observe"}
    /\ pc[a] \in {"canRecord", "can0", "deleting", "canSettle"} =>
           phase[a] \in {"submit", "observe", "stale"}
    /\ pc[a] = "stale" => phase[a] = "stale"

\* Where the loop variable names an order of the plan.
PlaceOf(a) ==
    pc[a] \in {"idle", "start", "intent", "audit", "find1", "find0",
               "repRecord", "rep1", "rep0", "repSend", "patching", "repSettle",
               "canRecord", "can0", "deleting", "canSettle"} =>
        pos[a] \in Order

\* The audit: an attempt past the record of the intent has an effect in the
\* Store, and one past the record of an action has that action in it.
Audited(a) ==
    /\ pc[a] \in {"idle", "start", "intent", "failed", "stopped"}
         \/ effect # "none"
    /\ pc[a] \in {"rep1", "rep0", "repSend", "patching", "repSettle"} =>
           reprice[pos[a]] \in {"intent", "settled"}
    /\ pc[a] \in {"can0", "deleting", "canSettle"} =>
           cancel[pos[a]].state \in {"intent", "settled"}

\* What an attempt remembers as final is final, the order it is about to submit
\* is not one it knows, and the successor it is about to settle exists.
Sighted(a) ==
    /\ \A o \in Order : seen[a][o].state = "closed" =>
           broker[o][seen[a][o].gen] = "closed"
    /\ pc[a] = "guard" => \E o \in Order : seen[a][o].state = "absent"
    /\ pc[a] = "repSettle" => broker[pos[a]][1] # "absent"

AttemptInv(a) == PassOf(a) /\ PlaceOf(a) /\ Audited(a) /\ Sighted(a)

\* A request whose answer is awaited: where its sender waits.
Awaited(r) ==
    r.from # NoAttempt =>
        /\ r.kind = "POST" => pc[r.from] = "posting"
        /\ r.kind = "PATCH" => pc[r.from] = "patching" /\ pos[r.from] = r.order
        /\ r.kind = "DELETE" => pc[r.from] = "deleting" /\ pos[r.from] = r.order

\* An attempt waits for one answer at a time.
Requested ==
    /\ \A r \in wire : Awaited(r)
    /\ \A r, s \in wire : r.from = s.from /\ r.from # NoAttempt => r = s

\* A replacement exists only behind an original that no longer trades, and
\* is over only after it.
Succession ==
    \A o \in Order :
        /\ broker[o][1] # "absent" =>
               broker[o][0] \in {"pending_replace", "replaced", "closed"}
        /\ broker[o][1] = "closed" => broker[o][0] \in {"replaced", "closed"}

\* Only a running task has an owner, and a task is written off by the
\* cancellation only before the first effect.
Held ==
    /\ owner # NoAttempt => task = "running"
    /\ task = "cancelled" => effect = "none"

IInv ==
    /\ TypeOK
    /\ \A a \in Attempt : AttemptInv(a)
    /\ Requested
    /\ Succession
    /\ Held
    /\ IntentBeforeWrite
    /\ SettledMeansClosed
------------------------------------------------------------------------------
(***************************************************************************)
(* The helpers.                                                            *)
(***************************************************************************)
\* A nonempty set of orders has a first one, and First is it.
LEMMA FirstIsFirst ==
  ASSUME NEW S \in SUBSET Order, S # {}
  PROVE  First(S) \in S
<1> DEFINE lt == {ss \in Nat \X Nat : ss[1] < ss[2]}
<1>1. IsWellFoundedOn(lt, Nat)
  BY NatLessThanWellFounded, Zenon DEF OpToRel
<1>2. S \subseteq Nat
  BY DispatchAssumption DEF Order
<1>3. \E x \in S : \A y \in S : ~ (<<y, x>> \in lt)
  <2> HIDE DEF lt
  <2> QED  BY <1>1, <1>2, WFMin, Zenon
<1>4. \E x \in S : \A y \in S : x <= y
  <2>1. PICK x \in S : \A y \in S : ~ (<<y, x>> \in lt)
    BY <1>3
  <2>2. \A y \in S : ~ (y < x)
    <3> SUFFICES ASSUME NEW y \in S, y < x PROVE FALSE
      OBVIOUS
    <3>1. <<y, x>> \in lt
      BY <1>2
    <3> QED  BY <3>1, <2>1
  <2>3. \A y \in S : x <= y
    BY <2>2, <1>2
  <2> QED  BY <2>3
<1> QED
  BY <1>4 DEF First

\* See writes one receipt and leaves the others.
LEMMA SeeFacts ==
  ASSUME TypeOK, NEW a \in Attempt, NEW o \in Order, NEW g \in Generation,
         NEW s \in BrokerStates, See(a, o, g, s)
  PROVE  /\ seen' \in [Attempt -> [Order -> Receipts]]
         /\ seen'[a][o].gen = g
         /\ seen'[a][o].state = s
         /\ \A p \in Order : p # o => seen'[a][p] = seen[a][p]
         /\ \A b \in Attempt : b # a => seen'[b] = seen[b]
<1> DEFINE r == [gen |-> g, state |-> s]
<1>1. r \in Receipts /\ r.gen = g /\ r.state = s
  BY DEF Receipts
<1>2. seen' = [seen EXCEPT ![a][o] = r]
  BY DEF See
<1>3. seen \in [Attempt -> [Order -> Receipts]]
  BY DEF TypeOK
<1> HIDE DEF r
<1> QED
  BY <1>1, <1>2, <1>3

\* Where a lookup loop goes on.
LEMMA FoundFacts ==
  ASSUME TypeOK, NEW a \in Attempt, AttemptInv(a), pc[a] \in {"find1", "find0"},
         Found(a)
  PROVE  /\ pc' \in [Attempt -> Counters]
         /\ pos' \in [Attempt -> 1..(Orders + 1)]
         /\ pos'[a] \in Order
         /\ \/ pc'[a] = "find1"
            \/ pc'[a] = "post" /\ phase[a] = "submit"
            \/ pc'[a] = "cancel" /\ phase[a] = "observe"
            \/ pc'[a] = "evaluate" /\ phase[a] = "observed"
         /\ \A b \in Attempt : b # a => pc'[b] = pc[b] /\ pos'[b] = pos[b]
<1>1. /\ pc \in [Attempt -> Counters]
      /\ pos \in [Attempt -> 1..(Orders + 1)]
      /\ Orders \in Nat \ {0}
      /\ phase[a] \in {"submit", "observe", "observed"}
      /\ pos[a] \in Order
  BY DispatchAssumption DEF TypeOK, AttemptInv, PassOf, PlaceOf
<1>2. \A w \in Counters : Goto(a, w) =>
         /\ pc' \in [Attempt -> Counters]
         /\ pc'[a] = w
         /\ \A b \in Attempt : b # a => pc'[b] = pc[b]
  BY <1>1 DEF Goto
<1>3. CASE pos[a] < Orders
  <2>1. Goto(a, "find1") /\ pos' = [pos EXCEPT ![a] = @ + 1]
    BY <1>3 DEF Found
  <2> QED
    BY <1>1, <1>2, <1>3, <2>1 DEF Counters, Order
<1>4. CASE ~(pos[a] < Orders)
  <2>1. pos' = [pos EXCEPT ![a] = 1]
    BY <1>4 DEF Found
  <2>2. /\ pos' \in [Attempt -> 1..(Orders + 1)]
        /\ pos'[a] \in Order
        /\ \A b \in Attempt : b # a => pos'[b] = pos[b]
    BY <1>1, <2>1 DEF Order
  <2>3. \/ Goto(a, "post") /\ phase[a] = "submit"
        \/ Goto(a, "cancel") /\ phase[a] = "observe"
        \/ Goto(a, "evaluate") /\ phase[a] = "observed"
    BY <1>1, <1>4 DEF Found
  <2> QED
    BY <1>2, <2>2, <2>3 DEF Counters
<1> QED
  BY <1>3, <1>4

\* On to the following order, in the loop the action was taken from.
LEMMA NextFacts ==
  ASSUME TypeOK, NEW a \in Attempt, pos[a] \in Order,
         NEW l \in {"reprice", "cancel"}, NextInLoop(a, l)
  PROVE  /\ pc' \in [Attempt -> Counters]
         /\ pos' \in [Attempt -> 1..(Orders + 1)]
         /\ pc'[a] = IF phase[a] = "stale" THEN "stale" ELSE l
         /\ \A b \in Attempt : b # a => pc'[b] = pc[b] /\ pos'[b] = pos[b]
<1>1. /\ pc \in [Attempt -> Counters]
      /\ pos \in [Attempt -> 1..(Orders + 1)]
      /\ Orders \in Nat
  BY DispatchAssumption DEF TypeOK
<1>2. Loop(a, l) \in Counters
  BY DEF Loop, Counters
<1>3. pc' = [pc EXCEPT ![a] = Loop(a, l)] /\ pos' = [pos EXCEPT ![a] = @ + 1]
  BY DEF NextInLoop, Goto
<1>4. pos' \in [Attempt -> 1..(Orders + 1)]
  BY <1>1, <1>3 DEF Order
<1> QED
  BY <1>1, <1>2, <1>3, <1>4 DEF Loop

\* A transition of one cancel intent.
LEMMA CancelFacts ==
  ASSUME TypeOK, NEW o \in Order, NEW x \in ActionStates,
         cancel' = [cancel EXCEPT ![o].state = x]
  PROVE  /\ cancel' \in [Order -> [state : ActionStates, gen : Generation]]
         /\ cancel'[o].state = x
         /\ \A p \in Order : p # o => cancel'[p] = cancel[p]
<1> DEFINE r == [cancel[o] EXCEPT !.state = x]
<1>1. cancel \in [Order -> [state : ActionStates, gen : Generation]]
  BY DEF TypeOK
<1>2. r \in [state : ActionStates, gen : Generation] /\ r.state = x
  <2>1. cancel[o] \in [state : ActionStates, gen : Generation]
    BY <1>1
  <2> QED  BY <2>1, Zenon
<1>3. cancel' = [cancel EXCEPT ![o] = r]
  BY <1>1, Zenon
<1> HIDE DEF r
<1> QED
  BY <1>1, <1>2, <1>3
------------------------------------------------------------------------------
(***************************************************************************)
(* The frame of a step: what the other attempts remember stays, and what   *)
(* the Store announced and the broker did is not undone.                   *)
(***************************************************************************)
Apart(a) ==
    \A b \in Attempt : b # a =>
        /\ pc'[b] = pc[b]
        /\ phase'[b] = phase[b]
        /\ pos'[b] = pos[b]
        /\ seen'[b] = seen[b]

Lasting ==
    /\ effect # "none" => effect' # "none"
    /\ \A o \in Order :
        /\ reprice[o] \in {"intent", "settled"} =>
               reprice'[o] \in {"intent", "settled"}
        /\ cancel[o].state \in {"intent", "settled"} =>
               cancel'[o].state \in {"intent", "settled"}
        /\ \A g \in Generation :
            /\ broker[o][g] # "absent" => broker'[o][g] # "absent"
            /\ broker[o][g] = "closed" => broker'[o][g] = "closed"

\* So every other attempt keeps its part of the invariant.
LEMMA OthersStand ==
  ASSUME NEW a, Apart(a), Lasting, TypeOK,
         NEW b \in Attempt, b # a, AttemptInv(b)
  PROVE  AttemptInv(b)'
<1>1. /\ pc'[b] = pc[b]
      /\ phase'[b] = phase[b]
      /\ pos'[b] = pos[b]
      /\ seen'[b] = seen[b]
  BY DEF Apart
<1>2. PassOf(b)' /\ PlaceOf(b)'
  BY <1>1 DEF AttemptInv, PassOf, PlaceOf
<1>3. Audited(b)'
  BY <1>1 DEF AttemptInv, PlaceOf, Audited, Lasting
<1>4. Sighted(b)'
  <2>1. \A o \in Order : seen[b][o].gen \in Generation
    BY DEF TypeOK, Receipts
  <2> QED
    BY <1>1, <2>1 DEF AttemptInv, PlaceOf, Sighted, Lasting, Generation
<1> QED
  BY <1>2, <1>3, <1>4 DEF AttemptInv

------------------------------------------------------------------------------
(***************************************************************************)
(* What each step of an attempt leaves behind.  Until a request is         *)
(* delivered or the broker moves, the broker is where it was.              *)
(***************************************************************************)
Stood(a) ==
    /\ TypeOK'
    /\ AttemptInv(a)'
    /\ Apart(a)
    /\ Lasting
    /\ Held'
    /\ broker' = broker

\* A claim makes a the owner of a running task.
LEMMA ClaimStep ==
  ASSUME TypeOK, NEW a \in Attempt, AttemptInv(a), Held, Claim(a)
  PROVE  Stood(a)
<1>1. TypeOK'
  BY DispatchAssumption DEF Claim, TypeOK, Goto, Fenced, Counters, Phases,
                            store, world
<1>2. AttemptInv(a)'
  BY DispatchAssumption DEF Claim, TypeOK, Goto, Fenced, Counters, Phases,
                            store, world, AttemptInv, PassOf, PlaceOf,
                            Audited, Sighted
<1>3. Apart(a) /\ Lasting
  BY DEF Claim, Goto, TypeOK, store, world, Apart, Lasting
<1>4. Held' /\ broker' = broker
  BY DEF Claim, TypeOK, Fenced, store, world, Held
<1> QED
  BY <1>1, <1>2, <1>3, <1>4 DEF Stood

\* An attempt that begins observing has an effect to observe.
LEMMA BeginStep ==
  ASSUME TypeOK, NEW a \in Attempt, AttemptInv(a), Held, Begin(a)
  PROVE  Stood(a)
<1>1. TypeOK'
  BY DispatchAssumption DEF Begin, TypeOK, Goto, Fenced, Counters, Phases,
                            store, world
<1>2. AttemptInv(a)'
  BY DispatchAssumption DEF Begin, TypeOK, Goto, Fenced, Counters, Phases,
                            store, world, AttemptInv, PassOf, PlaceOf,
                            Audited, Sighted
<1>3. Apart(a) /\ Lasting
  BY DEF Begin, Goto, TypeOK, store, world, Apart, Lasting
<1>4. Held' /\ broker' = broker
  BY DEF Begin, TypeOK, Fenced, store, world, Held
<1> QED
  BY <1>1, <1>2, <1>3, <1>4 DEF Stood

\* Without the run log an attempt observes, or leaves nothing behind.
LEMMA BeginUnloggedStep ==
  ASSUME TypeOK, NEW a \in Attempt, AttemptInv(a), Held, BeginUnlogged(a)
  PROVE  Stood(a)
<1>1. TypeOK'
  <2>1. /\ faults' \in 0..MaxFaults
        /\ UNCHANGED <<effect, reprice, cancel, stop, world>>
    BY DispatchAssumption DEF BeginUnlogged, Fault, TypeOK
  <2>2. task' \in {task, "queued"} /\ owner' \in {owner, NoAttempt}
    BY DEF BeginUnlogged, Release
  <2>3. /\ pc' \in [Attempt -> Counters]
        /\ phase' \in [Attempt -> Phases]
    BY DEF BeginUnlogged, Drop, Goto, TypeOK, Counters, Phases
  <2>4. pos' = pos \/ pos' = [pos EXCEPT ![a] = 1]
    BY DEF BeginUnlogged, Drop
  <2>5. pos' \in [Attempt -> 1..(Orders + 1)]
    BY <2>4, DispatchAssumption DEF TypeOK
  <2>6. seen' = seen \/ seen' = [seen EXCEPT ![a] = Unseen]
    BY DEF BeginUnlogged, Drop
  <2>7. Unseen \in [Order -> Receipts]
    BY DEF Unseen, Receipts, Generation, BrokerStates
  <2>8. seen' \in [Attempt -> [Order -> Receipts]]
    BY <2>6, <2>7 DEF TypeOK
  <2> QED
    BY <2>1, <2>2, <2>3, <2>5, <2>8 DEF TypeOK, world
<1>2. AttemptInv(a)'
  BY DispatchAssumption DEF BeginUnlogged, TypeOK, Goto, Fenced, Counters,
                            Phases, store, world, AttemptInv, PassOf, PlaceOf,
                            Audited, Sighted, Drop, Release, Unseen, Receipts,
                            Generation, BrokerStates, Order
<1>3. Apart(a) /\ Lasting
  BY DEF BeginUnlogged, Goto, TypeOK, store, world, Apart, Lasting, Drop,
         Release, Unseen, Receipts, Generation, BrokerStates, Order
<1>4. Held' /\ broker' = broker
  BY DispatchAssumption DEF BeginUnlogged, TypeOK, Fenced, store, world, Held,
                            Release
<1> QED
  BY <1>1, <1>2, <1>3, <1>4 DEF Stood

\* The intent of the commitment: the effect is not settled yet.
LEMMA RecordIntentStep ==
  ASSUME TypeOK, NEW a \in Attempt, AttemptInv(a), Held, RecordIntent(a)
  PROVE  Stood(a)
<1>1. TypeOK'
  BY DispatchAssumption DEF RecordIntent, TypeOK, Goto, Fenced, Counters,
                            Phases, store, world
<1>2. AttemptInv(a)'
  BY DispatchAssumption DEF RecordIntent, TypeOK, Goto, Fenced, Counters,
                            Phases, store, world, AttemptInv, PassOf, PlaceOf,
                            Audited, Sighted
<1>3. Apart(a) /\ Lasting
  BY DEF RecordIntent, Goto, TypeOK, store, world, Apart, Lasting
<1>4. Held' /\ broker' = broker
  BY DispatchAssumption DEF RecordIntent, TypeOK, Fenced, store, world, Held
<1> QED
  BY <1>1, <1>2, <1>3, <1>4 DEF Stood

\* The door of execute_commitment.
LEMMA AuditSubmitStep ==
  ASSUME TypeOK, NEW a \in Attempt, AttemptInv(a), Held, AuditSubmit(a)
  PROVE  Stood(a)
<1>1. TypeOK'
  BY DispatchAssumption DEF AuditSubmit, TypeOK, Goto, Fenced, Counters,
                            Phases, store, world
<1>2. AttemptInv(a)'
  BY DispatchAssumption DEF AuditSubmit, TypeOK, Goto, Fenced, Counters,
                            Phases, store, world, AttemptInv, PassOf, PlaceOf,
                            Audited, Sighted
<1>3. Apart(a) /\ Lasting
  BY DEF AuditSubmit, Goto, TypeOK, store, world, Apart, Lasting
<1>4. Held' /\ broker' = broker
  BY DEF AuditSubmit, TypeOK, Fenced, store, world, Held
<1> QED
  BY <1>1, <1>2, <1>3, <1>4 DEF Stood

\* What a lookup shows is what the broker has.
LEMMA LookupStep ==
  ASSUME TypeOK, NEW a \in Attempt, AttemptInv(a), Held,
         pc[a] \in {"find1", "find0"}, NEW g \in Generation,
         See(a, pos[a], g, broker[pos[a]][g]), Found(a),
         UNCHANGED <<store, world, phase, faults>>
  PROVE  Stood(a)
<1>1. PICK o \in Order : o = pos[a]
  BY DEF AttemptInv, PlaceOf
<1>2. broker[o][g] \in BrokerStates
  BY DEF TypeOK
<1>3. /\ seen' \in [Attempt -> [Order -> Receipts]]
      /\ seen'[a][o].gen = g
      /\ seen'[a][o].state = broker[o][g]
      /\ \A p \in Order : p # o => seen'[a][p] = seen[a][p]
      /\ \A b \in Attempt : b # a => seen'[b] = seen[b]
  BY <1>1, <1>2, SeeFacts
<1>4. /\ pc' \in [Attempt -> Counters]
      /\ pos' \in [Attempt -> 1..(Orders + 1)]
      /\ pos'[a] \in Order
      /\ \/ pc'[a] = "find1"
         \/ pc'[a] = "post" /\ phase[a] = "submit"
         \/ pc'[a] = "cancel" /\ phase[a] = "observe"
         \/ pc'[a] = "evaluate" /\ phase[a] = "observed"
      /\ \A b \in Attempt : b # a => pc'[b] = pc[b] /\ pos'[b] = pos[b]
  BY FoundFacts
<1>5. TypeOK'
  BY <1>3, <1>4 DEF TypeOK, store, world
<1>6. PassOf(a)' /\ PlaceOf(a)'
  BY <1>4 DEF AttemptInv, PassOf, PlaceOf
<1>7. Audited(a)'
  BY <1>4 DEF AttemptInv, Audited, store
<1>8. Sighted(a)'
  BY <1>3, <1>4 DEF AttemptInv, Sighted, world
<1>9. Apart(a) /\ Lasting /\ Held' /\ broker' = broker
  BY <1>3, <1>4 DEF Apart, Lasting, Held, store, world
<1> QED
  BY <1>5, <1>6, <1>7, <1>8, <1>9 DEF Stood, AttemptInv

\* The replacement's client id first, and the original's when there is none.
LEMMA FindSuccessorStep ==
  ASSUME TypeOK, NEW a \in Attempt, AttemptInv(a), Held, FindSuccessor(a)
  PROVE  Stood(a)
<1>1. pc[a] = "find1" /\ UNCHANGED <<store, world, phase, faults>>
  BY DEF FindSuccessor
<1>2. CASE broker[pos[a]][1] # "absent"
  BY <1>1, <1>2, LookupStep DEF FindSuccessor, Generation
<1>3. CASE broker[pos[a]][1] = "absent"
  <2>1. Goto(a, "find0") /\ UNCHANGED <<pos, seen>>
    BY <1>3 DEF FindSuccessor
  <2>2. TypeOK'
    BY <1>1, <2>1 DEF TypeOK, Goto, Counters, store, world
  <2>3. AttemptInv(a)'
    BY <1>1, <2>1 DEF TypeOK, Goto, AttemptInv, PassOf, PlaceOf, Audited,
                      Sighted, store, world
  <2>4. Apart(a) /\ Lasting /\ Held' /\ broker' = broker
    BY <1>1, <2>1 DEF TypeOK, Goto, Apart, Lasting, Held, store, world
  <2> QED
    BY <2>2, <2>3, <2>4 DEF Stood
<1> QED
  BY <1>2, <1>3

\* The search for the order itself by its client order id.
LEMMA FindOriginalStep ==
  ASSUME TypeOK, NEW a \in Attempt, AttemptInv(a), Held, FindOriginal(a)
  PROVE  Stood(a)
  BY LookupStep DEF FindOriginal, Generation

\* The window and the market session.
LEMMA CheckPermissionStep ==
  ASSUME TypeOK, NEW a \in Attempt, AttemptInv(a), Held, CheckPermission(a)
  PROVE  Stood(a)
<1>1. TypeOK'
  BY DispatchAssumption DEF CheckPermission, TypeOK, Goto, Fenced, Counters,
                            Phases, store, world
<1>2. AttemptInv(a)'
  BY DispatchAssumption DEF CheckPermission, TypeOK, Goto, Fenced, Counters,
                            Phases, store, world, AttemptInv, PassOf, PlaceOf,
                            Audited, Sighted, Known
<1>3. Apart(a) /\ Lasting
  BY DEF CheckPermission, Goto, TypeOK, store, world, Apart, Lasting
<1>4. Held' /\ broker' = broker
  BY DispatchAssumption DEF CheckPermission, TypeOK, Fenced, store, world, Held
<1> QED
  BY <1>1, <1>2, <1>3, <1>4 DEF Stood

\* The intent of a reprice is in the Store before the attempt goes on.
LEMMA RecordRepriceStep ==
  ASSUME TypeOK, NEW a \in Attempt, AttemptInv(a), Held, RecordReprice(a)
  PROVE  Stood(a)
<1>1. TypeOK'
  BY DispatchAssumption DEF RecordReprice, TypeOK, Goto, Fenced, Counters,
                            Phases, store, world, ActionStates
<1>2. AttemptInv(a)'
  BY DispatchAssumption DEF RecordReprice, TypeOK, Goto, Fenced, Counters,
                            Phases, store, world, AttemptInv, PassOf, PlaceOf,
                            Audited, Sighted, ActionStates
<1>3. Apart(a) /\ Lasting
  BY DEF RecordReprice, Goto, TypeOK, store, world, Apart, Lasting,
         ActionStates
<1>4. Held' /\ broker' = broker
  BY DispatchAssumption DEF RecordReprice, TypeOK, Fenced, store, world, Held
<1> QED
  BY <1>1, <1>2, <1>3, <1>4 DEF Stood

\* The original is live, or the reprice is an error.
LEMMA ReplacePriorStep ==
  ASSUME TypeOK, NEW a \in Attempt, AttemptInv(a), Held, ReplacePrior(a)
  PROVE  Stood(a)
<1>1. TypeOK'
  BY DispatchAssumption DEF ReplacePrior, TypeOK, Goto, Fenced, Counters,
                            Phases, store, world
<1>2. AttemptInv(a)'
  BY DispatchAssumption DEF ReplacePrior, TypeOK, Goto, Fenced, Counters,
                            Phases, store, world, AttemptInv, PassOf, PlaceOf,
                            Audited, Sighted
<1>3. Apart(a) /\ Lasting
  BY DEF ReplacePrior, Goto, TypeOK, store, world, Apart, Lasting
<1>4. Held' /\ broker' = broker
  BY DispatchAssumption DEF ReplacePrior, TypeOK, Fenced, store, world, Held
<1> QED
  BY <1>1, <1>2, <1>3, <1>4 DEF Stood

\* The last refresh.
LEMMA StaleDoneStep ==
  ASSUME TypeOK, NEW a \in Attempt, AttemptInv(a), Held, StaleDone(a)
  PROVE  Stood(a)
<1>1. TypeOK'
  BY DispatchAssumption DEF StaleDone, TypeOK, Goto, Fenced, Counters, Phases,
                            store, world
<1>2. AttemptInv(a)'
  BY DispatchAssumption DEF StaleDone, TypeOK, Goto, Fenced, Counters, Phases,
                            store, world, AttemptInv, PassOf, PlaceOf,
                            Audited, Sighted
<1>3. Apart(a) /\ Lasting
  BY DEF StaleDone, Goto, TypeOK, store, world, Apart, Lasting
<1>4. Held' /\ broker' = broker
  BY DispatchAssumption DEF StaleDone, TypeOK, Fenced, store, world, Held
<1> QED
  BY <1>1, <1>2, <1>3, <1>4 DEF Stood

\* A failed attempt forgets everything.
LEMMA ReportFailedStep ==
  ASSUME TypeOK, NEW a \in Attempt, AttemptInv(a), Held, ReportFailed(a)
  PROVE  Stood(a)
<1>1. TypeOK'
  BY DispatchAssumption DEF ReportFailed, TypeOK, Goto, Fenced, Counters,
                            Phases, store, world, Drop, Release, Unseen,
                            Receipts, Generation, BrokerStates, Order
<1>2. AttemptInv(a)'
  BY DispatchAssumption DEF ReportFailed, TypeOK, Goto, Fenced, Counters,
                            Phases, store, world, AttemptInv, PassOf, PlaceOf,
                            Audited, Sighted, Drop, Release, Unseen, Receipts,
                            Generation, BrokerStates, Order
<1>3. Apart(a) /\ Lasting
  BY DEF ReportFailed, Goto, TypeOK, store, world, Apart, Lasting, Drop,
         Release, Unseen, Receipts, Generation, BrokerStates, Order
<1>4. Held' /\ broker' = broker
  BY DispatchAssumption DEF ReportFailed, TypeOK, Fenced, store, world, Held, Release
<1> QED
  BY <1>1, <1>2, <1>3, <1>4 DEF Stood

\* A refused write cancels the task only when nothing was announced.
LEMMA ReportStoppedStep ==
  ASSUME TypeOK, NEW a \in Attempt, AttemptInv(a), Held, ReportStopped(a)
  PROVE  Stood(a)
<1>1. TypeOK'
  BY DispatchAssumption DEF ReportStopped, TypeOK, Goto, Fenced, Counters,
                            Phases, store, world, Drop, Release, Unseen,
                            Receipts, Generation, BrokerStates, Order
<1>2. AttemptInv(a)'
  BY DispatchAssumption DEF ReportStopped, TypeOK, Goto, Fenced, Counters,
                            Phases, store, world, AttemptInv, PassOf, PlaceOf,
                            Audited, Sighted, Drop, Release, Unseen, Receipts,
                            Generation, BrokerStates, Order
<1>3. Apart(a) /\ Lasting
  BY DEF ReportStopped, Goto, TypeOK, store, world, Apart, Lasting, Drop,
         Release, Unseen, Receipts, Generation, BrokerStates, Order
<1>4. Held' /\ broker' = broker
  BY DispatchAssumption DEF ReportStopped, TypeOK, Fenced, store, world, Held,
                            Release
<1> QED
  BY <1>1, <1>2, <1>3, <1>4 DEF Stood

\* An end that the run log does not take: the task waits, nothing is forgotten
\* but the future.
LEMMA PutOffStep ==
  ASSUME TypeOK, NEW a \in Attempt, AttemptInv(a), Held, PutOff(a)
  PROVE  Stood(a)
<1>1. TypeOK'
  BY DispatchAssumption DEF PutOff, Fault, TypeOK, Goto, Fenced, Counters,
                            Phases, store, world, Drop, Release, Unseen,
                            Receipts, Generation, BrokerStates, Order
<1>2. AttemptInv(a)'
  BY DispatchAssumption DEF PutOff, TypeOK, Goto, Fenced, Counters,
                            Phases, store, world, AttemptInv, PassOf, PlaceOf,
                            Audited, Sighted, Drop, Release, Unseen, Receipts,
                            Generation, BrokerStates, Order
<1>3. Apart(a) /\ Lasting
  BY DEF PutOff, Goto, TypeOK, store, world, Apart, Lasting, Drop,
         Release, Unseen, Receipts, Generation, BrokerStates, Order
<1>4. Held' /\ broker' = broker
  BY DispatchAssumption DEF PutOff, TypeOK, Fenced, store, world, Held,
                            Release
<1> QED
  BY <1>1, <1>2, <1>3, <1>4 DEF Stood

\* The next durable reprice is of an order of the plan.
LEMMA ResumeRepriceStep ==
  ASSUME TypeOK, NEW a \in Attempt, AttemptInv(a), Held, ResumeReprice(a)
  PROVE  Stood(a)
<1> DEFINE todo == {o \in Known(a) :
                      o >= pos[a] /\ reprice[o] \in {"committed", "intent"}}
<1>1. pc[a] = "reprice" /\ UNCHANGED <<store, world, phase, seen, faults>>
  BY DEF ResumeReprice
<1>2. todo # {} => First(todo) \in Order
  <2>1. todo \in SUBSET Order
    BY DEF Known
  <2> HIDE DEF todo
  <2> QED  BY <2>1, FirstIsFirst
<1>3. \/ Goto(a, "cancel") /\ pos' = [pos EXCEPT ![a] = 1]
      \/ /\ Goto(a, "repRecord")
         /\ \E o \in Order : pos' = [pos EXCEPT ![a] = o]
  BY <1>2 DEF ResumeReprice
<1>4. pos' \in [Attempt -> 1..(Orders + 1)] /\ pos'[a] \in Order
  <2>1. PICK o \in Order : pos' = [pos EXCEPT ![a] = o]
    BY <1>3, DispatchAssumption DEF Order
  <2> QED
    BY <2>1, DispatchAssumption DEF TypeOK, Order
<1>5. TypeOK'
  BY <1>1, <1>3, <1>4 DEF TypeOK, Goto, Counters, store, world
<1>6. AttemptInv(a)'
  BY <1>1, <1>3, <1>4 DEF TypeOK, Goto, AttemptInv, PassOf, PlaceOf, Audited,
                          Sighted, store, world
<1>7. Apart(a) /\ Lasting /\ Held' /\ broker' = broker
  BY <1>1, <1>3 DEF TypeOK, Goto, Apart, Lasting, Held, store, world
<1> QED
  BY <1>5, <1>6, <1>7 DEF Stood

\* The same for the cancels; when there is none left, an observing attempt
\* looks everything up again.
LEMMA ResumeCancelStep ==
  ASSUME TypeOK, NEW a \in Attempt, AttemptInv(a), Held, ResumeCancel(a)
  PROVE  Stood(a)
<1> DEFINE todo == {o \in Known(a) :
                      o >= pos[a] /\ cancel[o].state \in {"committed", "intent"}}
<1>1. pc[a] = "cancel" /\ UNCHANGED <<store, world, faults>>
  BY DEF ResumeCancel
<1>2. todo # {} => First(todo) \in Order
  <2>1. todo \in SUBSET Order
    BY DEF Known
  <2> HIDE DEF todo
  <2> QED  BY <2>1, FirstIsFirst
<1>3. CASE todo # {} /\ Goto(a, "canRecord") /\ UNCHANGED <<phase, seen>>
             /\ pos' = [pos EXCEPT ![a] = First(todo)]
  <2>1. PICK o \in Order : pos' = [pos EXCEPT ![a] = o]
    BY <1>2, <1>3
  <2>2. pos' \in [Attempt -> 1..(Orders + 1)] /\ pos'[a] \in Order
    BY <2>1, DispatchAssumption DEF TypeOK, Order
  <2>3. TypeOK'
    BY <1>1, <1>3, <2>2 DEF TypeOK, Goto, Counters, store, world
  <2>4. AttemptInv(a)'
    BY <1>1, <1>3, <2>2 DEF TypeOK, Goto, AttemptInv, PassOf, PlaceOf, Audited,
                            Sighted, store, world
  <2>5. Apart(a) /\ Lasting /\ Held' /\ broker' = broker
    BY <1>1, <1>3, <2>1 DEF TypeOK, Goto, Apart, Lasting, Held, store, world
  <2> QED
    BY <2>3, <2>4, <2>5 DEF Stood
<1>4. CASE phase[a] = "submit" /\ Goto(a, "refresh")
             /\ UNCHANGED <<phase, pos, seen>>
  <2>1. TypeOK'
    BY <1>1, <1>4 DEF TypeOK, Goto, Counters, store, world
  <2>2. AttemptInv(a)'
    BY <1>1, <1>4 DEF TypeOK, Goto, AttemptInv, PassOf, PlaceOf, Audited,
                      Sighted, store, world
  <2>3. Apart(a) /\ Lasting /\ Held' /\ broker' = broker
    BY <1>1, <1>4 DEF TypeOK, Goto, Apart, Lasting, Held, store, world
  <2> QED
    BY <2>1, <2>2, <2>3 DEF Stood
<1>5. CASE /\ phase[a] = "observe"
           /\ Goto(a, "find1")
           /\ phase' = [phase EXCEPT ![a] = "observed"]
           /\ pos' = [pos EXCEPT ![a] = 1]
           /\ seen' = [seen EXCEPT ![a] = Unseen]
  <2> USE DispatchAssumption
  <2>1. TypeOK'
    BY <1>1, <1>5 DEF TypeOK, Goto, Counters, Phases, Order, Unseen, Receipts,
                      Generation, BrokerStates, store, world
  <2>2. AttemptInv(a)'
    BY <1>1, <1>5 DEF TypeOK, Goto, AttemptInv, PassOf, PlaceOf, Audited,
                      Sighted, Order, Unseen, store, world
  <2>3. Apart(a) /\ Lasting /\ Held' /\ broker' = broker
    BY <1>1, <1>5 DEF TypeOK, Goto, Apart, Lasting, Held, store, world
  <2> QED
    BY <2>1, <2>2, <2>3 DEF Stood
<1> QED
  BY <1>3, <1>4, <1>5 DEF ResumeCancel

\* The intent of a cancel is in the Store before the attempt goes on.
LEMMA RecordCancelStep ==
  ASSUME TypeOK, NEW a \in Attempt, AttemptInv(a), Held, RecordCancel(a)
  PROVE  Stood(a)
<1>1. /\ pc[a] = "canRecord"
      /\ UNCHANGED <<task, owner, effect, reprice, stop, world, phase, pos,
                     seen, faults>>
  BY DEF RecordCancel
<1>2. PICK o \in Order : o = pos[a]
  BY <1>1 DEF AttemptInv, PlaceOf
<1>3. CASE Fenced(a)
  <2>1. cancel' = [cancel EXCEPT ![o].state = "intent"] /\ Goto(a, "can0")
    BY <1>2, <1>3 DEF RecordCancel
  <2>2. /\ cancel' \in [Order -> [state : ActionStates, gen : Generation]]
        /\ cancel'[o].state = "intent"
        /\ \A p \in Order : p # o => cancel'[p] = cancel[p]
    BY <2>1, CancelFacts DEF ActionStates
  <2>3. TypeOK'
    BY <1>1, <2>1, <2>2 DEF TypeOK, Goto, Counters, world
  <2>4. AttemptInv(a)'
    BY <1>1, <1>2, <2>1, <2>2 DEF TypeOK, Goto, AttemptInv, PassOf, PlaceOf,
                                  Audited, Sighted, world
  <2>5. Apart(a) /\ Lasting /\ Held' /\ broker' = broker
    BY <1>1, <2>1, <2>2 DEF TypeOK, Goto, Apart, Lasting, Held, world
  <2> QED
    BY <2>3, <2>4, <2>5 DEF Stood
<1>4. CASE ~Fenced(a)
  <2>1. UNCHANGED cancel /\ Goto(a, "failed")
    BY <1>4 DEF RecordCancel
  <2>2. TypeOK'
    BY <1>1, <2>1 DEF TypeOK, Goto, Counters, world
  <2>3. AttemptInv(a)'
    BY <1>1, <2>1 DEF TypeOK, Goto, AttemptInv, PassOf, PlaceOf, Audited,
                      Sighted, world
  <2>4. Apart(a) /\ Lasting /\ Held' /\ broker' = broker
    BY <1>1, <2>1 DEF TypeOK, Goto, Apart, Lasting, Held, world
  <2> QED
    BY <2>2, <2>3, <2>4 DEF Stood
<1> QED
  BY <1>3, <1>4

\* The successor that exists is what a reprice is settled with.
LEMMA ReplaceLookupStep ==
  ASSUME TypeOK, NEW a \in Attempt, AttemptInv(a), Held, ReplaceLookup(a)
  PROVE  Stood(a)
<1>1. pc[a] = "rep1" /\ UNCHANGED <<store, world, phase, faults>>
  BY DEF ReplaceLookup
<1>2. PICK o \in Order : o = pos[a]
  BY <1>1 DEF AttemptInv, PlaceOf
<1>3. broker[o][1] \in BrokerStates
  BY DEF TypeOK, Generation
<1>4. CASE broker[o][1] # "absent" /\ See(a, o, 1, broker[o][1])
             /\ Goto(a, "repSettle") /\ UNCHANGED pos
  <2>1. /\ seen' \in [Attempt -> [Order -> Receipts]]
        /\ seen'[a][o].gen = 1
        /\ seen'[a][o].state = broker[o][1]
        /\ \A p \in Order : p # o => seen'[a][p] = seen[a][p]
        /\ \A b \in Attempt : b # a => seen'[b] = seen[b]
    BY <1>3, <1>4, SeeFacts DEF Generation
  <2>2. TypeOK'
    BY <1>1, <1>4, <2>1 DEF TypeOK, Goto, Counters, store, world
  <2>3. AttemptInv(a)'
    BY <1>1, <1>2, <1>4, <2>1 DEF TypeOK, Goto, AttemptInv, PassOf, PlaceOf,
                                  Audited, Sighted, store, world
  <2>4. Apart(a) /\ Lasting /\ Held' /\ broker' = broker
    BY <1>1, <1>4, <2>1 DEF TypeOK, Goto, Apart, Lasting, Held, store, world
  <2> QED
    BY <2>2, <2>3, <2>4 DEF Stood
<1>5. CASE UNCHANGED seen /\ NextInLoop(a, "reprice")
  <2>1. /\ pc' \in [Attempt -> Counters]
        /\ pos' \in [Attempt -> 1..(Orders + 1)]
        /\ pc'[a] = IF phase[a] = "stale" THEN "stale" ELSE "reprice"
        /\ \A b \in Attempt : b # a => pc'[b] = pc[b] /\ pos'[b] = pos[b]
    BY <1>2, <1>5, NextFacts
  <2>2. TypeOK'
    BY <1>1, <1>5, <2>1 DEF TypeOK, store, world
  <2>3. AttemptInv(a)'
    BY <1>1, <1>5, <2>1 DEF AttemptInv, PassOf, PlaceOf, Audited, Sighted,
                            store, world
  <2>4. Apart(a) /\ Lasting /\ Held' /\ broker' = broker
    BY <1>1, <1>5, <2>1 DEF Apart, Lasting, Held, store, world
  <2> QED
    BY <2>2, <2>3, <2>4 DEF Stood
<1>6. CASE UNCHANGED <<pos, seen>> /\ (Goto(a, "stopped") \/ Goto(a, "rep0"))
  <2>1. TypeOK'
    BY <1>1, <1>6 DEF TypeOK, Goto, Counters, store, world
  <2>2. AttemptInv(a)'
    BY <1>1, <1>6 DEF TypeOK, Goto, AttemptInv, PassOf, PlaceOf, Audited,
                      Sighted, store, world
  <2>3. Apart(a) /\ Lasting /\ Held' /\ broker' = broker
    BY <1>1, <1>6 DEF TypeOK, Goto, Apart, Lasting, Held, store, world
  <2> QED
    BY <2>1, <2>2, <2>3 DEF Stood
<1> QED
  BY <1>2, <1>4, <1>5, <1>6 DEF ReplaceLookup

\* A settled action goes on in the loop it was taken from.
LEMMA SettleRepriceStep ==
  ASSUME TypeOK, NEW a \in Attempt, AttemptInv(a), Held, SettleReprice(a)
  PROVE  Stood(a)
<1>1. /\ pc[a] = "repSettle"
      /\ UNCHANGED <<task, owner, effect, cancel, stop, world, phase, seen,
                     faults>>
  BY DEF SettleReprice
<1>2. PICK o \in Order : o = pos[a]
  BY <1>1 DEF AttemptInv, PlaceOf
<1>3. CASE Fenced(a)
  <2>1. reprice' = [reprice EXCEPT ![o] = "settled"] /\ NextInLoop(a, "reprice")
    BY <1>2, <1>3 DEF SettleReprice
  <2>2. /\ pc' \in [Attempt -> Counters]
        /\ pos' \in [Attempt -> 1..(Orders + 1)]
        /\ pc'[a] = IF phase[a] = "stale" THEN "stale" ELSE "reprice"
        /\ \A b \in Attempt : b # a => pc'[b] = pc[b] /\ pos'[b] = pos[b]
    BY <1>2, <2>1, NextFacts
  <2>3. TypeOK'
    BY <1>1, <2>1, <2>2 DEF TypeOK, ActionStates, world
  <2>4. AttemptInv(a)'
    BY <1>1, <2>2 DEF AttemptInv, PassOf, PlaceOf, Audited, Sighted, world
  <2>5. Apart(a) /\ Lasting /\ Held' /\ broker' = broker
    BY <1>1, <2>1, <2>2 DEF TypeOK, Apart, Lasting, Held, world
  <2> QED
    BY <2>3, <2>4, <2>5 DEF Stood
<1>4. CASE ~Fenced(a)
  <2>1. UNCHANGED <<reprice, pos>> /\ Goto(a, "failed")
    BY <1>4 DEF SettleReprice
  <2>2. TypeOK'
    BY <1>1, <2>1 DEF TypeOK, Goto, Counters, world
  <2>3. AttemptInv(a)'
    BY <1>1, <2>1 DEF TypeOK, Goto, AttemptInv, PassOf, PlaceOf, Audited,
                      Sighted, world
  <2>4. Apart(a) /\ Lasting /\ Held' /\ broker' = broker
    BY <1>1, <2>1 DEF TypeOK, Goto, Apart, Lasting, Held, world
  <2> QED
    BY <2>2, <2>3, <2>4 DEF Stood
<1> QED
  BY <1>3, <1>4

\* The Store settles a cancel, if the attempt is still the owner.
LEMMA SettleCancelStep ==
  ASSUME TypeOK, NEW a \in Attempt, AttemptInv(a), Held, SettleCancel(a)
  PROVE  Stood(a)
<1>1. /\ pc[a] = "canSettle"
      /\ UNCHANGED <<task, owner, effect, reprice, stop, world, phase, seen,
                     faults>>
  BY DEF SettleCancel
<1>2. PICK o \in Order : o = pos[a]
  BY <1>1 DEF AttemptInv, PlaceOf
<1>3. CASE Fenced(a)
  <2>1. /\ cancel' = [cancel EXCEPT ![o].state = "settled"]
        /\ NextInLoop(a, "cancel")
    BY <1>2, <1>3 DEF SettleCancel
  <2>2. /\ cancel' \in [Order -> [state : ActionStates, gen : Generation]]
        /\ cancel'[o].state = "settled"
        /\ \A p \in Order : p # o => cancel'[p] = cancel[p]
    BY <2>1, CancelFacts DEF ActionStates
  <2>3. /\ pc' \in [Attempt -> Counters]
        /\ pos' \in [Attempt -> 1..(Orders + 1)]
        /\ pc'[a] = IF phase[a] = "stale" THEN "stale" ELSE "cancel"
        /\ \A b \in Attempt : b # a => pc'[b] = pc[b] /\ pos'[b] = pos[b]
    BY <1>2, <2>1, NextFacts
  <2>4. TypeOK'
    BY <1>1, <2>2, <2>3 DEF TypeOK, world
  <2>5. AttemptInv(a)'
    BY <1>1, <2>3 DEF AttemptInv, PassOf, PlaceOf, Audited, Sighted, world
  <2>6. Apart(a) /\ Lasting /\ Held' /\ broker' = broker
    BY <1>1, <2>2, <2>3 DEF TypeOK, Apart, Lasting, Held, world
  <2> QED
    BY <2>4, <2>5, <2>6 DEF Stood
<1>4. CASE ~Fenced(a)
  <2>1. UNCHANGED <<cancel, pos>> /\ Goto(a, "failed")
    BY <1>4 DEF SettleCancel
  <2>2. TypeOK'
    BY <1>1, <2>1 DEF TypeOK, Goto, Counters, world
  <2>3. AttemptInv(a)'
    BY <1>1, <2>1 DEF TypeOK, Goto, AttemptInv, PassOf, PlaceOf, Audited,
                      Sighted, world
  <2>4. Apart(a) /\ Lasting /\ Held' /\ broker' = broker
    BY <1>1, <2>1 DEF TypeOK, Goto, Apart, Lasting, Held, world
  <2> QED
    BY <2>2, <2>3, <2>4 DEF Stood
<1> QED
  BY <1>3, <1>4

\* The last round of GETs: each known receipt is what the broker has.
LEMMA RefreshStep ==
  ASSUME TypeOK, NEW a \in Attempt, AttemptInv(a), Held, Refresh(a)
  PROVE  Stood(a)
<1> DEFINE shown(o) == IF o \in Known(a)
                       THEN [seen[a][o] EXCEPT
                               !.state = broker[o][seen[a][o].gen]]
                       ELSE seen[a][o]
<1>1. /\ pc[a] = "refresh"
      /\ Goto(a, "evaluate")
      /\ UNCHANGED <<store, world, phase, pos, faults>>
  BY DEF Refresh
<1>2. seen' = [seen EXCEPT ![a] = [o \in Order |-> shown(o)]]
  BY DEF Refresh
<1>3. \A o \in Order : /\ shown(o) \in Receipts
                       /\ shown(o).state = "closed" =>
                              broker[o][shown(o).gen] = "closed"
  <2> SUFFICES ASSUME NEW o \in Order
               PROVE  /\ shown(o) \in Receipts
                      /\ shown(o).state = "closed" =>
                             broker[o][shown(o).gen] = "closed"
    OBVIOUS
  <2>1. seen[a][o] \in Receipts /\ seen[a][o].gen \in Generation
    BY DEF TypeOK, Receipts
  <2>2. broker[o][seen[a][o].gen] \in BrokerStates
    BY <2>1 DEF TypeOK
  <2>3. CASE o \in Known(a)
    <3> DEFINE r == [seen[a][o] EXCEPT !.state = broker[o][seen[a][o].gen]]
    <3>1. /\ r \in Receipts
          /\ r.gen = seen[a][o].gen
          /\ r.state = broker[o][seen[a][o].gen]
      BY <2>1, <2>2, Zenon DEF Receipts
    <3>2. shown(o) = r
      BY <2>3
    <3> HIDE DEF r, shown
    <3> QED
      BY <3>1, <3>2
  <2>4. CASE o \notin Known(a)
    BY <2>1, <2>4 DEF AttemptInv, Sighted
  <2> QED
    BY <2>3, <2>4
<1> HIDE DEF shown
<1>4. /\ seen' \in [Attempt -> [Order -> Receipts]]
      /\ \A o \in Order : seen'[a][o] = shown(o)
      /\ \A b \in Attempt : b # a => seen'[b] = seen[b]
  BY <1>2, <1>3 DEF TypeOK
<1>5. TypeOK'
  BY <1>1, <1>4 DEF TypeOK, Goto, Counters, store, world
<1>6. PassOf(a)' /\ PlaceOf(a)' /\ Audited(a)'
  BY <1>1 DEF TypeOK, Goto, AttemptInv, PassOf, PlaceOf, Audited, store
<1>7. Sighted(a)'
  BY <1>1, <1>3, <1>4 DEF TypeOK, Goto, Sighted, world
<1>8. Apart(a) /\ Lasting /\ Held' /\ broker' = broker
  BY <1>1, <1>4 DEF TypeOK, Goto, Apart, Lasting, Held, store, world
<1> QED
  BY <1>5, <1>6, <1>7, <1>8 DEF Stood, AttemptInv

\* The evaluation drops the attempt, or goes on to the stale orders.
LEMMA EvaluateStep ==
  ASSUME TypeOK, NEW a \in Attempt, AttemptInv(a), Held, Evaluate(a)
  PROVE  Stood(a)
<1>1. TypeOK'
  <2>1. /\ pc[a] = "evaluate"
        /\ UNCHANGED <<reprice, cancel, stop, world, faults>>
    BY DEF Evaluate
  <2>2. CASE Drop(a)
    <3>1. /\ pc' \in [Attempt -> Counters]
          /\ phase' \in [Attempt -> Phases]
          /\ pos' \in [Attempt -> 1..(Orders + 1)]
          /\ seen' \in [Attempt -> [Order -> Receipts]]
      BY <2>2, DispatchAssumption
      DEF TypeOK, Drop, Goto, Counters, Phases, Unseen, Receipts, Generation,
          BrokerStates
    <3>2. /\ task' \in {"queued", "running", "succeeded", "failed", "cancelled"}
          /\ owner' \in Attempt \cup {NoAttempt}
          /\ effect' \in {"none", "intent", "settled"}
      BY DEF Evaluate, TypeOK, Release
    <3> QED
      BY <2>1, <3>1, <3>2 DEF TypeOK, world
  <2>3. CASE /\ Goto(a, "stale")
             /\ phase' = [phase EXCEPT ![a] = "stale"]
             /\ pos' = [pos EXCEPT ![a] = 1]
             /\ UNCHANGED <<task, owner, effect, seen>>
    BY <2>1, <2>3, DispatchAssumption DEF TypeOK, Goto, Counters, Phases, world
  <2> QED
    BY <2>2, <2>3 DEF Evaluate
<1>2. AttemptInv(a)'
  BY DispatchAssumption DEF Evaluate, TypeOK, Goto, Fenced, Counters, Phases,
                            store, world, AttemptInv, PassOf, PlaceOf,
                            Audited, Sighted, Drop, Release, Unseen, Receipts,
                            Generation, BrokerStates, Order
<1>3. Apart(a) /\ Lasting
  BY DEF Evaluate, Goto, TypeOK, store, world, Apart, Lasting, Drop, Release,
         Unseen, Receipts, Generation, BrokerStates, Order
<1>4. Held' /\ broker' = broker
  BY DispatchAssumption DEF Evaluate, TypeOK, Fenced, store, world, Held,
                            Release
<1> QED
  BY <1>1, <1>2, <1>3, <1>4 DEF Stood

\* The reprice of a stale order is committed where there was none.
LEMMA StaleRepriceStep ==
  ASSUME TypeOK, NEW a \in Attempt, AttemptInv(a), Held, StaleReprice(a)
  PROVE  Stood(a)
<1>1. /\ pc[a] = "stale"
      /\ UNCHANGED <<task, owner, effect, cancel, stop, world, phase, seen,
                     faults>>
  BY DEF StaleReprice
<1>2. PICK o \in Order :
        /\ reprice[o] = "none"
        /\ \/ /\ reprice' = [reprice EXCEPT ![o] = "committed"]
              /\ Goto(a, "repRecord")
           \/ UNCHANGED reprice /\ Goto(a, "failed")
        /\ pos' = [pos EXCEPT ![a] = o]
  BY DEF StaleReprice, Candidates
<1>3. pos' \in [Attempt -> 1..(Orders + 1)] /\ pos'[a] \in Order
  BY <1>2, DispatchAssumption DEF TypeOK, Order
<1>4. TypeOK'
  BY <1>1, <1>2, <1>3 DEF TypeOK, Goto, Counters, ActionStates, world
<1>5. AttemptInv(a)'
  BY <1>1, <1>2, <1>3 DEF TypeOK, Goto, AttemptInv, PassOf, PlaceOf, Audited,
                          Sighted, world
<1>6. Apart(a) /\ Lasting /\ Held' /\ broker' = broker
  BY <1>1, <1>2 DEF TypeOK, Goto, Apart, Lasting, Held, world
<1> QED
  BY <1>4, <1>5, <1>6 DEF Stood

\* A stale order is committed to be cancelled.
LEMMA StaleCancelStep ==
  ASSUME TypeOK, NEW a \in Attempt, AttemptInv(a), Held, StaleCancel(a)
  PROVE  Stood(a)
<1>1. /\ pc[a] = "stale"
      /\ UNCHANGED <<task, owner, effect, reprice, stop, world, phase, seen,
                     faults>>
  BY DEF StaleCancel
<1>2. PICK o \in Order :
        /\ cancel[o].state = "none"
        /\ \/ /\ cancel' = [cancel EXCEPT ![o] =
                     [state |-> "committed", gen |-> seen[a][o].gen]]
              /\ Goto(a, "canRecord")
           \/ UNCHANGED cancel /\ Goto(a, "failed")
        /\ pos' = [pos EXCEPT ![a] = o]
  BY DEF StaleCancel, Candidates
<1>3. pos' \in [Attempt -> 1..(Orders + 1)] /\ pos'[a] \in Order
  BY <1>2, DispatchAssumption DEF TypeOK, Order
<1>4. [state |-> "committed", gen |-> seen[a][o].gen]
        \in [state : ActionStates, gen : Generation]
  BY DEF TypeOK, Receipts, ActionStates
<1>5. /\ cancel' \in [Order -> [state : ActionStates, gen : Generation]]
      /\ \A p \in Order : p # o => cancel'[p] = cancel[p]
  BY <1>2, <1>4 DEF TypeOK
<1>6. TypeOK'
  BY <1>1, <1>2, <1>3, <1>5 DEF TypeOK, Goto, Counters, world
<1>7. AttemptInv(a)'
  BY <1>1, <1>2, <1>3 DEF TypeOK, Goto, AttemptInv, PassOf, PlaceOf, Audited,
                          Sighted, world
<1>8. Apart(a) /\ Lasting /\ Held' /\ broker' = broker
  BY <1>1, <1>2, <1>5 DEF TypeOK, Goto, Apart, Lasting, Held, world
<1> QED
  BY <1>6, <1>7, <1>8 DEF Stood

------------------------------------------------------------------------------
(***************************************************************************)
(* The requests.  A step of an attempt sends none, sends one it then waits *)
(* for and has announced, or leaves the one it waits for to nobody.        *)
(***************************************************************************)
Waiting == {"posting", "patching", "deleting"}

Sends(a, r) ==
    /\ wire' = wire \cup {r}
    /\ r.from = a
    /\ Awaited(r)'
    /\ r.kind = "POST" => effect # "none"
    /\ r.kind = "PATCH" => reprice[r.order] \in {"intent", "settled"}
    /\ r.kind = "DELETE" => cancel[r.order].state \in {"intent", "settled"}

Mail(a) ==
    \/ wire' = wire /\ pc[a] \notin Waiting
    \/ pc[a] \notin Waiting /\ \E r \in Requests : Sends(a, r)
    \/ wire' = Orphaned(a)

\* A request nobody waits for any more is the request it was.
LEMMA OrphanedFacts ==
  ASSUME TypeOK, NEW a \in Attempt, NEW s \in Orphaned(a)
  PROVE  /\ s \in Requests
         /\ (s \in wire /\ s.from # a) \/ s.from = NoAttempt
         /\ \E r \in wire : r.kind = s.kind /\ r.order = s.order
<1>1. PICK r \in wire :
         s = IF r.from = a THEN [r EXCEPT !.from = NoAttempt] ELSE r
  BY DEF Orphaned
<1>2. r \in Requests
  BY DEF TypeOK
<1>3. CASE r.from = a
  <2>1. /\ [r EXCEPT !.from = NoAttempt] \in Requests
        /\ [r EXCEPT !.from = NoAttempt].from = NoAttempt
        /\ [r EXCEPT !.from = NoAttempt].kind = r.kind
        /\ [r EXCEPT !.from = NoAttempt].order = r.order
    BY <1>2, Zenon DEF Requests
  <2> QED
    BY <1>1, <1>3, <2>1
<1>4. CASE r.from # a
  BY <1>1, <1>2, <1>4
<1> QED
  BY <1>3, <1>4

\* The POST of the first order the attempt does not know.
LEMMA SubmitStep ==
  ASSUME TypeOK, NEW a \in Attempt, AttemptInv(a), Held, Submit(a)
  PROVE  Stood(a) /\ Mail(a)
<1>1. /\ pc[a] = "guard"
      /\ UNCHANGED <<store, window, broker, phase, pos, seen, faults>>
  BY DEF Submit
<1>2. PICK o \in Order : o = First(Order \ Known(a))
  <2>1. Order \ Known(a) # {}
    BY <1>1 DEF AttemptInv, Sighted, Known
  <2>2. Order \ Known(a) \in SUBSET Order
    OBVIOUS
  <2> QED
    BY <2>1, <2>2, FirstIsFirst
<1> DEFINE r == [kind |-> "POST", order |-> o, gen |-> 0, from |-> a]
<1>3. /\ r \in Requests
      /\ r.kind = "POST"
      /\ r.from = a
  BY DEF Requests, Generation
<1>4. \/ Goto(a, "stopped") /\ wire' = wire
      \/ Goto(a, "posting") /\ wire' = wire \cup {r}
  BY <1>2 DEF Submit
<1> HIDE DEF r
<1>5. TypeOK'
  BY <1>1, <1>3, <1>4 DEF TypeOK, Goto, Counters, store
<1>6. AttemptInv(a)'
  BY <1>1, <1>4 DEF TypeOK, Goto, AttemptInv, PassOf, PlaceOf, Audited,
                    Sighted,
                    store
<1>7. Apart(a) /\ Lasting /\ Held' /\ broker' = broker
  BY <1>1, <1>4 DEF TypeOK, Goto, Apart, Lasting, Held, store
<1>8. Mail(a)
  <2>1. CASE wire' = wire
    BY <1>1, <2>1 DEF Mail, Waiting
  <2>2. CASE Goto(a, "posting") /\ wire' = wire \cup {r}
    <3>1. Awaited(r)'
      BY <1>3, <2>2 DEF Awaited, Goto, TypeOK
    <3>2. effect # "none"
      BY <1>1 DEF AttemptInv, Audited
    <3> QED
      BY <1>1, <1>3, <2>2, <3>1, <3>2 DEF Mail, Sends, Waiting
  <2> QED
    BY <1>4, <2>1, <2>2
<1> QED
  BY <1>5, <1>6, <1>7, <1>8 DEF Stood

\* The PATCH of the order whose reprice the Store has.
LEMMA ReplaceStep ==
  ASSUME TypeOK, NEW a \in Attempt, AttemptInv(a), Held, Replace(a)
  PROVE  Stood(a) /\ Mail(a)
<1>1. /\ pc[a] = "repSend"
      /\ UNCHANGED <<store, window, broker, phase, seen, faults>>
  BY DEF Replace
<1>2. PICK o \in Order : o = pos[a]
  BY <1>1 DEF AttemptInv, PlaceOf
<1> DEFINE r == [kind |-> "PATCH", order |-> o, gen |-> 1, from |-> a]
<1>3. /\ r \in Requests
      /\ r.kind = "PATCH"
      /\ r.order = o
      /\ r.from = a
  BY DEF Requests, Generation
<1>4. \/ NextInLoop(a, "reprice") /\ wire' = wire
      \/ Goto(a, "stopped") /\ wire' = wire /\ pos' = pos
      \/ Goto(a, "patching") /\ wire' = wire \cup {r} /\ pos' = pos
  BY <1>2 DEF Replace
<1> HIDE DEF r
<1>5. CASE NextInLoop(a, "reprice") /\ wire' = wire
  <2>1. /\ pc' \in [Attempt -> Counters]
        /\ pos' \in [Attempt -> 1..(Orders + 1)]
        /\ pc'[a] = IF phase[a] = "stale" THEN "stale" ELSE "reprice"
        /\ \A b \in Attempt : b # a => pc'[b] = pc[b] /\ pos'[b] = pos[b]
    BY <1>2, <1>5, NextFacts
  <2>2. TypeOK'
    BY <1>1, <1>5, <2>1 DEF TypeOK, store
  <2>3. AttemptInv(a)'
    BY <1>1, <2>1 DEF AttemptInv, PassOf, PlaceOf, Audited, Sighted, store
  <2>4. Apart(a) /\ Lasting /\ Held' /\ broker' = broker
    BY <1>1, <2>1 DEF Apart, Lasting, Held, store
  <2> QED
    BY <1>1, <1>5, <2>2, <2>3, <2>4 DEF Stood, Mail, Waiting
<1>6. CASE pos' = pos /\ \/ Goto(a, "stopped") /\ wire' = wire
                         \/ Goto(a, "patching") /\ wire' = wire \cup {r}
  <2>1. TypeOK'
    BY <1>1, <1>3, <1>6 DEF TypeOK, Goto, Counters, store
  <2>2. AttemptInv(a)'
    BY <1>1, <1>6 DEF TypeOK, Goto, AttemptInv, PassOf, PlaceOf, Audited,
                      Sighted, store
  <2>3. Apart(a) /\ Lasting /\ Held' /\ broker' = broker
    BY <1>1, <1>6 DEF TypeOK, Goto, Apart, Lasting, Held, store
  <2>4. CASE wire' = wire
    BY <1>1, <2>1, <2>2, <2>3, <2>4 DEF Stood, Mail, Waiting
  <2>5. CASE Goto(a, "patching") /\ wire' = wire \cup {r}
    <3>1. Awaited(r)'
      BY <1>2, <1>3, <1>6, <2>5 DEF Awaited, Goto, TypeOK
    <3>2. reprice[r.order] \in {"intent", "settled"}
      BY <1>1, <1>2, <1>3 DEF AttemptInv, Audited
    <3>3. Mail(a)
      BY <1>1, <1>3, <2>5, <3>1, <3>2 DEF Mail, Sends, Waiting
    <3> QED
      BY <2>1, <2>2, <2>3, <3>3 DEF Stood
  <2> QED
    BY <1>6, <2>4, <2>5
<1> QED
  BY <1>4, <1>5, <1>6

\* The DELETE of the generation the cancel intent names.
LEMMA CancelOrderStep ==
  ASSUME TypeOK, NEW a \in Attempt, AttemptInv(a), Held, CancelOrder(a)
  PROVE  Stood(a) /\ Mail(a)
<1>1. /\ pc[a] = "can0"
      /\ UNCHANGED <<store, window, broker, phase, pos, faults>>
  BY DEF CancelOrder
<1>2. PICK o \in Order : o = pos[a]
  BY <1>1 DEF AttemptInv, PlaceOf
<1>3. PICK g \in Generation : g = cancel[o].gen
  BY DEF TypeOK
<1>4. broker[o][g] \in BrokerStates
  BY DEF TypeOK
<1> DEFINE r == [kind |-> "DELETE", order |-> o, gen |-> g, from |-> a]
<1>5. /\ r \in Requests
      /\ r.kind = "DELETE"
      /\ r.order = o
      /\ r.from = a
  BY DEF Requests
<1>6. \/ Goto(a, "failed") /\ UNCHANGED <<wire, seen>>
      \/ See(a, o, g, broker[o][g]) /\ Goto(a, "canSettle") /\ UNCHANGED wire
      \/ wire' = wire \cup {r} /\ Goto(a, "deleting") /\ UNCHANGED seen
  BY <1>2, <1>3 DEF CancelOrder
<1> HIDE DEF r
<1>7. CASE See(a, o, g, broker[o][g]) /\ Goto(a, "canSettle") /\ UNCHANGED wire
  <2>1. /\ seen' \in [Attempt -> [Order -> Receipts]]
        /\ seen'[a][o].gen = g
        /\ seen'[a][o].state = broker[o][g]
        /\ \A p \in Order : p # o => seen'[a][p] = seen[a][p]
        /\ \A b \in Attempt : b # a => seen'[b] = seen[b]
    BY <1>4, <1>7, SeeFacts
  <2>2. TypeOK'
    BY <1>1, <1>7, <2>1 DEF TypeOK, Goto, Counters, store
  <2>3. AttemptInv(a)'
    BY <1>1, <1>7, <2>1 DEF TypeOK, Goto, AttemptInv, PassOf, PlaceOf, Audited,
                            Sighted, store
  <2>4. Apart(a) /\ Lasting /\ Held' /\ broker' = broker
    BY <1>1, <1>7, <2>1 DEF TypeOK, Goto, Apart, Lasting, Held, store
  <2> QED
    BY <1>1, <1>7, <2>2, <2>3, <2>4 DEF Stood, Mail, Waiting
<1>8. CASE UNCHANGED seen /\ \/ Goto(a, "failed") /\ UNCHANGED wire
                             \/ Goto(a, "deleting") /\ wire' = wire \cup {r}
  <2>1. TypeOK'
    BY <1>1, <1>5, <1>8 DEF TypeOK, Goto, Counters, store
  <2>2. AttemptInv(a)'
    BY <1>1, <1>8 DEF TypeOK, Goto, AttemptInv, PassOf, PlaceOf, Audited,
                      Sighted, store
  <2>3. Apart(a) /\ Lasting /\ Held' /\ broker' = broker
    BY <1>1, <1>8 DEF TypeOK, Goto, Apart, Lasting, Held, store
  <2>4. CASE wire' = wire
    BY <1>1, <2>1, <2>2, <2>3, <2>4 DEF Stood, Mail, Waiting
  <2>5. CASE Goto(a, "deleting") /\ wire' = wire \cup {r}
    <3>1. Awaited(r)'
      BY <1>1, <1>2, <1>5, <2>5 DEF Awaited, Goto, TypeOK
    <3>2. cancel[r.order].state \in {"intent", "settled"}
      BY <1>1, <1>2, <1>5 DEF AttemptInv, Audited
    <3>3. Mail(a)
      BY <1>1, <1>5, <2>5, <3>1, <3>2 DEF Mail, Sends, Waiting
    <3> QED
      BY <2>1, <2>2, <2>3, <3>3 DEF Stood
  <2> QED
    BY <1>8, <2>4, <2>5
<1> QED
  BY <1>6, <1>7, <1>8

\* A crash and an error leave the request under way behind.
LEMMA CrashStep ==
  ASSUME TypeOK, NEW a \in Attempt, AttemptInv(a), Held, Crash(a)
  PROVE  Stood(a) /\ Mail(a)
<1>1. /\ wire' = Orphaned(a)
      /\ faults' \in 0..MaxFaults
      /\ UNCHANGED <<store, window, broker>>
  BY DispatchAssumption DEF Crash, Fault, TypeOK
<1>2. wire' \subseteq Requests
  BY <1>1, OrphanedFacts
<1>3. /\ pc' = [pc EXCEPT ![a] = "idle"]
      /\ phase' = [phase EXCEPT ![a] = "submit"]
      /\ pos' = [pos EXCEPT ![a] = 1]
      /\ seen' = [seen EXCEPT ![a] = Unseen]
  BY DEF Crash, Drop, Goto
<1>4. Unseen \in [Order -> Receipts] /\ \A o \in Order : Unseen[o].state # "closed"
  BY DEF Unseen, Receipts, Generation, BrokerStates
<1>5. TypeOK'
  BY <1>1, <1>2, <1>3, <1>4, DispatchAssumption
  DEF TypeOK, Counters, Phases, store
<1>6. AttemptInv(a)'
  BY <1>1, <1>3, <1>4, DispatchAssumption
  DEF TypeOK, AttemptInv, PassOf, PlaceOf, Audited, Sighted, Order, store
<1>7. Apart(a) /\ Lasting /\ Held' /\ broker' = broker
  BY <1>1, <1>3 DEF TypeOK, Apart, Lasting, Held, store
<1> QED
  BY <1>1, <1>5, <1>6, <1>7 DEF Stood, Mail

\* An attempt that fails; its request may still be on the way.
LEMMA FailsStep ==
  ASSUME TypeOK, NEW a \in Attempt, AttemptInv(a), Held, Fails(a)
  PROVE  Stood(a) /\ Mail(a)
<1>1. /\ wire' = Orphaned(a)
      /\ faults' \in 0..MaxFaults
      /\ Goto(a, "failed")
      /\ UNCHANGED <<store, window, broker, phase, pos, seen>>
  BY DispatchAssumption DEF Fails, Fault, TypeOK
<1>2. wire' \subseteq Requests
  BY <1>1, OrphanedFacts
<1>3. TypeOK'
  BY <1>1, <1>2 DEF TypeOK, Goto, Counters, store
<1>4. AttemptInv(a)'
  BY <1>1 DEF TypeOK, Goto, AttemptInv, PassOf, PlaceOf, Audited, Sighted,
              store
<1>5. Apart(a) /\ Lasting /\ Held' /\ broker' = broker
  BY <1>1 DEF TypeOK, Goto, Apart, Lasting, Held, store
<1> QED
  BY <1>1, <1>3, <1>4, <1>5 DEF Stood, Mail

------------------------------------------------------------------------------
(***************************************************************************)
(* Every other step sends nothing, and only two of them settle anything.   *)
(***************************************************************************)
Quiet(a) == wire' = wire /\ pc[a] \notin Waiting

SettlesNothing ==
    /\ effect' = "settled" => effect = "settled"
    /\ \A o \in Order : reprice'[o] = "settled" => reprice[o] = "settled"

\* A step that is not a write to the broker leaves the wire alone.
LEMMA QuietSteps ==
  ASSUME NEW a \in Attempt
  PROVE  /\ Claim(a) => Quiet(a)
         /\ Begin(a) => Quiet(a)
         /\ RecordIntent(a) => Quiet(a)
         /\ AuditSubmit(a) => Quiet(a)
         /\ FindSuccessor(a) => Quiet(a)
         /\ FindOriginal(a) => Quiet(a)
         /\ CheckPermission(a) => Quiet(a)
         /\ ResumeReprice(a) => Quiet(a)
         /\ RecordReprice(a) => Quiet(a)
         /\ ReplaceLookup(a) => Quiet(a)
         /\ ReplacePrior(a) => Quiet(a)
         /\ SettleReprice(a) => Quiet(a)
         /\ ResumeCancel(a) => Quiet(a)
         /\ RecordCancel(a) => Quiet(a)
         /\ SettleCancel(a) => Quiet(a)
         /\ Refresh(a) => Quiet(a)
         /\ Evaluate(a) => Quiet(a)
         /\ StaleReprice(a) => Quiet(a)
         /\ StaleCancel(a) => Quiet(a)
         /\ StaleDone(a) => Quiet(a)
         /\ ReportFailed(a) => Quiet(a)
         /\ ReportStopped(a) => Quiet(a)
         /\ BeginUnlogged(a) => Quiet(a)
         /\ PutOff(a) => Quiet(a)
<1>1. Claim(a) => Quiet(a)
  BY DEF Claim, Quiet, Waiting, world
<1>2. Begin(a) => Quiet(a)
  BY DEF Begin, Quiet, Waiting, world
<1>3. RecordIntent(a) => Quiet(a)
  BY DEF RecordIntent, Quiet, Waiting, world
<1>4. AuditSubmit(a) => Quiet(a)
  BY DEF AuditSubmit, Quiet, Waiting, world
<1>5. FindSuccessor(a) => Quiet(a)
  BY DEF FindSuccessor, Quiet, Waiting, world
<1>6. FindOriginal(a) => Quiet(a)
  BY DEF FindOriginal, Quiet, Waiting, world
<1>7. CheckPermission(a) => Quiet(a)
  BY DEF CheckPermission, Quiet, Waiting, world
<1>8. ResumeReprice(a) => Quiet(a)
  BY DEF ResumeReprice, Quiet, Waiting, world
<1>9. RecordReprice(a) => Quiet(a)
  BY DEF RecordReprice, Quiet, Waiting, world
<1>10. ReplaceLookup(a) => Quiet(a)
  BY DEF ReplaceLookup, Quiet, Waiting, world
<1>11. ReplacePrior(a) => Quiet(a)
  BY DEF ReplacePrior, Quiet, Waiting, world
<1>12. SettleReprice(a) => Quiet(a)
  BY DEF SettleReprice, Quiet, Waiting, world
<1>13. ResumeCancel(a) => Quiet(a)
  BY DEF ResumeCancel, Quiet, Waiting, world
<1>14. RecordCancel(a) => Quiet(a)
  BY DEF RecordCancel, Quiet, Waiting, world
<1>15. SettleCancel(a) => Quiet(a)
  BY DEF SettleCancel, Quiet, Waiting, world
<1>16. Refresh(a) => Quiet(a)
  BY DEF Refresh, Quiet, Waiting, world
<1>17. Evaluate(a) => Quiet(a)
  BY DEF Evaluate, Quiet, Waiting, world
<1>18. StaleReprice(a) => Quiet(a)
  BY DEF StaleReprice, Quiet, Waiting, world
<1>19. StaleCancel(a) => Quiet(a)
  BY DEF StaleCancel, Quiet, Waiting, world
<1>20. StaleDone(a) => Quiet(a)
  BY DEF StaleDone, Quiet, Waiting, world
<1>21. ReportFailed(a) => Quiet(a)
  BY DEF ReportFailed, Quiet, Waiting, world
<1>22. ReportStopped(a) => Quiet(a)
  BY DEF ReportStopped, Quiet, Waiting, world
<1>23. BeginUnlogged(a) => Quiet(a)
  BY DEF BeginUnlogged, Quiet, Waiting, world
<1>24. PutOff(a) => Quiet(a)
  BY DEF PutOff, Quiet, Waiting, world
<1> QED
  BY <1>1, <1>2, <1>3, <1>4, <1>5, <1>6, <1>7, <1>8, <1>9, <1>10, <1>11,
     <1>12, <1>13, <1>14, <1>15, <1>16, <1>17, <1>18, <1>19, <1>20, <1>21,
     <1>22, <1>23, <1>24

\* All but the evaluation and the settlement of a reprice settle nothing.
LEMMA NothingSettled ==
  ASSUME TypeOK, NEW a \in Attempt
  PROVE  /\ Claim(a) => SettlesNothing
         /\ Begin(a) => SettlesNothing
         /\ RecordIntent(a) => SettlesNothing
         /\ AuditSubmit(a) => SettlesNothing
         /\ FindSuccessor(a) => SettlesNothing
         /\ FindOriginal(a) => SettlesNothing
         /\ CheckPermission(a) => SettlesNothing
         /\ ResumeReprice(a) => SettlesNothing
         /\ RecordReprice(a) => SettlesNothing
         /\ ReplaceLookup(a) => SettlesNothing
         /\ ReplacePrior(a) => SettlesNothing
         /\ ResumeCancel(a) => SettlesNothing
         /\ RecordCancel(a) => SettlesNothing
         /\ SettleCancel(a) => SettlesNothing
         /\ Refresh(a) => SettlesNothing
         /\ StaleReprice(a) => SettlesNothing
         /\ StaleCancel(a) => SettlesNothing
         /\ StaleDone(a) => SettlesNothing
         /\ ReportFailed(a) => SettlesNothing
         /\ ReportStopped(a) => SettlesNothing
         /\ Submit(a) => SettlesNothing
         /\ Replace(a) => SettlesNothing
         /\ CancelOrder(a) => SettlesNothing
         /\ Crash(a) => SettlesNothing
         /\ Fails(a) => SettlesNothing
         /\ BeginUnlogged(a) => SettlesNothing
         /\ PutOff(a) => SettlesNothing
<1> USE DEF SettlesNothing, TypeOK, store
<1>1. Claim(a) => SettlesNothing
  BY DEF Claim
<1>2. Begin(a) => SettlesNothing
  BY DEF Begin
<1>3. RecordIntent(a) => SettlesNothing
  BY DEF RecordIntent
<1>4. AuditSubmit(a) => SettlesNothing
  BY DEF AuditSubmit
<1>5. FindSuccessor(a) => SettlesNothing
  BY DEF FindSuccessor
<1>6. FindOriginal(a) => SettlesNothing
  BY DEF FindOriginal
<1>7. CheckPermission(a) => SettlesNothing
  BY DEF CheckPermission
<1>8. ResumeReprice(a) => SettlesNothing
  BY DEF ResumeReprice
<1>9. RecordReprice(a) => SettlesNothing
  BY DEF RecordReprice
<1>10. ReplaceLookup(a) => SettlesNothing
  BY DEF ReplaceLookup
<1>11. ReplacePrior(a) => SettlesNothing
  BY DEF ReplacePrior
<1>12. ResumeCancel(a) => SettlesNothing
  BY DEF ResumeCancel
<1>13. RecordCancel(a) => SettlesNothing
  BY DEF RecordCancel
<1>14. SettleCancel(a) => SettlesNothing
  BY DEF SettleCancel
<1>15. Refresh(a) => SettlesNothing
  BY DEF Refresh
<1>16. StaleReprice(a) => SettlesNothing
  BY DEF StaleReprice
<1>17. StaleCancel(a) => SettlesNothing
  BY DEF StaleCancel
<1>18. StaleDone(a) => SettlesNothing
  BY DEF StaleDone
<1>19. ReportFailed(a) => SettlesNothing
  BY DEF ReportFailed
<1>20. ReportStopped(a) => SettlesNothing
  BY DEF ReportStopped
<1>21. Submit(a) => SettlesNothing
  BY DEF Submit
<1>22. Replace(a) => SettlesNothing
  BY DEF Replace
<1>23. CancelOrder(a) => SettlesNothing
  BY DEF CancelOrder
<1>24. Crash(a) => SettlesNothing
  BY DEF Crash
<1>25. Fails(a) => SettlesNothing
  BY DEF Fails
<1>26. BeginUnlogged(a) => SettlesNothing
  BY DEF BeginUnlogged
<1>27. PutOff(a) => SettlesNothing
  BY DEF PutOff
<1> QED
  BY <1>1, <1>2, <1>3, <1>4, <1>5, <1>6, <1>7, <1>8, <1>9, <1>10, <1>11,
     <1>12, <1>13, <1>14, <1>15, <1>16, <1>17, <1>18, <1>19, <1>20, <1>21,
     <1>22, <1>23, <1>24, <1>25, <1>26, <1>27

\* A complete evaluation saw every order end, through its successor where it
\* has a durable reprice; so no replacement is live behind what it saw.
LEMMA EvaluateSettles ==
  ASSUME IInv, NEW a \in Attempt, Evaluate(a), broker' = broker
  PROVE  SettledMeansClosed'
<1>1. reprice' = reprice
  BY DEF Evaluate
<1>2. CASE effect' = "settled" /\ effect # "settled"
  <2>1. Complete(a)
    BY <1>2 DEF Evaluate
  <2> SUFFICES ASSUME NEW o \in Order
               PROVE  /\ broker[o][0] \in {"closed", "replaced"}
                      /\ broker[o][1] \in {"closed", "absent"}
                      /\ broker[o][0] = "replaced" => broker[o][1] = "closed"
    BY <1>1, <1>2 DEF SettledMeansClosed, IInv
  <2>2. /\ seen[a][o].gen \in Generation
        /\ broker[o][seen[a][o].gen] = "closed"
    BY <2>1 DEF Complete, IInv, AttemptInv, Sighted, TypeOK, Receipts
  <2>3. CASE seen[a][o].gen = 1
    BY <2>2, <2>3 DEF IInv, Succession
  <2>4. CASE seen[a][o].gen = 0
    <3>1. reprice[o] = "none"
      BY <2>1, <2>4 DEF Complete
    <3>2. broker[o][1] = "absent"
      BY <3>1 DEF IInv, IntentBeforeWrite
    <3> QED
      BY <2>2, <2>4, <3>2
  <2> QED
    BY <2>2, <2>3, <2>4 DEF Generation
<1>3. CASE effect' = "settled" => effect = "settled"
  BY <1>1, <1>3 DEF SettledMeansClosed, IInv
<1> QED
  BY <1>2, <1>3

\* A reprice is settled by an attempt that has seen its successor.
LEMMA SettleRepriceSettles ==
  ASSUME IInv, NEW a \in Attempt, SettleReprice(a), broker' = broker
  PROVE  SettledMeansClosed'
<1>1. /\ pc[a] = "repSettle"
      /\ effect' = effect
      /\ reprice' = [reprice EXCEPT ![pos[a]] = "settled"] \/ reprice' = reprice
  BY DEF SettleReprice
<1>2. broker[pos[a]][1] # "absent"
  BY <1>1 DEF IInv, AttemptInv, Sighted
<1>3. \A o \in Order : reprice'[o] = "settled" =>
                         reprice[o] = "settled" \/ o = pos[a]
  BY <1>1 DEF IInv, TypeOK
<1> QED
  BY <1>1, <1>2, <1>3 DEF SettledMeansClosed, IInv

\* Nobody waits for two answers, and who waits stays where it waits.
LEMMA MailRequested ==
  ASSUME IInv, NEW a \in Attempt, Mail(a), Apart(a)
  PROVE  Requested'
<1>1. \A r \in wire : r.from = a => pc[a] \in Waiting
  <2> SUFFICES ASSUME NEW r \in wire, r.from = a PROVE pc[a] \in Waiting
    OBVIOUS
  <2>1. r \in Requests /\ r.from # NoAttempt
    BY DispatchAssumption DEF IInv, TypeOK
  <2>2. r.kind \in {"POST", "PATCH", "DELETE"}
    BY <2>1 DEF Requests
  <2> QED
    BY <2>1, <2>2 DEF IInv, Requested, Awaited, Waiting
<1>2. \A r \in wire : r.from # a => Awaited(r)'
  <2> SUFFICES ASSUME NEW r \in wire, r.from # a, r.from # NoAttempt
               PROVE  Awaited(r)'
    BY DEF Awaited
  <2>1. r.from \in Attempt
    BY DEF IInv, TypeOK, Requests
  <2>2. pc'[r.from] = pc[r.from] /\ pos'[r.from] = pos[r.from]
    BY <2>1 DEF Apart
  <2> QED
    BY <2>2 DEF IInv, Requested, Awaited
<1>3. CASE wire' = wire /\ pc[a] \notin Waiting
  BY <1>1, <1>2, <1>3 DEF IInv, Requested
<1>4. CASE pc[a] \notin Waiting /\ \E r \in Requests : Sends(a, r)
  <2>1. PICK r \in Requests : Sends(a, r)
    BY <1>4
  <2>2. \A s \in wire : s.from # a
    BY <1>1, <1>4
  <2> QED
    BY <1>2, <2>1, <2>2 DEF IInv, Requested, Sends
<1>5. CASE wire' = Orphaned(a)
  <2>1. \A s \in wire' : s.from # NoAttempt => s \in wire /\ s.from # a
    BY <1>5, OrphanedFacts DEF IInv
  <2>2. \A s \in wire' : Awaited(s)'
    <3> SUFFICES ASSUME NEW s \in wire' PROVE Awaited(s)'
      OBVIOUS
    <3>1. CASE s.from = NoAttempt
      BY <3>1 DEF Awaited
    <3>2. CASE s.from # NoAttempt
      BY <1>2, <2>1, <3>2
    <3> QED
      BY <3>1, <3>2
  <2> QED
    BY <2>1, <2>2 DEF IInv, Requested
<1> QED
  BY <1>3, <1>4, <1>5 DEF Mail

\* What an attempt sends was announced before.
LEMMA MailAnnounced ==
  ASSUME IInv, NEW a \in Attempt, Mail(a), Lasting, broker' = broker
  PROVE  IntentBeforeWrite'
<1> DEFINE Told(r) ==
      /\ r.kind = "POST" => effect # "none"
      /\ r.kind = "PATCH" => reprice[r.order] \in {"intent", "settled"}
      /\ r.kind = "DELETE" => cancel[r.order].state \in {"intent", "settled"}
<1>1. \A r \in wire : Told(r)
  <2> SUFFICES ASSUME NEW r \in wire PROVE Told(r)
    OBVIOUS
  <2>1. r.order \in Order
    BY DEF IInv, TypeOK, Requests
  <2>2. Sent(r.kind, r.order)
    BY DEF Sent
  <2> QED
    BY <2>1, <2>2 DEF IInv, IntentBeforeWrite
<1>2. \A r \in wire' : Told(r)
  <2>1. CASE wire' = wire
    BY <1>1, <2>1
  <2>2. CASE \E r \in Requests : Sends(a, r)
    BY <1>1, <2>2 DEF Sends
  <2>3. CASE wire' = Orphaned(a)
    <3> SUFFICES ASSUME NEW s \in wire' PROVE Told(s)
      OBVIOUS
    <3>1. PICK r \in wire : r.kind = s.kind /\ r.order = s.order
      BY <2>3, OrphanedFacts DEF IInv
    <3> QED
      BY <1>1, <3>1
  <2> QED
    BY <2>1, <2>2, <2>3 DEF Mail
<1>3. \A o \in Order : /\ Sent("POST", o)' => effect # "none"
                       /\ Sent("PATCH", o)' => reprice[o] \in {"intent", "settled"}
                       /\ Sent("DELETE", o)' =>
                              cancel[o].state \in {"intent", "settled"}
  BY <1>2 DEF Sent
<1> QED
  BY <1>3 DEF IInv, IntentBeforeWrite, Lasting

\* One step of an attempt, or the end of it.
Acts(a) ==
    Claim(a) \/ Step(a) \/ BeginUnlogged(a) \/ PutOff(a) \/ Crash(a) \/ Fails(a)

\* Whatever an attempt does, its own part of the invariant stands, and a
\* dispatch it settles is closed at the broker.
LEMMA ActsStand ==
  ASSUME IInv, NEW a \in Attempt, Acts(a)
  PROVE  Stood(a) /\ Mail(a) /\ SettledMeansClosed'
<1> USE DEF IInv
<1> DEFINE Fine == Stood(a) /\ Mail(a) /\ SettledMeansClosed'
<1>q. Quiet(a) => Mail(a)
  BY DEF Quiet, Mail
<1>s. SettlesNothing /\ Stood(a) => SettledMeansClosed'
  BY DEF SettlesNothing, Stood, SettledMeansClosed
<1>1. Claim(a) => Fine
  BY ClaimStep, QuietSteps, NothingSettled, <1>s, <1>q
<1>2. Begin(a) => Fine
  BY BeginStep, QuietSteps, NothingSettled, <1>s, <1>q
<1>3. RecordIntent(a) => Fine
  BY RecordIntentStep, QuietSteps, NothingSettled, <1>s, <1>q
<1>4. AuditSubmit(a) => Fine
  BY AuditSubmitStep, QuietSteps, NothingSettled, <1>s, <1>q
<1>5. FindSuccessor(a) => Fine
  BY FindSuccessorStep, QuietSteps, NothingSettled, <1>s, <1>q
<1>6. FindOriginal(a) => Fine
  BY FindOriginalStep, QuietSteps, NothingSettled, <1>s, <1>q
<1>7. CheckPermission(a) => Fine
  BY CheckPermissionStep, QuietSteps, NothingSettled, <1>s, <1>q
<1>8. ResumeReprice(a) => Fine
  BY ResumeRepriceStep, QuietSteps, NothingSettled, <1>s, <1>q
<1>9. RecordReprice(a) => Fine
  BY RecordRepriceStep, QuietSteps, NothingSettled, <1>s, <1>q
<1>10. ReplaceLookup(a) => Fine
  BY ReplaceLookupStep, QuietSteps, NothingSettled, <1>s, <1>q
<1>11. ReplacePrior(a) => Fine
  BY ReplacePriorStep, QuietSteps, NothingSettled, <1>s, <1>q
<1>12. SettleReprice(a) => Fine
  BY SettleRepriceStep, QuietSteps, SettleRepriceSettles, <1>q DEF Stood
<1>13. ResumeCancel(a) => Fine
  BY ResumeCancelStep, QuietSteps, NothingSettled, <1>s, <1>q
<1>14. RecordCancel(a) => Fine
  BY RecordCancelStep, QuietSteps, NothingSettled, <1>s, <1>q
<1>15. SettleCancel(a) => Fine
  BY SettleCancelStep, QuietSteps, NothingSettled, <1>s, <1>q
<1>16. Refresh(a) => Fine
  BY RefreshStep, QuietSteps, NothingSettled, <1>s, <1>q
<1>17. Evaluate(a) => Fine
  BY EvaluateStep, QuietSteps, EvaluateSettles, <1>q DEF Stood
<1>18. StaleReprice(a) => Fine
  BY StaleRepriceStep, QuietSteps, NothingSettled, <1>s, <1>q
<1>19. StaleCancel(a) => Fine
  BY StaleCancelStep, QuietSteps, NothingSettled, <1>s, <1>q
<1>20. StaleDone(a) => Fine
  BY StaleDoneStep, QuietSteps, NothingSettled, <1>s, <1>q
<1>21. ReportFailed(a) => Fine
  BY ReportFailedStep, QuietSteps, NothingSettled, <1>s, <1>q
<1>22. ReportStopped(a) => Fine
  BY ReportStoppedStep, QuietSteps, NothingSettled, <1>s, <1>q
<1>23. Submit(a) => Fine
  BY SubmitStep, NothingSettled, <1>s
<1>24. Replace(a) => Fine
  BY ReplaceStep, NothingSettled, <1>s
<1>25. CancelOrder(a) => Fine
  BY CancelOrderStep, NothingSettled, <1>s
<1>26. Crash(a) => Fine
  BY CrashStep, NothingSettled, <1>s
<1>27. Fails(a) => Fine
  BY FailsStep, NothingSettled, <1>s
<1>28. BeginUnlogged(a) => Fine
  BY BeginUnloggedStep, QuietSteps, NothingSettled, <1>s, <1>q
<1>29. PutOff(a) => Fine
  BY PutOffStep, QuietSteps, NothingSettled, <1>s, <1>q
<1> QED
  BY <1>1, <1>2, <1>3, <1>4, <1>5, <1>6, <1>7, <1>8, <1>9, <1>10, <1>11,
     <1>12, <1>13, <1>14, <1>15, <1>16, <1>17, <1>18, <1>19, <1>20, <1>21,
     <1>22, <1>23, <1>24, <1>25, <1>26, <1>27, <1>28, <1>29 DEF Acts, Step

\* Each step of an attempt keeps the whole invariant.
LEMMA ActsKeepIInv ==
  ASSUME IInv, NEW a \in Attempt, Acts(a)
  PROVE  IInv'
<1>1. Stood(a) /\ Mail(a) /\ SettledMeansClosed'
  BY ActsStand
<1>2. \A b \in Attempt : AttemptInv(b)'
  <2>1. \A b \in Attempt : b # a => AttemptInv(b)'
    BY <1>1, OthersStand DEF Stood, IInv
  <2> QED
    BY <1>1, <2>1 DEF Stood
<1>3. Requested'
  BY <1>1, MailRequested DEF Stood
<1>4. IntentBeforeWrite'
  BY <1>1, MailAnnounced DEF Stood
<1>5. Succession'
  BY <1>1 DEF Stood, IInv, Succession
<1> QED
  BY <1>1, <1>2, <1>3, <1>4, <1>5 DEF Stood, IInv

------------------------------------------------------------------------------
(***************************************************************************)
(* The broker.  It takes a request or moves an order on: one order turns,  *)
(* and one that is over does not.                                          *)
(***************************************************************************)
Over(o) ==
    /\ broker[o][0] \in {"closed", "replaced"}
    /\ broker[o][1] \in {"closed", "absent"}
    /\ broker[o][0] = "replaced" => broker[o][1] = "closed"

Turns(o) ==
    /\ broker' \in [Order -> [Generation -> BrokerStates]]
    /\ \A p \in Order : p # o => broker'[p] = broker[p]
    /\ \A g \in Generation :
        /\ broker[o][g] # "absent" => broker'[o][g] # "absent"
        /\ broker[o][g] = "closed" => broker'[o][g] = "closed"
    /\ broker'[o][1] # "absent" =>
           broker'[o][0] \in {"pending_replace", "replaced", "closed"}
    /\ broker'[o][1] = "closed" => broker'[o][0] \in {"replaced", "closed"}
    /\ Over(o) => broker'[o] = broker[o]

\* One client id of an order changes its state.
LEMMA TurnFacts ==
  ASSUME TypeOK, NEW o \in Order, NEW g \in Generation, NEW x \in BrokerStates,
         broker' = [broker EXCEPT ![o][g] = x]
  PROVE  /\ broker' \in [Order -> [Generation -> BrokerStates]]
         /\ \A p \in Order : p # o => broker'[p] = broker[p]
         /\ broker'[o][g] = x
         /\ \A h \in Generation : h # g => broker'[o][h] = broker[o][h]
  BY DEF TypeOK

\* What the broker does by itself moves an order forward and creates none.
LEMMA BrokerMovesTurns ==
  ASSUME IInv, NEW o \in Order, BrokerMoves(o)
  PROVE  /\ Turns(o)
         /\ \A h \in Generation : broker[o][h] = "absent" => broker'[o][h] = "absent"
         /\ UNCHANGED <<store, window, wire, local, faults>>
<1> USE DEF Generation, BrokerStates
<1>1. UNCHANGED <<store, window, wire, local, faults>>
  BY DEF BrokerMoves
<1>2. /\ broker[o][0] \in BrokerStates
      /\ broker[o][1] \in BrokerStates
      /\ broker[o][1] # "absent" =>
             broker[o][0] \in {"pending_replace", "replaced", "closed"}
      /\ broker[o][1] = "closed" => broker[o][0] \in {"replaced", "closed"}
  BY DEF IInv, TypeOK, Succession
<1>3. CASE /\ broker[o][0] \in {"open", "pending_cancel", "pending_replace"}
           /\ \E x \in {"closed", "replaced"} :
                 /\ x = "replaced" => broker[o][0] = "pending_replace"
                 /\ broker' = [broker EXCEPT ![o][0] = x]
  <2>1. PICK x \in {"closed", "replaced"} : broker' = [broker EXCEPT ![o][0] = x]
    BY <1>3
  <2>2. /\ broker' \in [Order -> [Generation -> BrokerStates]]
        /\ \A p \in Order : p # o => broker'[p] = broker[p]
        /\ broker'[o][0] = x
        /\ \A h \in Generation : h # 0 => broker'[o][h] = broker[o][h]
    BY <2>1, TurnFacts DEF IInv
  <2> QED
    BY <1>1, <1>2, <1>3, <2>2 DEF Turns, Over
<1>4. CASE /\ broker[o][1] \in {"open", "pending_cancel"}
           /\ broker[o][0] # "pending_replace"
           /\ broker' = [broker EXCEPT ![o][1] = "closed"]
  <2>1. /\ broker' \in [Order -> [Generation -> BrokerStates]]
        /\ \A p \in Order : p # o => broker'[p] = broker[p]
        /\ broker'[o][1] = "closed"
        /\ \A h \in Generation : h # 1 => broker'[o][h] = broker[o][h]
    BY <1>4, TurnFacts DEF IInv
  <2> QED
    BY <1>1, <1>2, <1>4, <2>1 DEF Turns, Over
<1> QED
  BY <1>3, <1>4 DEF BrokerMoves

\* What a request that is taken does, and to which client id.
LEMMA DeliverTurns ==
  ASSUME IInv, NEW r \in wire, Deliver(r)
  PROVE  /\ r \in Requests
         /\ Turns(r.order)
         /\ broker[r.order][0] = "absent" /\ broker'[r.order][0] # "absent" =>
                r.kind = "POST"
         /\ broker[r.order][1] = "absent" /\ broker'[r.order][1] # "absent" =>
                r.kind = "PATCH"
         /\ r.kind = "PATCH" /\ Accepts(r) => broker'[r.order][1] # "absent"
<1> USE DEF Generation, BrokerStates
<1>1. r \in Requests
  BY DEF IInv, TypeOK
<1>2. PICK o \in Order : o = r.order
  BY <1>1 DEF Requests
<1>3. r.gen \in Generation /\ r.kind \in {"POST", "PATCH", "DELETE"}
  BY <1>1 DEF Requests
<1>4. /\ broker[o][0] \in BrokerStates
      /\ broker[o][1] \in BrokerStates
      /\ broker[o][1] # "absent" =>
             broker[o][0] \in {"pending_replace", "replaced", "closed"}
      /\ broker[o][1] = "closed" => broker[o][0] \in {"replaced", "closed"}
  BY DEF IInv, TypeOK, Succession
<1>5. CASE ~Accepts(r)
  <2>1. broker' = broker
    BY <1>5 DEF Deliver
  <2>2. Turns(o)
    BY <1>4, <2>1 DEF Turns, IInv, TypeOK
  <2> QED
    BY <1>1, <1>2, <1>5, <2>1, <2>2
<1>6. CASE Accepts(r) /\ r.kind = "POST"
  <2>1. broker' = [broker EXCEPT ![o][0] = "open"] /\ broker[o][0] = "absent"
    BY <1>2, <1>6 DEF Deliver, Accepts, Applied
  <2>2. /\ broker' \in [Order -> [Generation -> BrokerStates]]
        /\ \A p \in Order : p # o => broker'[p] = broker[p]
        /\ broker'[o][0] = "open"
        /\ \A h \in Generation : h # 0 => broker'[o][h] = broker[o][h]
    BY <2>1, TurnFacts DEF IInv
  <2>3. Turns(o)
    BY <1>4, <2>1, <2>2 DEF Turns, Over
  <2> QED
    BY <1>1, <1>2, <1>6, <2>2, <2>3
<1>7. CASE Accepts(r) /\ r.kind = "PATCH"
  <2> DEFINE f == [g \in Generation |-> IF g = 0 THEN "pending_replace" ELSE "open"]
  <2>1. /\ broker' = [broker EXCEPT ![o] = f]
        /\ broker[o][0] = "open"
        /\ broker[o][1] = "absent"
    BY <1>2, <1>7 DEF Deliver, Accepts, Applied
  <2>2. f \in [Generation -> BrokerStates] /\ f[0] = "pending_replace" /\ f[1] = "open"
    OBVIOUS
  <2> HIDE DEF f
  <2>3. /\ broker' \in [Order -> [Generation -> BrokerStates]]
        /\ \A p \in Order : p # o => broker'[p] = broker[p]
        /\ broker'[o][0] = "pending_replace"
        /\ broker'[o][1] = "open"
    BY <2>1, <2>2 DEF IInv, TypeOK
  <2>4. Turns(o)
    BY <2>1, <2>3 DEF Turns, Over
  <2> QED
    BY <1>1, <1>2, <1>7, <2>1, <2>3, <2>4
<1>8. CASE Accepts(r) /\ r.kind = "DELETE"
  <2>1. PICK g \in Generation : g = r.gen
    BY <1>3
  <2>2. /\ broker' = [broker EXCEPT ![o][g] = "pending_cancel"]
        /\ broker[o][g] = "open"
    BY <1>2, <1>8, <2>1 DEF Deliver, Accepts, Applied
  <2>3. /\ broker' \in [Order -> [Generation -> BrokerStates]]
        /\ \A p \in Order : p # o => broker'[p] = broker[p]
        /\ broker'[o][g] = "pending_cancel"
        /\ \A h \in Generation : h # g => broker'[o][h] = broker[o][h]
    BY <2>2, TurnFacts DEF IInv
  <2>4. Turns(o)
    BY <1>4, <2>2, <2>3 DEF Turns, Over
  <2> QED
    BY <1>1, <1>2, <1>8, <2>2, <2>3, <2>4
<1> QED
  BY <1>3, <1>5, <1>6, <1>7, <1>8

\* An order that turns undoes nothing that was seen, settled or succeeded.
LEMMA TurnsKeep ==
  ASSUME IInv, NEW o \in Order, Turns(o), UNCHANGED store
  PROVE  Lasting /\ Succession' /\ SettledMeansClosed'
<1>1. Lasting
  BY DEF Turns, Lasting, store
<1>2. Succession'
  BY DEF Turns, IInv, Succession
<1>3. \A p \in Order : Over(p) => Over(p)'
  BY DEF Turns, Over
<1>4. \A p \in Order : reprice[p] = "settled" => broker'[p][1] # "absent"
  BY <1>1 DEF Lasting, IInv, SettledMeansClosed, Generation
<1> QED
  BY <1>1, <1>2, <1>3, <1>4 DEF SettledMeansClosed, Over, IInv, store

\* The answer reaches an attempt that still waits for it, or nobody.
LEMMA DeliverReaches ==
  ASSUME IInv, NEW r \in wire, Deliver(r), Lasting
  PROVE  /\ TypeOK'
         /\ Apart(r.from)
         /\ r.from = NoAttempt => UNCHANGED local
         /\ r.from \in Attempt => AttemptInv(r.from)'
<1> DEFINE a == r.from
<1>1. /\ r \in Requests
      /\ r.kind \in {"POST", "PATCH", "DELETE"}
      /\ r.gen \in Generation
      /\ a \in Attempt \cup {NoAttempt}
  BY DEF IInv, TypeOK, Requests
<1>2. PICK o \in Order : o = r.order
  BY <1>1 DEF Requests
<1>3. PICK g \in Generation : g = r.gen
  BY <1>1
<1>4. /\ wire' = wire \ {r}
      /\ UNCHANGED <<store, window, phase, pos, faults>>
  BY DEF Deliver
<1>5. /\ broker' \in [Order -> [Generation -> BrokerStates]]
      /\ r.kind = "PATCH" /\ Accepts(r) => broker'[o][1] # "absent"
  BY <1>2, DeliverTurns DEF Turns
<1>6. CASE a = NoAttempt
  <2>1. UNCHANGED <<pc, seen>>
    BY <1>6 DEF Deliver
  <2>2. TypeOK'
    BY <1>4, <1>5, <2>1 DEF IInv, TypeOK, store
  <2> QED
    BY <1>4, <1>6, <2>1, <2>2, DispatchAssumption DEF Apart, local
<1>7. CASE a \in Attempt
  <2>1. /\ a # NoAttempt
        /\ AttemptInv(a)
        /\ Awaited(r)
    BY <1>7, DispatchAssumption DEF IInv, Requested
  <2>2. PICK l \in {"canSettle", "post", "repSettle", "failed"} :
          /\ Goto(a, l)
          /\ l = "canSettle" => r.kind = "DELETE"
          /\ l = "post" => r.kind = "POST"
          /\ l = "repSettle" => r.kind = "PATCH" /\ Accepts(r)
    <3>1. CASE r.kind = "DELETE"
      <4>1. Goto(a, "canSettle")
        BY <2>1, <3>1 DEF Deliver
      <4> QED  BY <3>1, <4>1
    <3>2. CASE r.kind = "POST" /\ Accepts(r)
      <4>1. Goto(a, "post")
        BY <2>1, <3>2 DEF Deliver
      <4> QED  BY <3>2, <4>1
    <3>3. CASE r.kind = "PATCH" /\ Accepts(r)
      <4>1. Goto(a, "repSettle")
        BY <2>1, <3>3 DEF Deliver
      <4> QED  BY <3>3, <4>1
    <3>4. CASE r.kind # "DELETE" /\ ~Accepts(r)
      <4>1. Goto(a, "failed")
        BY <2>1, <3>4 DEF Deliver
      <4> QED  BY <4>1
    <3> QED
      BY <1>1, <3>1, <3>2, <3>3, <3>4
  <2>3. /\ pc' \in [Attempt -> Counters]
        /\ pc'[a] = l
        /\ \A b \in Attempt : b # a => pc'[b] = pc[b]
    BY <1>7, <2>2 DEF Goto, IInv, TypeOK, Counters
  <2>4. /\ seen' \in [Attempt -> [Order -> Receipts]]
        /\ \A b \in Attempt : b # a => seen'[b] = seen[b]
        /\ \A p \in Order : seen'[a][p] = seen[a][p]
                             \/ /\ p = o
                                /\ seen'[a][p].state = broker'[p][seen'[a][p].gen]
    <3>1. CASE UNCHANGED seen
      BY <3>1 DEF IInv, TypeOK
    <3>2. CASE See(a, o, g, broker'[o][g])
      <4>1. broker'[o][g] \in BrokerStates
        BY <1>5
      <4>2. PICK x \in BrokerStates : x = broker'[o][g]
        BY <4>1
      <4>3. See(a, o, g, x)
        BY <3>2, <4>2
      <4>4. /\ seen' \in [Attempt -> [Order -> Receipts]]
            /\ seen'[a][o].gen = g
            /\ seen'[a][o].state = x
            /\ \A p \in Order : p # o => seen'[a][p] = seen[a][p]
            /\ \A b \in Attempt : b # a => seen'[b] = seen[b]
        <5> HIDE DEF a
        <5> QED  BY <1>7, <4>3, SeeFacts DEF IInv
      <4> QED
        BY <4>2, <4>4
    <3> QED
      BY <1>2, <1>3, <3>1, <3>2 DEF Deliver
  <2> HIDE DEF a
  <2>5. TypeOK'
    BY <1>4, <1>5, <2>3, <2>4 DEF IInv, TypeOK, store
  <2>6. Apart(a)
    BY <1>4, <2>3, <2>4 DEF Apart
  <2>7. /\ r.kind = "POST" => pc[a] = "posting"
        /\ r.kind = "PATCH" => pc[a] = "patching" /\ pos[a] = o
        /\ r.kind = "DELETE" => pc[a] = "deleting" /\ pos[a] = o
    BY <1>2, <2>1 DEF Awaited, a
  <2>8. PassOf(a)' /\ PlaceOf(a)'
    BY <1>4, <2>1, <2>2, <2>3, <2>7 DEF AttemptInv, PassOf, PlaceOf
  <2>9. Audited(a)'
    BY <1>4, <2>1, <2>2, <2>3, <2>7 DEF AttemptInv, Audited, store
  <2>10. Sighted(a)'
    <3>1. \A p \in Order : seen[a][p].gen \in Generation
      BY <1>7 DEF IInv, TypeOK, Receipts
    <3>2. \A p \in Order : seen'[a][p].state = "closed" =>
                             broker'[p][seen'[a][p].gen] = "closed"
      BY <2>1, <2>4, <3>1 DEF AttemptInv, Sighted, Lasting
    <3>3. pc'[a] = "repSettle" => broker'[pos'[a]][1] # "absent"
      BY <1>4, <1>5, <2>2, <2>3, <2>7
    <3> QED
      BY <2>2, <2>3, <3>2, <3>3 DEF Sighted
  <2> QED
    BY <2>1, <2>5, <2>6, <2>8, <2>9, <2>10 DEF AttemptInv, a
<1> QED
  BY <1>1, <1>6, <1>7

\* A request that arrives had been announced, and so is what it changes.
LEMMA DeliverKeepsIInv ==
  ASSUME IInv, NEW r \in wire, Deliver(r)
  PROVE  IInv'
<1>1. /\ wire' = wire \ {r}
      /\ UNCHANGED <<store, window, phase, pos, faults>>
  BY DEF Deliver
<1>2. /\ r \in Requests
      /\ r.order \in Order
      /\ r.from \in Attempt \cup {NoAttempt}
      /\ r.kind \in {"POST", "PATCH", "DELETE"}
  BY DEF IInv, TypeOK, Requests
<1>3. Lasting /\ Succession' /\ SettledMeansClosed'
  BY <1>1, <1>2, DeliverTurns, TurnsKeep
<1>4. /\ TypeOK'
      /\ Apart(r.from)
      /\ r.from = NoAttempt => UNCHANGED local
      /\ r.from \in Attempt => AttemptInv(r.from)'
  BY <1>3, DeliverReaches
<1>5. \A b \in Attempt : AttemptInv(b)'
  <2>1. \A b \in Attempt : b # r.from => AttemptInv(b)'
    BY <1>3, <1>4, OthersStand DEF IInv
  <2> QED
    BY <1>4, <2>1
<1>6. Requested'
  <2>1. \A s \in wire' : s \in wire /\ (s.from = NoAttempt \/ s.from # r.from)
    BY <1>1 DEF IInv, Requested
  <2>2. \A s \in wire' : Awaited(s)'
    <3> SUFFICES ASSUME NEW s \in wire', s.from # NoAttempt PROVE Awaited(s)'
      BY DEF Awaited
    <3>1. s.from \in Attempt /\ s.from # r.from
      BY <2>1 DEF IInv, TypeOK, Requests
    <3>2. pc'[s.from] = pc[s.from] /\ pos'[s.from] = pos[s.from]
      BY <1>4, <3>1 DEF Apart
    <3> QED
      BY <2>1, <3>2 DEF IInv, Requested, Awaited
  <2> QED
    BY <2>1, <2>2 DEF IInv, Requested
<1>7. IntentBeforeWrite'
  <2> SUFFICES ASSUME NEW o \in Order
               PROVE  /\ broker'[o][0] # "absent" \/ Sent("POST", o)' =>
                             effect # "none"
                      /\ broker'[o][1] # "absent" \/ Sent("PATCH", o)' =>
                             reprice[o] \in {"intent", "settled"}
                      /\ Sent("DELETE", o)' =>
                             cancel[o].state \in {"intent", "settled"}
    BY <1>1 DEF IntentBeforeWrite, store
  <2>1. \A k \in {"POST", "PATCH", "DELETE"} : Sent(k, o)' => Sent(k, o)
    BY <1>1 DEF Sent
  <2>2. Sent(r.kind, r.order)
    BY DEF Sent
  <2>3. broker'[o][0] # "absent" => broker[o][0] # "absent" \/ Sent("POST", o)
    BY <2>2, DeliverTurns DEF Turns
  <2>4. broker'[o][1] # "absent" => broker[o][1] # "absent" \/ Sent("PATCH", o)
    BY <2>2, DeliverTurns DEF Turns
  <2> QED
    BY <2>1, <2>3, <2>4 DEF IInv, IntentBeforeWrite
<1>8. Held'
  BY <1>1 DEF IInv, Held, store
<1> QED
  BY <1>3, <1>4, <1>5, <1>6, <1>7, <1>8 DEF IInv

------------------------------------------------------------------------------
(***************************************************************************)
(* The rest of the environment.                                            *)
(***************************************************************************)
LEMMA BrokerMovesKeepsIInv ==
  ASSUME IInv, NEW o \in Order, BrokerMoves(o)
  PROVE  IInv'
<1>1. Turns(o) /\ UNCHANGED <<store, window, wire, local, faults>>
  BY BrokerMovesTurns
<1>2. Lasting /\ Succession' /\ SettledMeansClosed'
  BY <1>1, TurnsKeep
<1>3. TypeOK'
  BY <1>1 DEF Turns, IInv, TypeOK, store, local
<1>4. \A b \in Attempt : AttemptInv(b)'
  <2>1. Apart(NoAttempt)
    BY <1>1 DEF Apart, local
  <2> QED
    BY <1>2, <2>1, OthersStand, DispatchAssumption DEF IInv
<1>5. \A p \in Order : /\ broker[p][0] = "absent" => broker'[p][0] = "absent"
                       /\ broker[p][1] = "absent" => broker'[p][1] = "absent"
  BY <1>1, BrokerMovesTurns DEF Turns, Generation
<1>6. IntentBeforeWrite' /\ Requested' /\ Held'
  BY <1>1, <1>5 DEF IInv, IntentBeforeWrite, Sent, Requested, Awaited, Held,
                    store, local
<1> QED
  BY <1>2, <1>3, <1>4, <1>6 DEF IInv

\* A request that is lost leaves nothing to account for.
LEMMA LoseRequestKeepsIInv ==
  ASSUME IInv, NEW r \in wire, LoseRequest(r)
  PROVE  IInv'
<1>1. wire' = wire \ {r} /\ UNCHANGED <<store, window, broker, local, faults>>
  BY DEF LoseRequest
<1>2. TypeOK' /\ Held' /\ Succession' /\ SettledMeansClosed'
  BY <1>1 DEF IInv, TypeOK, Held, Succession, SettledMeansClosed, store, local
<1>3. \A b \in Attempt : AttemptInv(b)'
  BY <1>1 DEF IInv, AttemptInv, PassOf, PlaceOf, Audited, Sighted, store, local
<1>4. Requested' /\ IntentBeforeWrite'
  BY <1>1 DEF IInv, Requested, Awaited, IntentBeforeWrite, Sent, store, local
<1> QED
  BY <1>2, <1>3, <1>4 DEF IInv

\* The lease runs out: who wrote the effect is asked of the Store alone.
LEMMA LeaseOutKeepsIInv ==
  ASSUME IInv, LeaseOut
  PROVE  IInv'
<1>1. /\ owner' = NoAttempt
      /\ task' \in {"queued", "cancelled", "failed"}
      /\ task' = "cancelled" => effect = "none"
      /\ UNCHANGED <<effect, reprice, cancel, stop, world, local>>
      /\ faults' \in 0..MaxFaults
  BY DispatchAssumption DEF LeaseOut, Release, Fault, IInv, TypeOK
<1>2. TypeOK' /\ Held' /\ Succession' /\ SettledMeansClosed'
  BY <1>1 DEF IInv, TypeOK, Held, Succession, SettledMeansClosed, world, local
<1>3. \A b \in Attempt : AttemptInv(b)'
  BY <1>1 DEF IInv, AttemptInv, PassOf, PlaceOf, Audited, Sighted, world, local
<1>4. Requested' /\ IntentBeforeWrite'
  BY <1>1 DEF IInv, Requested, Awaited, IntentBeforeWrite, Sent, world, local
<1> QED
  BY <1>2, <1>3, <1>4 DEF IInv

\* The end of the submission window changes only what may still be sent.
LEMMA CloseWindowKeepsIInv ==
  ASSUME IInv, CloseWindow
  PROVE  IInv'
<1>1. window' = FALSE /\ UNCHANGED <<store, broker, wire, local, faults>>
  BY DEF CloseWindow
<1>2. TypeOK' /\ Held' /\ Succession' /\ SettledMeansClosed'
  BY <1>1 DEF IInv, TypeOK, Held, Succession, SettledMeansClosed, store, local
<1>3. \A b \in Attempt : AttemptInv(b)'
  BY <1>1 DEF IInv, AttemptInv, PassOf, PlaceOf, Audited, Sighted, store, local
<1>4. Requested' /\ IntentBeforeWrite'
  BY <1>1 DEF IInv, Requested, Awaited, IntentBeforeWrite, Sent, store, local
<1> QED
  BY <1>2, <1>3, <1>4 DEF IInv

\* The operator's cancellation leaves a running reconcile alone.
LEMMA RequestCancelKeepsIInv ==
  ASSUME IInv, RequestCancel
  PROVE  IInv'
<1>1. /\ stop' = TRUE
      /\ task' = IF task = "queued" /\ effect = "none" THEN "cancelled" ELSE task
      /\ UNCHANGED <<owner, effect, reprice, cancel, world, local, faults>>
  BY DEF RequestCancel
<1>2. TypeOK' /\ Held' /\ Succession' /\ SettledMeansClosed'
  BY <1>1 DEF IInv, TypeOK, Held, Succession, SettledMeansClosed, world, local
<1>3. \A b \in Attempt : AttemptInv(b)'
  BY <1>1 DEF IInv, AttemptInv, PassOf, PlaceOf, Audited, Sighted, world, local
<1>4. Requested' /\ IntentBeforeWrite'
  BY <1>1 DEF IInv, Requested, Awaited, IntentBeforeWrite, Sent, world, local
<1> QED
  BY <1>2, <1>3, <1>4 DEF IInv
------------------------------------------------------------------------------
(***************************************************************************)
(* The invariant.                                                          *)
(***************************************************************************)
LEMMA InitIInv == Init => IInv
<1> SUFFICES ASSUME Init PROVE IInv
  OBVIOUS
<1> USE DispatchAssumption DEF Init
<1>1. TypeOK
  <2>1. /\ cancel \in [Order -> [state : ActionStates, gen : Generation]]
        /\ reprice \in [Order -> ActionStates]
    BY DEF ActionStates, Generation
  <2>2. broker \in [Order -> [Generation -> BrokerStates]]
    BY DEF BrokerStates
  <2>3. Unseen \in [Order -> Receipts]
    BY DEF Unseen, Receipts, Generation, BrokerStates
  <2>4. /\ pc \in [Attempt -> Counters]
        /\ phase \in [Attempt -> Phases]
        /\ pos \in [Attempt -> 1..(Orders + 1)]
        /\ seen \in [Attempt -> [Order -> Receipts]]
        /\ faults \in 0..MaxFaults
    BY <2>3 DEF Counters, Phases
  <2> QED
    BY <2>1, <2>2, <2>4 DEF TypeOK
<1>2. \A a \in Attempt : AttemptInv(a)
  BY DEF AttemptInv, PassOf, PlaceOf, Audited, Sighted, Order, Unseen
<1>3. Requested /\ Succession /\ Held
  BY DEF Requested, Succession, Held, Generation
<1>4. IntentBeforeWrite /\ SettledMeansClosed
  BY DEF IntentBeforeWrite, Sent, SettledMeansClosed, Generation
<1> QED
  BY <1>1, <1>2, <1>3, <1>4 DEF IInv

\* Every step of the specification keeps the invariant.
LEMMA NextIInv == IInv /\ [Next]_vars => IInv'
<1> SUFFICES ASSUME IInv, [Next]_vars PROVE IInv'
  OBVIOUS
<1>1. CASE \E a \in Attempt : Acts(a)
  BY <1>1, ActsKeepIInv
<1>2. CASE \E r \in wire : Deliver(r) \/ LoseRequest(r)
  BY <1>2, DeliverKeepsIInv, LoseRequestKeepsIInv
<1>3. CASE \E o \in Order : BrokerMoves(o)
  BY <1>3, BrokerMovesKeepsIInv
<1>4. CASE LeaseOut \/ CloseWindow \/ RequestCancel
  BY <1>4, LeaseOutKeepsIInv, CloseWindowKeepsIInv, RequestCancelKeepsIInv
<1>5. CASE UNCHANGED vars
  <2>1. UNCHANGED <<store, world, local, faults>>
    BY <1>5 DEF vars
  <2>2. TypeOK' /\ Held' /\ Succession' /\ SettledMeansClosed'
    BY <2>1 DEF IInv, TypeOK, Held, Succession, SettledMeansClosed, store,
                world,
                local
  <2>3. \A b \in Attempt : AttemptInv(b)'
    BY <2>1 DEF IInv, AttemptInv, PassOf, PlaceOf, Audited, Sighted, store,
                world,
                local
  <2>4. Requested' /\ IntentBeforeWrite'
    BY <2>1 DEF IInv, Requested, Awaited, IntentBeforeWrite, Sent, store,
                world,
                local
  <2> QED
    BY <2>2, <2>3, <2>4 DEF IInv
<1> QED
  BY <1>1, <1>2, <1>3, <1>4, <1>5 DEF Next, Acts

\* The invariant holds in every reachable state.
LEMMA AlwaysIInv == Spec => []IInv
  BY InitIInv, NextIInv, PTL DEF Spec

\* Nothing reaches the broker that the Store was not told of first, under any
\* race of a stalled attempt with its successors and any lost answer: a
\* restart that finds no intent has nothing to look for.
THEOREM Announced == Spec => []IntentBeforeWrite
<1>1. IInv => IntentBeforeWrite
  BY DEF IInv
<1> QED
  BY AlwaysIInv, <1>1, PTL

\* A commitment recorded as settled is over at the broker, and stays so
\* whatever a stalled attempt or an orphan request still does.
THEOREM SettledIsClosed == Spec => []SettledMeansClosed
<1>1. IInv => SettledMeansClosed
  BY DEF IInv
<1> QED
  BY AlwaysIInv, <1>1, PTL

\* The cancellation writes no task off whose order may still trade.
THEOREM CancelSparesOrders == Spec => []CancelKeepsOrders
<1>1. IInv => CancelKeepsOrders
  BY DEF IInv, CancelKeepsOrders, Held, IntentBeforeWrite
<1> QED
  BY AlwaysIInv, <1>1, PTL

\* After the cancel request no attempt sends a new order or a replacement, on
\* no path: the guard before each such write asks again.
THEOREM CancelStopsExposure == Spec => NoExposureAfterCancel
<1> DEFINE Guarded == stop => \A r \in wire' \ wire :
                                 r.kind = "DELETE" \/ r.from = NoAttempt
<1>1. IInv /\ [Next]_vars => [Guarded]_vars
  <2> SUFFICES ASSUME IInv, Next, stop,
                      NEW r \in wire' \ wire
               PROVE  r.kind = "DELETE" \/ r.from = NoAttempt
    OBVIOUS
  <2>1. ASSUME NEW a \in Attempt,
               Claim(a) \/ Step(a) \/ BeginUnlogged(a) \/ PutOff(a)
        PROVE  r.kind = "DELETE"
    <3>1. CASE Submit(a) \/ Replace(a)
      BY <3>1 DEF Submit, Replace
    <3>2. CASE CancelOrder(a)
      BY <3>2 DEF CancelOrder
    <3>3. ~(Submit(a) \/ Replace(a) \/ CancelOrder(a)) => Quiet(a)
      BY <2>1, QuietSteps DEF Step
    <3> QED
      BY <3>1, <3>2, <3>3 DEF Quiet
  <2>2. ASSUME NEW a \in Attempt, Crash(a) \/ Fails(a)
        PROVE  r.from = NoAttempt
    <3>1. r \in Orphaned(a)
      BY <2>2 DEF Crash, Fails
    <3> QED
      BY <3>1, OrphanedFacts DEF IInv
  <2>3. ASSUME NEW q \in wire, Deliver(q) \/ LoseRequest(q)
        PROVE  FALSE
    BY <2>3 DEF Deliver, LoseRequest
  <2>4. ASSUME (\E o \in Order : BrokerMoves(o)) \/ LeaseOut \/ CloseWindow
                 \/ RequestCancel
        PROVE  FALSE
    BY <2>4 DEF BrokerMoves, LeaseOut, CloseWindow, RequestCancel, world
  <2> QED
    BY <2>1, <2>2, <2>3, <2>4 DEF Next
<1> QED
  BY AlwaysIInv, <1>1, PTL DEF Spec, NoExposureAfterCancel

==============================================================================
