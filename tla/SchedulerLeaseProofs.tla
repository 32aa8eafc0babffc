------------------------- MODULE SchedulerLeaseProofs -------------------------
(***************************************************************************)
(* Theorems about SchedulerLease, for any number of processes and sessions *)
(* and for every lease duration and bound.                                 *)
(***************************************************************************)
EXTENDS SchedulerLease, TLAPS

USE SchedulerAssumption
USE DEF Idle

\* Every step of a process, the market or time is one of these; the calls of
\* acquire_or_renew are opened to their three transactions.
Renewed(o, for, age) ==
    /\ held[o].epoch # 0
    /\ Accepts(o, held[o].epoch, age)
    /\ row' = [row EXCEPT !.left = HeartbeatLeft(age)]
    /\ call' = [call EXCEPT ![o] = [pc |-> "reread", for |-> for, age |-> age]]
    /\ UNCHANGED <<held, tick, slot, world, alive, maint>>

Forgot(o, for, age) ==
    /\ held[o].epoch # 0
    /\ held' = [held EXCEPT ![o] = NoLease]
    /\ call' = [call EXCEPT ![o] = [pc |-> "acquire", for |-> for, age |-> age]]
    /\ UNCHANGED <<row, tick, slot, world, alive, maint>>

Took(o, for, age) == Take(o, for, age) /\ UNCHANGED <<slot, world, alive, maint>>

\* A tick that waits for its call is at the step that called.
Serving(o, for) == for # "task" => tick[o].pc = for

\* The bound of the relative times is a number.
LEMMA HorizonNat == Horizon \in Nat
    BY DEF Horizon

\* The values of a process that holds, calls or ticks nothing are typed.
LEMMA EmptyTyped == NoLease \in Leases /\ NoCall \in Calls /\ NoTick \in Ticks
    BY DEF NoLease, NoCall, NoTick, Leases, Calls, Ticks, Callers

\* The call that is being served fits the tick, whatever is called.
CallsServe ==
    \A o \in Owner : call[o].pc # "none" => Serving(o, call[o].for)

\* A tick under way has a session, and from the grant of the lease on a Run;
\* a process without a tick has neither Run nor epoch.
TicksComplete ==
    \A o \in Owner :
        /\ tick[o].pc # "idle" => tick[o].session \in Session
        /\ tick[o].pc = "stage" <=> tick[o].run # NoRun

\* A Run that is staged is not stored, nor staged anywhere else.
RunsApart ==
    \A o \in Owner :
        tick[o].run # NoRun =>
            /\ \A s \in Session : slot[s].run # tick[o].run
            /\ \A p \in Owner \ {o} : tick[p].run # tick[o].run

\* A cache never promises more time than the row has.
CacheBehind ==
    \A o \in Owner :
        held[o].epoch # 0 /\ held[o].left > 0 => held[o].left <= row.left

\* The inductive invariant: the properties of the runs, and what ties the
\* parts of a process together.
IInv == TypeOK /\ EpochsApart /\ CacheMeansLeader /\ CacheBehind
            /\ CallsServe /\ TicksComplete /\ RunsApart

\* The invariant holds when no daemon has started yet (PaperScheduler::new).
LEMMA InitIInv == Init => IInv
    <1> SUFFICES ASSUME Init PROVE IInv
        OBVIOUS
    <1>1. TypeOK
        <2>1. row \in [owner : Owner \cup {NoOwner}, epoch : Nat, left : Int]
            BY HorizonNat DEF Init
        <2>2. slot \in [Session -> SlotRows]
            BY DEF Init, SlotRows
        <2>3. QED
            BY <2>1, <2>2, EmptyTyped DEF Init, TypeOK
    <1>2. EpochsApart /\ CacheMeansLeader /\ CacheBehind
        BY DEF Init, EpochsApart, CacheMeansLeader, CacheBehind, NoLease, NoTick
    <1>3. CallsServe /\ TicksComplete /\ RunsApart
        BY DEF Init, CallsServe, TicksComplete, RunsApart, NoCall, NoTick
    <1>4. QED
        BY <1>1, <1>2, <1>3 DEF IInv

\* Next, opened to the steps the proofs below go through one by one.
LEMMA StepCases ==
    ASSUME Next, TypeOK, CallsServe
    PROVE  \/ \E o \in Owner, for \in Callers, age \in Nat :
                 /\ Serving(o, for)
                 /\ \/ Renewed(o, for, age)
                    \/ Forgot(o, for, age)
                    \/ Took(o, for, age)
           \/ \E o \in Owner :
                 \/ StartTick(o) \/ LookUp(o) \/ TickFails(o) \/ Reread(o)
                 \/ Reserve(o) \/ StartMaintenance(o) \/ EndMaintenance(o)
                 \/ Start(o) \/ Crash(o)
           \/ MarketMoves
           \/ ReadinessChanges
           \/ Pass
    <1>1. ASSUME NEW o \in Owner, NEW for \in Callers, NEW age \in Nat,
                 Serving(o, for), Renew(o, for, age)
          PROVE  \/ Renewed(o, for, age)
                 \/ Forgot(o, for, age)
                 \/ Took(o, for, age)
        BY <1>1 DEF Renew, Renewed, Forgot, Took
    <1>2. ASSUME NEW o \in Owner, TickLease(o)
          PROVE  /\ tick[o].pc \in Callers
                 /\ Serving(o, tick[o].pc)
                 /\ Renew(o, tick[o].pc, 0)
        BY <1>2 DEF TickLease, Serving, Callers
    <1>3. ASSUME NEW o \in Owner, ActiveLease(o)
          PROVE  \E age \in Nat : Renew(o, "task", age)
        BY <1>3 DEF ActiveLease
    <1>4. ASSUME NEW o \in Owner, Acquire(o)
          PROVE  /\ call[o].for \in Callers
                 /\ call[o].age \in Nat
                 /\ Serving(o, call[o].for)
                 /\ Took(o, call[o].for, call[o].age)
        BY <1>4 DEF Acquire, Took, TypeOK, Calls, CallsServe
    <1>5. "task" \in Callers /\ \A o \in Owner : Serving(o, "task")
        BY DEF Callers, Serving
    <1>6. QED
        BY <1>1, <1>2, <1>3, <1>4, <1>5 DEF Next, Work

(***************************************************************************)
(* The parts of the invariant, one lemma each.                             *)
(***************************************************************************)
\* A granted call (acquire_or_renew) leaves typed ticks.
LEMMA GrantedTyped ==
    ASSUME TypeOK, NEW o \in Owner, NEW for \in Callers, NEW e \in Nat,
           Granted(o, for, e)
    PROVE  tick' \in [Owner -> Ticks]
    <1>1. CASE for = "lease"
        <2>1. PICK r \in Run :
                 tick' = [tick EXCEPT ![o] =
                            [pc |-> "stage", session |-> tick[o].session,
                             age |-> tick[o].age, epoch |-> e, run |-> r]]
            BY <1>1 DEF Granted
        <2>2. tick[o].session \in Session \cup {Closed} /\ tick[o].age \in Nat
            BY DEF TypeOK, Ticks
        <2>3. QED
            BY <2>1, <2>2 DEF TypeOK, Ticks
    <1>2. CASE for # "lease"
        BY <1>2, EmptyTyped DEF TypeOK, Granted, Callers
    <1>3. QED
        BY <1>1, <1>2

\* A refused call ends the tick (serve), which leaves typed ticks.
LEMMA RefusedTyped ==
    ASSUME TypeOK, NEW o \in Owner, NEW for \in Callers, Refused(o, for)
    PROVE  tick' \in [Owner -> Ticks]
    BY EmptyTyped DEF TypeOK, Refused

\* Every step of the lease, the slots and the schedulers keeps the types.
LEMMA TypePreserved ==
    ASSUME TypeOK, CallsServe, [Next]_vars
    PROVE  TypeOK'
    <1>1. CASE UNCHANGED vars
        BY <1>1 DEF TypeOK, vars, store, world, local
    <1>2. ASSUME NEW o \in Owner, NEW for \in Callers, NEW age \in Nat,
                 Renewed(o, for, age)
          PROVE  TypeOK'
        <2>1. HeartbeatLeft(age) \in Int
            BY DEF TypeOK, HeartbeatLeft
        <2>2. QED
            BY <1>2, <2>1 DEF Renewed, TypeOK, Calls, world
    <1>3. ASSUME NEW o \in Owner, NEW for \in Callers, NEW age \in Nat,
                 Forgot(o, for, age)
          PROVE  TypeOK'
        BY <1>3, EmptyTyped DEF Forgot, TypeOK, Calls, world
    <1>4. ASSUME NEW o \in Owner, NEW for \in Callers, NEW age \in Nat,
                 Took(o, for, age)
          PROVE  TypeOK'
        <2>1. tick' \in [Owner -> Ticks]
            <3>1. row.epoch + 1 \in Nat
                BY DEF TypeOK
            <3>2. QED
                BY <1>4, <3>1, GrantedTyped, RefusedTyped DEF Took, Take
        <2>2. /\ row' \in [owner : Owner \cup {NoOwner}, epoch : Nat, left : Int]
              /\ held' \in [Owner -> Leases]
            <3>1. LeaseTime - age \in Int /\ row.epoch + 1 \in Nat
                BY DEF TypeOK
            <3>2. CASE Grants(age)
                BY <1>4, <3>1, <3>2 DEF Took, Take, TypeOK, Leases
            <3>3. CASE ~Grants(age)
                BY <1>4, <3>3, EmptyTyped DEF Took, Take, TypeOK
            <3>4. QED
                BY <3>2, <3>3
        <2>3. call' \in [Owner -> Calls]
            BY <1>4, EmptyTyped DEF Took, Take, TypeOK
        <2>4. QED
            BY <1>4, <2>1, <2>2, <2>3 DEF Took, TypeOK, world
    <1>5. ASSUME NEW o \in Owner, Reread(o)
          PROVE  TypeOK'
        <2>1. tick' \in [Owner -> Ticks]
            <3>1. call[o].for \in Callers /\ held[o].epoch \in Nat
                BY DEF TypeOK, Calls, Leases
            <3>2. QED
                BY <1>5, <3>1, GrantedTyped, RefusedTyped DEF Reread
        <2>2. held' \in [Owner -> Leases]
            BY <1>5 DEF Reread, TypeOK, Leases
        <2>3. call' \in [Owner -> Calls]
            BY <1>5, EmptyTyped DEF Reread, TypeOK
        <2>4. QED
            BY <1>5, <2>1, <2>2, <2>3 DEF Reread, TypeOK, store, world
    <1>6. ASSUME NEW o \in Owner, StartTick(o) \/ LookUp(o) \/ TickFails(o)
          PROVE  TypeOK'
        <2>1. tick' \in [Owner -> Ticks]
            <3>2. ASSUME NEW l \in {"look", "watch", "lease"}
                  PROVE  [tick[o] EXCEPT !.pc = l] \in Ticks
                BY DEF TypeOK, Ticks
            <3>3. CASE StartTick(o)
                BY <3>3 DEF StartTick, TypeOK, Ticks
            <3>4. CASE LookUp(o) \/ TickFails(o)
                BY <3>2, <3>4, EmptyTyped DEF LookUp, TickFails, TypeOK
            <3>5. QED
                BY <1>6, <3>3, <3>4
        <2>2. QED
            BY <1>6, <2>1 DEF StartTick, LookUp, TickFails, TypeOK, store, world
    <1>7. ASSUME NEW o \in Owner, Reserve(o)
          PROVE  TypeOK'
        <2>1. tick' \in [Owner -> Ticks]
            BY <1>7, EmptyTyped DEF Reserve, TypeOK
        <2>2. slot' \in [Session -> SlotRows]
            BY <1>7 DEF Reserve, TypeOK, Ticks, SlotRows
        <2>3. QED
            BY <1>7, <2>1, <2>2 DEF Reserve, TypeOK, world
    <1>8. ASSUME NEW o \in Owner, StartMaintenance(o) \/ EndMaintenance(o)
          PROVE  TypeOK'
        BY <1>8 DEF StartMaintenance, EndMaintenance, TypeOK, store, world
    <1>9. ASSUME NEW o \in Owner, Start(o) \/ Crash(o)
          PROVE  TypeOK'
        BY <1>9, EmptyTyped DEF Start, Crash, TypeOK, store, world, local
    <1>10. CASE MarketMoves \/ ReadinessChanges
        BY <1>10 DEF MarketMoves, ReadinessChanges, TypeOK, store, local
    <1>11. CASE Pass
        <2>1. row' \in [owner : Owner \cup {NoOwner}, epoch : Nat, left : Int]
            <3> DEFINE l == IF row.left > -Horizon THEN row.left - 1 ELSE row.left
            <3>1. l \in Int
                BY DEF TypeOK
            <3>2. row' = [row EXCEPT !.left = l]
                BY <1>11 DEF Pass
            <3>3. QED
                BY <3>1, <3>2 DEF TypeOK
        <2>2. held' \in [Owner -> Leases]
            <3> DEFINE l(o) == IF held[o].left > 0 THEN held[o].left - 1 ELSE 0
            <3>1. ASSUME NEW o \in Owner
                  PROVE  [held[o] EXCEPT !.left = l(o)] \in Leases
                <4>1. held[o] \in Leases /\ l(o) \in Int
                    BY DEF TypeOK, Leases
                <4>2. QED
                    BY <4>1 DEF Leases
            <3>2. held' = [o \in Owner |-> [held[o] EXCEPT !.left = l(o)]]
                BY <1>11 DEF Pass
            <3>3. QED
                BY <3>1, <3>2
        <2>3. tick' \in [Owner -> Ticks]
            <3>1. \A o \in Owner : [tick[o] EXCEPT !.age = @ + 1] \in Ticks
                BY DEF TypeOK, Ticks
            <3>2. QED
                BY <1>11, <3>1 DEF Pass, TypeOK
        <2>4. call' \in [Owner -> Calls]
            <3>1. \A o \in Owner : [call[o] EXCEPT !.age = @ + 1] \in Calls
                BY DEF TypeOK, Calls
            <3>2. QED
                BY <1>11, <3>1 DEF Pass, TypeOK
        <2>5. maint' \in [Owner -> Nat \cup {Idle}]
            BY <1>11 DEF Pass, TypeOK
        <2>6. QED
            BY <1>11, <2>1, <2>2, <2>3, <2>4, <2>5 DEF Pass, TypeOK, world
    <1>12. QED
        BY <1>1, <1>2, <1>3, <1>4, <1>5, <1>6, <1>7, <1>8, <1>9, <1>10, <1>11,
           StepCases

\* What a tick and the store may look like after a call was served or refused.
LEMMA GrantedEffect ==
    ASSUME TypeOK, NEW o \in Owner, NEW for \in Callers, NEW e \in Nat,
           Granted(o, for, e) \/ Refused(o, for)
    PROVE  /\ \A p \in Owner \ {o} : tick'[p] = tick[p]
           /\ \/ tick'[o] = tick[o] /\ for = "task"
              \/ tick'[o] = NoTick
              \/ /\ for = "lease"
                 /\ tick'[o].pc = "stage"
                 /\ tick'[o].session = tick[o].session
                 /\ tick'[o].epoch = e
                 /\ tick'[o].run \in Run
                 /\ FreshRun(tick'[o].run)
    <1>1. CASE Granted(o, for, e) /\ for = "lease"
        <2>1. PICK r \in Run :
                 /\ FreshRun(r)
                 /\ tick' = [tick EXCEPT ![o] =
                            [pc |-> "stage", session |-> tick[o].session,
                             age |-> tick[o].age, epoch |-> e, run |-> r]]
            BY <1>1 DEF Granted
        <2>2. QED
            BY <1>1, <2>1 DEF TypeOK
    <1>2. CASE Granted(o, for, e) /\ for # "lease"
        BY <1>2 DEF Granted, Callers, TypeOK
    <1>3. CASE Refused(o, for)
        BY <1>3 DEF Refused, TypeOK
    <1>4. QED
        BY <1>1, <1>2, <1>3

\* The same for a whole transaction that ends a call: epoch e is the one the
\* caller gets.
Ended(o, for, e) ==
    /\ Granted(o, for, e) \/ Refused(o, for)
    /\ call' = [call EXCEPT ![o] = NoCall]
    /\ slot' = slot

\* What Take leaves of the call and the tick it serves.
LEMMA TookEnds ==
    ASSUME TypeOK, NEW o \in Owner, NEW for \in Callers, NEW age \in Nat,
           Took(o, for, age)
    PROVE  row.epoch + 1 \in Nat /\ Ended(o, for, row.epoch + 1)
    BY DEF Took, Take, Ended, TypeOK

\* What Reread leaves of the call and the tick it serves.
LEMMA RereadEnds ==
    ASSUME TypeOK, NEW o \in Owner, Reread(o)
    PROVE  /\ call[o].for \in Callers
           /\ held[o].epoch \in Nat
           /\ Ended(o, call[o].for, held[o].epoch)
    BY DEF Reread, Ended, TypeOK, Calls, Leases, store

(***************************************************************************)
(* The bookkeeping of ticks, calls and Runs.                               *)
(***************************************************************************)
\* Every step keeps calls, ticks and staged Runs together.
LEMMA BookkeepingPreserved ==
    ASSUME IInv, [Next]_vars
    PROVE  CallsServe' /\ TicksComplete' /\ RunsApart'
    <1> USE DEF IInv
    <1>1. CASE UNCHANGED vars
        BY <1>1 DEF CallsServe, TicksComplete, RunsApart, Serving, vars, store,
                    local
    <1>2. ASSUME NEW o \in Owner, NEW for \in Callers, NEW age \in Nat,
                 Serving(o, for), Renewed(o, for, age) \/ Forgot(o, for, age)
          PROVE  CallsServe' /\ TicksComplete' /\ RunsApart'
        <2>1. /\ tick' = tick /\ slot' = slot
              /\ \A p \in Owner \ {o} : call'[p] = call[p]
              /\ call'[o].for = for
            BY <1>2 DEF Renewed, Forgot, TypeOK
        <2>2. QED
            BY <1>2, <2>1 DEF CallsServe, TicksComplete, RunsApart, Serving
    <1>3. ASSUME NEW o \in Owner, NEW for \in Callers, NEW e \in Nat,
                 Serving(o, for), Ended(o, for, e)
          PROVE  CallsServe' /\ TicksComplete' /\ RunsApart'
        <2>1. /\ \A p \in Owner \ {o} : tick'[p] = tick[p] /\ call'[p] = call[p]
              /\ call'[o].pc = "none"
              /\ slot' = slot
            BY <1>3, GrantedEffect DEF Ended, TypeOK, NoCall
        <2>2. CallsServe'
            BY <2>1 DEF CallsServe, Serving
        <2>3. CASE tick'[o] = tick[o]
            BY <2>1, <2>2, <2>3 DEF TicksComplete, RunsApart
        <2>4. CASE tick'[o] = NoTick
            BY <2>1, <2>2, <2>4 DEF TicksComplete, RunsApart, NoTick
        <2>5. CASE /\ for = "lease"
                   /\ tick'[o].pc = "stage"
                   /\ tick'[o].session = tick[o].session
                   /\ tick'[o].run \in Run
                   /\ FreshRun(tick'[o].run)
            <3>1. tick[o].session \in Session /\ tick'[o].run # NoRun
                BY <1>3, <2>5 DEF Serving, TicksComplete
            <3>2. QED
                BY <2>1, <2>2, <2>5, <3>1 DEF TicksComplete, RunsApart, FreshRun
        <2>6. QED
            BY <1>3, <2>3, <2>4, <2>5, GrantedEffect DEF Ended
    <1>4. ASSUME NEW o \in Owner, NEW for \in Callers, NEW age \in Nat,
                 Serving(o, for), Took(o, for, age)
          PROVE  CallsServe' /\ TicksComplete' /\ RunsApart'
        BY <1>3, <1>4, TookEnds
    <1>5. ASSUME NEW o \in Owner, Reread(o)
          PROVE  CallsServe' /\ TicksComplete' /\ RunsApart'
        <2>1. Serving(o, call[o].for)
            BY <1>5 DEF Reread, CallsServe
        <2>2. QED
            BY <1>3, <1>5, <2>1, RereadEnds
    <1>6. ASSUME NEW o \in Owner, StartTick(o) \/ LookUp(o) \/ TickFails(o)
          PROVE  CallsServe' /\ TicksComplete' /\ RunsApart'
        <2>1. /\ \A p \in Owner \ {o} : tick'[p] = tick[p]
              /\ tick[o].pc \in {"idle", "look", "stage"}
              /\ call' = call /\ slot' = slot
              /\ tick'[o].run = NoRun /\ tick'[o].pc # "stage"
              /\ tick'[o].pc # "idle" => tick'[o].session \in Session
            BY <1>6 DEF StartTick, LookUp, TickFails, TypeOK, Ticks,
                        TicksComplete, NoTick, store
        <2>2. CallsServe'
            BY <2>1 DEF CallsServe, Serving, TypeOK, Calls, Callers
        <2>3. QED
            BY <2>1, <2>2 DEF TicksComplete, RunsApart
    <1>7. ASSUME NEW o \in Owner, Reserve(o)
          PROVE  CallsServe' /\ TicksComplete' /\ RunsApart'
        <2>1. /\ \A p \in Owner \ {o} : tick'[p] = tick[p]
              /\ tick'[o] = NoTick
              /\ tick[o].pc = "stage"
              /\ call' = call
              /\ \A s \in Session : slot'[s].run \in {slot[s].run, tick[o].run}
            BY <1>7 DEF Reserve, TypeOK
        <2>2. CallsServe'
            BY <2>1 DEF CallsServe, Serving, TypeOK, Calls, Callers
        <2>3. TicksComplete'
            BY <2>1 DEF TicksComplete, NoTick
        <2>4. RunsApart'
            BY <2>1 DEF RunsApart, NoTick
        <2>5. QED
            BY <2>2, <2>3, <2>4
    <1>8. ASSUME NEW o \in Owner, Crash(o)
          PROVE  CallsServe' /\ TicksComplete' /\ RunsApart'
        BY <1>8 DEF Crash, CallsServe, Serving, TicksComplete, RunsApart, TypeOK,
                    NoCall, NoTick, store
    <1>9. ASSUME tick' = tick, call' = call, slot' = slot
          PROVE  CallsServe' /\ TicksComplete' /\ RunsApart'
        BY <1>9 DEF CallsServe, Serving, TicksComplete, RunsApart
    <1>10. ASSUME NEW o \in Owner,
                  StartMaintenance(o) \/ EndMaintenance(o) \/ Start(o)
           PROVE  tick' = tick /\ call' = call /\ slot' = slot
        BY <1>10 DEF StartMaintenance, EndMaintenance, Start, store, local
    <1>11. CASE MarketMoves \/ ReadinessChanges
        BY <1>9, <1>11 DEF MarketMoves, ReadinessChanges, store, local
    <1>12. CASE Pass
        <2>1. \A p \in Owner :
                 /\ tick'[p].pc = tick[p].pc
                 /\ tick'[p].session = tick[p].session
                 /\ tick'[p].run = tick[p].run
            BY <1>12 DEF Pass, TypeOK, Ticks
        <2>2. \A p \in Owner :
                 call'[p].pc = call[p].pc /\ call'[p].for = call[p].for
            BY <1>12 DEF Pass, TypeOK, Calls
        <2>3. slot' = slot
            BY <1>12 DEF Pass
        <2>4. QED
            BY <2>1, <2>2, <2>3 DEF CallsServe, Serving, TicksComplete, RunsApart
    <1>13. QED
        BY <1>1, <1>2, <1>4, <1>5, <1>6, <1>7, <1>8, <1>9, <1>10, <1>11, <1>12,
           StepCases

(***************************************************************************)
(* Epochs and leaders.                                                     *)
(***************************************************************************)
\* Nothing but a take-over changes who has which epoch, and a cache with time
\* left is still one of the leader's, with no more time than the row has.
Quiet ==
    /\ row'.owner = row.owner /\ row'.epoch = row.epoch
    /\ \A o \in Owner :
          /\ held'[o].epoch \in {held[o].epoch, 0}
          /\ tick'[o].epoch \in {tick[o].epoch, held[o].epoch, 0}
          /\ held'[o].epoch # 0 /\ held'[o].left > 0 =>
                Holds(o, held[o].epoch) /\ held'[o].left <= row'.left

Leadership == EpochsApart /\ CacheMeansLeader /\ CacheBehind

\* A quiet step keeps epochs apart and caches behind the row.
LEMMA QuietKeeps ==
    ASSUME TypeOK, Leadership, Quiet
    PROVE  Leadership'
    <1>1. \A o \in Owner : held[o].epoch \in Nat /\ tick[o].epoch \in Nat
        BY DEF TypeOK, Leases, Ticks
    <1>2. EpochsApart'
        BY <1>1 DEF Quiet, EpochsApart, Leadership, TypeOK
    <1>3. CacheMeansLeader' /\ CacheBehind'
        BY <1>1 DEF Quiet, CacheMeansLeader, CacheBehind, Holds
    <1>4. QED
        BY <1>2, <1>3 DEF Leadership

\* A take-over (acquire_daemon_lease) gives a number nobody has had, when no
\* other cache has time left.
LEMMA TakenOver ==
    ASSUME TypeOK, Leadership,
           NEW o \in Owner, NEW for \in Callers, NEW age \in Nat,
           Took(o, for, age), Grants(age)
    PROVE  Leadership'
    <1> DEFINE e == row.epoch + 1
    <1>1. /\ row.epoch \in Nat /\ row.left \in Int
          /\ \A p \in Owner : /\ held[p].epoch \in Nat /\ held[p].epoch < e
                              /\ tick[p].epoch \in Nat /\ tick[p].epoch < e
        BY DEF TypeOK, Leases, Ticks, Leadership, EpochsApart
    <1>2. /\ row' = [owner |-> o, epoch |-> e, left |-> LeaseTime - age]
          /\ held'[o].epoch = e
          /\ \A p \in Owner \ {o} : held'[p] = held[p]
          /\ Granted(o, for, e)
        BY DEF Took, Take, TypeOK
    <1>3. /\ \A p \in Owner \ {o} : tick'[p] = tick[p]
          /\ tick'[o].epoch \in {e, 0, tick[o].epoch}
        BY <1>1, <1>2, GrantedEffect DEF NoTick
    <1>4. EpochsApart'
        <2>1. \A p \in Owner : held'[p].epoch <= e /\ tick'[p].epoch <= e
            BY <1>1, <1>2, <1>3
        <2>2. ASSUME NEW p \in Owner, NEW q \in Owner \ {p}
              PROVE  /\ held'[p].epoch # 0 => held'[p].epoch # held'[q].epoch
                     /\ tick'[p].epoch # 0 =>
                           tick'[p].epoch \notin {held'[q].epoch, tick'[q].epoch}
            <3>1. CASE p = o
                BY <1>1, <1>2, <1>3, <3>1 DEF Leadership, EpochsApart
            <3>2. CASE q = o
                BY <1>1, <1>2, <1>3, <3>2 DEF Leadership, EpochsApart
            <3>3. CASE p # o /\ q # o
                BY <1>2, <1>3, <3>3 DEF Leadership, EpochsApart
            <3>4. QED
                BY <3>1, <3>2, <3>3
        <2>3. QED
            BY <1>2, <2>1, <2>2 DEF EpochsApart
    \* The row's time is up, so there is no other cache with time left.
    <1>5. CacheMeansLeader' /\ CacheBehind'
        <2>1. ASSUME NEW p \in Owner \ {o}, held[p].epoch # 0, held[p].left > 0
              PROVE  FALSE
            <3>1. held[p].left \in Int /\ held[p].left <= row.left
                BY <2>1 DEF TypeOK, Leases, Leadership, CacheBehind
            <3>2. QED
                BY <1>1, <2>1, <3>1 DEF Grants
        <2>2. held'[o].left = row'.left
            BY <1>2 DEF Took, Take, TypeOK
        <2>3. LeaseTime - age \in Int
            OBVIOUS
        <2>4. QED
            BY <1>2, <2>1, <2>2, <2>3 DEF CacheMeansLeader, CacheBehind, Holds
    <1>6. QED
        BY <1>4, <1>5 DEF Leadership

\* Every step keeps epochs apart and caches behind the row.
LEMMA LeadershipPreserved ==
    ASSUME IInv, [Next]_vars
    PROVE  Leadership'
    <1>1. TypeOK /\ Leadership
        BY DEF IInv, Leadership
    <1>2. /\ row.left \in Int /\ row.epoch \in Nat
          /\ \A o \in Owner : held[o].left \in Int /\ held[o].epoch \in Nat
        BY <1>1 DEF TypeOK, Leases
    \* What leaves row and caches alone is quiet if the ticks are.
    <1>3. ASSUME row' = row, NEW o \in Owner,
                 held'[o] = held[o] \/ held'[o] = NoLease
                     \/ (held'[o].epoch = held[o].epoch /\ held'[o].left = row.left
                            /\ Holds(o, held[o].epoch)),
                 \A p \in Owner \ {o} : held'[p] = held[p],
                 \A p \in Owner : tick'[p].epoch \in {tick[p].epoch, held[p].epoch, 0}
          PROVE  Quiet
        BY <1>1, <1>2, <1>3 DEF Quiet, Leadership, CacheMeansLeader, CacheBehind,
                                NoLease
    <1>4. ASSUME NEW o \in Owner, NEW for \in Callers, NEW age \in Nat,
                 Renewed(o, for, age)
          PROVE  Quiet
        <2>1. /\ row'.owner = row.owner /\ row'.epoch = row.epoch
              /\ row'.left \in Int /\ row.left <= row'.left
              /\ held' = held /\ tick' = tick
            BY <1>2, <1>4 DEF Renewed, HeartbeatLeft, TypeOK, IInv
        <2>2. QED
            BY <1>1, <1>2, <2>1 DEF Quiet, Leadership, CacheMeansLeader, CacheBehind
    <1>5. ASSUME NEW o \in Owner, NEW for \in Callers, NEW age \in Nat,
                 Forgot(o, for, age)
          PROVE  Quiet
        BY <1>1, <1>3, <1>5 DEF Forgot, TypeOK
    <1>6. ASSUME NEW o \in Owner, NEW for \in Callers, NEW age \in Nat,
                 Took(o, for, age)
          PROVE  Leadership'
        <2>1. CASE ~Grants(age)
            <3>1. \A p \in Owner : tick'[p].epoch \in {tick[p].epoch, 0}
                BY <1>1, <1>6, <2>1 DEF Took, Take, Refused, TypeOK, NoTick
            <3>2. QED
                BY <1>1, <1>3, <1>6, <2>1, <3>1, QuietKeeps
                   DEF Took, Take, TypeOK
        <2>2. QED
            BY <1>1, <1>6, <2>1, TakenOver
    <1>7. ASSUME NEW o \in Owner, Reread(o)
          PROVE  Quiet
        <2>1. \A p \in Owner : tick'[p].epoch \in {tick[p].epoch, held[p].epoch, 0}
            <3>1. Granted(o, call[o].for, held[o].epoch) \/ Refused(o, call[o].for)
                BY <1>7 DEF Reread
            <3>2. call[o].for \in Callers /\ held[o].epoch \in Nat
                BY <1>1, <1>2 DEF TypeOK, Calls
            <3>3. QED
                BY <1>1, <3>1, <3>2, GrantedEffect DEF NoTick
        <2>2. /\ row' = row
              /\ \A p \in Owner \ {o} : held'[p] = held[p]
              /\ \/ held'[o] = held[o]
                 \/ /\ held'[o].epoch = held[o].epoch
                    /\ held'[o].left = row.left
                    /\ Holds(o, held[o].epoch)
            BY <1>1, <1>7 DEF Reread, TypeOK, Leases, store
        <2>3. QED
            BY <1>3, <2>1, <2>2
    <1>8. ASSUME NEW o \in Owner,
                 \/ StartTick(o) \/ LookUp(o) \/ TickFails(o) \/ Reserve(o)
                 \/ StartMaintenance(o) \/ Start(o) \/ Crash(o)
          PROVE  Quiet
        <2>1. /\ row' = row
              /\ \A p \in Owner \ {o} : held'[p] = held[p]
              /\ held'[o] = held[o] \/ held'[o] = NoLease
              /\ \A p \in Owner : tick'[p].epoch \in {tick[p].epoch, 0}
            BY <1>1, <1>8 DEF StartTick, LookUp, TickFails, Reserve,
               StartMaintenance, Start, Crash, TypeOK, Ticks, NoTick, store, local
        <2>2. QED
            BY <1>3, <2>1
    <1>9. ASSUME NEW o \in Owner, EndMaintenance(o)
          PROVE  Quiet
        <2>1. /\ row'.owner = row.owner /\ row'.epoch = row.epoch
              /\ row'.left \in Int /\ row.left <= row'.left
              /\ held' = held /\ tick' = tick
            BY <1>1, <1>2, <1>9 DEF EndMaintenance, TypeOK
        <2>2. QED
            BY <1>1, <1>2, <2>1 DEF Quiet, Leadership, CacheMeansLeader, CacheBehind
    <1>10. ASSUME held' = held, row' = row, tick' = tick
           PROVE  Quiet
        BY <1>1, <1>2, <1>10 DEF Quiet, Leadership, CacheMeansLeader, CacheBehind
    <1>11. CASE MarketMoves \/ ReadinessChanges \/ UNCHANGED vars
        BY <1>1, <1>10, <1>11, QuietKeeps
           DEF MarketMoves, ReadinessChanges, store, local, vars
    <1>12. CASE Pass
        <2>1. /\ row'.owner = row.owner /\ row'.epoch = row.epoch
              /\ row'.left \in Int /\ row.left - 1 <= row'.left
              /\ row.left > 0 => row'.left = row.left - 1
            BY <1>1, <1>2, <1>12, HorizonNat DEF Pass, TypeOK
        <2>2. \A p \in Owner :
                 /\ held'[p].epoch = held[p].epoch
                 /\ held'[p].left = IF held[p].left > 0 THEN held[p].left - 1 ELSE 0
                 /\ tick'[p].epoch = tick[p].epoch
            BY <1>1, <1>12 DEF Pass, TypeOK, Leases, Ticks
        <2>3. Quiet
            BY <1>1, <1>2, <2>1, <2>2
               DEF Quiet, Leadership, CacheMeansLeader, CacheBehind
        <2>4. QED
            BY <1>1, <2>3, QuietKeeps
    <1>13. QED
        BY <1>1, <1>4, <1>5, <1>6, <1>7, <1>8, <1>9, <1>11, <1>12, QuietKeeps,
           StepCases DEF IInv

(***************************************************************************)
(* The theorems.                                                           *)
(***************************************************************************)
\* The invariant is inductive.
LEMMA Inductive == IInv /\ [Next]_vars => IInv'
    BY TypePreserved, BookkeepingPreserved, LeadershipPreserved
       DEF IInv, Leadership

\* The invariant holds in every reachable state.
LEMMA InvariantHolds == Spec => []IInv
    BY InitIInv, Inductive, PTL DEF Spec

\* Every reachable state of the lease row, the slots and the schedulers is
\* well typed (rebuild_daemon_leases, PaperScheduler).
THEOREM TypeCorrect == Spec => []TypeOK
    <1>1. IInv => TypeOK
        BY DEF IInv
    <1>2. QED
        BY <1>1, InvariantHolds, PTL

\* acquire_daemon_lease and heartbeat_daemon_lease never leave a process with
\* a cached lease that still has time while another process leads.
THEOREM CacheIsLeader == Spec => []CacheMeansLeader
    <1>1. IInv => CacheMeansLeader
        BY DEF IInv
    <1>2. QED
        BY <1>1, InvariantHolds, PTL

\* "A successor always receives a higher epoch" (acquire_daemon_lease): no
\* epoch is ever in the hands of two processes.
THEOREM EpochsUnique == Spec => []EpochsApart
    <1>1. IInv => EpochsApart
        BY DEF IInv
    <1>2. QED
        BY <1>1, InvariantHolds, PTL

\* A step that keeps the epoch keeps the deadline or moves it forward, unless
\* it is time that passes.
LEMMA DeadlineStep ==
    ASSUME IInv, [Next]_vars, row'.epoch = row.epoch
    PROVE  row'.left >= row.left \/ Pass
    <1>1. TypeOK /\ row.left \in Int /\ row.epoch \in Nat
        BY DEF IInv, TypeOK
    <1>2. ASSUME row' = row
          PROVE  row'.left >= row.left
        BY <1>1, <1>2
    <1>3. ASSUME NEW o \in Owner, NEW for \in Callers, NEW age \in Nat,
                 Renewed(o, for, age)
          PROVE  row'.left >= row.left
        BY <1>1, <1>3 DEF Renewed, HeartbeatLeft, TypeOK
    <1>4. ASSUME NEW o \in Owner, NEW for \in Callers, NEW age \in Nat,
                 Took(o, for, age)
          PROVE  row' = row
        BY <1>1, <1>4 DEF Took, Take
    <1>5. ASSUME NEW o \in Owner, EndMaintenance(o)
          PROVE  row'.left >= row.left
        BY <1>1, <1>5 DEF EndMaintenance, TypeOK
    <1>6. QED
        BY <1>1, <1>2, <1>3, <1>4, <1>5, StepCases
           DEF IInv, Forgot, StartTick, LookUp, TickFails, Reread, Reserve,
               StartMaintenance, Start, Crash, MarketMoves, ReadinessChanges,
               vars, store

\* heartbeat_daemon_lease and defer_live_leases_for_maintenance only move the
\* deadline of an epoch forward.
THEOREM DeadlinesKept == Spec => DeadlineKept
    <1>1. IInv /\ [Next]_vars =>
              [row'.epoch = row.epoch => (row'.left >= row.left \/ Pass)]_vars
        BY DeadlineStep
    <1>2. QED
        BY <1>1, InvariantHolds, PTL DEF Spec, DeadlineKept

\* A step of the scheduler is an election, the reservation of one session for
\* a Run of its own by the leader, or nothing at all to the sessions.
LEMMA SlotsStep ==
    ASSUME IInv, [Next]_vars
    PROVE  [Slots!Next]_(Slots!vars)
    <1>1. TypeOK /\ row.epoch \in Nat
        BY DEF IInv, TypeOK
    <1>2. ASSUME row'.epoch = row.epoch, slot' = slot
          PROVE  UNCHANGED Slots!vars
        BY <1>2 DEF Slots!vars
    <1>3. ASSUME NEW o \in Owner, NEW for \in Callers, NEW age \in Nat,
                 Took(o, for, age)
          PROVE  [Slots!Next]_(Slots!vars)
        <2>1. CASE Grants(age)
            BY <1>1, <1>3, <2>1 DEF Took, Take, Slots!Next, Slots!Elect
        <2>2. CASE ~Grants(age)
            BY <1>2, <1>3, <2>2 DEF Took, Take
        <2>3. QED
            BY <2>1, <2>2
    <1>4. ASSUME NEW o \in Owner, Reserve(o)
          PROVE  [Slots!Next]_(Slots!vars)
        <2> DEFINE t == tick[o]
        <2>1. CASE slot' = slot
            BY <1>2, <1>4, <2>1 DEF Reserve
        <2>2. CASE slot' # slot
            <3>1. /\ t.pc = "stage" /\ row' = row
                  /\ Accepts(o, t.epoch, t.age) /\ slot[t.session].run = NoRun
                  /\ slot' = [slot EXCEPT ![t.session] =
                                [run |-> t.run, epoch |-> t.epoch]]
                BY <1>4, <2>2 DEF Reserve
            <3>2. /\ t.session \in Session /\ t.epoch = row.epoch
                  /\ t.run \in Run
                  /\ \A s \in Session : slot[s].run # t.run
                BY <1>1, <3>1 DEF IInv, TicksComplete, RunsApart, Accepts, Holds,
                                  TypeOK, Ticks
            <3>3. Slots!Reserve(t.session)
                BY <3>1, <3>2 DEF Slots!Reserve, Slots!Reserved
            <3>4. QED
                BY <3>2, <3>3 DEF Slots!Next
        <2>3. QED
            BY <2>1, <2>2
    <1>5. ASSUME NEW o \in Owner, NEW for \in Callers, NEW age \in Nat,
                 Renewed(o, for, age) \/ Forgot(o, for, age)
          PROVE  row'.epoch = row.epoch /\ slot' = slot
        BY <1>1, <1>5 DEF Renewed, Forgot, TypeOK
    <1>6. ASSUME NEW o \in Owner,
                 \/ StartTick(o) \/ LookUp(o) \/ TickFails(o) \/ Reread(o)
                 \/ StartMaintenance(o) \/ EndMaintenance(o)
                 \/ Start(o) \/ Crash(o)
          PROVE  row'.epoch = row.epoch /\ slot' = slot
        BY <1>1, <1>6 DEF StartTick, LookUp, TickFails, Reread, StartMaintenance,
           EndMaintenance, Start, Crash, TypeOK, store, local
    <1>7. ASSUME MarketMoves \/ ReadinessChanges \/ Pass \/ UNCHANGED vars
          PROVE  row'.epoch = row.epoch /\ slot' = slot
        BY <1>1, <1>7 DEF MarketMoves, ReadinessChanges, Pass, TypeOK, store,
                          vars
    <1>8. QED
        BY <1>1, <1>2, <1>3, <1>4, <1>5, <1>6, <1>7, StepCases DEF IInv

\* However many schedulers run, stall, die and come back: sessions see one
\* leader after the other and get one Run each, reserved by the leader of the
\* moment (acquire_daemon_lease, reserve_session_slot).
THEOREM Implements == Spec => SessionSlotsSpec
    <1>1. Init => Slots!Init
        BY DEF Init, Slots!Init
    <1>2. IInv /\ [Next]_vars => [Slots!Next]_(Slots!vars)
        BY SlotsStep
    <1>3. QED
        BY <1>1, <1>2, InvariantHolds, PTL
           DEF Spec, SessionSlotsSpec, Slots!Spec
==============================================================================
