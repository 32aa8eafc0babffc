---------------------------- MODULE SchedulerLease ----------------------------
(***************************************************************************)
(* The scheduler's daemon lease and the session slots it protects:         *)
(* PaperScheduler (acquire_or_renew, active_lease, tick) in several daemon *)
(* processes over the Store's lease row, with maintenance windows that     *)
(* push deadlines, processes that die, and times that were read long ago.  *)
(*                                                                         *)
(* Time is relative: the row keeps what is left of the lease, a `now` that *)
(* somebody read keeps its age.  `expires_at > now` is then left + age > 0 *)
(* and a deadline of now + lease_duration leaves LeaseTime - age.  An      *)
(* Owner is one incarnation of a process: the owner id of a daemon is made *)
(* from a fresh id when it starts, so a restart is another Owner.          *)
(***************************************************************************)
EXTENDS Integers, FiniteSets

CONSTANTS
    Owner,      \* daemon incarnations
    NoOwner,    \* owner of the row that does not exist yet
    Session,    \* broker session keys
    Closed,     \* what the broker's clock says outside a session
    Run,        \* Run ids
    NoRun,
    LeaseTime,  \* lease_duration
    MaxAge,     \* bound: how long after it was read a `now` is still used
    MaxMaint,   \* bound: how long a maintenance window takes; 0 for none
    MaxEpoch    \* bound: takeovers other than those of a tick with work

ASSUME SchedulerAssumption ==
    /\ NoOwner \notin Owner
    /\ Closed \notin Session
    /\ NoRun \notin Run
    /\ LeaseTime \in Nat \ {0}
    /\ MaxAge \in Nat
    /\ MaxMaint \in Nat
    /\ MaxEpoch \in Nat

\* An expiry further in the past than any `now` or window reaches.
Horizon == IF MaxAge > MaxMaint THEN MaxAge ELSE MaxMaint
Idle == -1
NoLease == [epoch |-> 0, left |-> 0]
NoCall == [pc |-> "none", for |-> "task", age |-> 0]
NoTick == [pc |-> "idle", session |-> Closed, age |-> 0, epoch |-> 0,
           run |-> NoRun]
Callers == {"task", "watch", "lease"}

VARIABLES
    row,     \* the row of rebuild_daemon_leases: owner, epoch, left
    slot,    \* rebuild_session_slots: [Session -> [run, epoch]]
    market,  \* open_session_key of the broker's clock
    ready,   \* approval, identities, canary state, proposal and log let a tick pass
    alive,   \* [Owner -> "new", "up" or "dead"]
    held,    \* [Owner -> lease]: PaperScheduler.lease, behind its mutex
    call,    \* [Owner -> call]: the acquire_or_renew that has the mutex
    tick,    \* [Owner -> tick]: the scheduler loop
    maint    \* [Owner -> Int]: age of its maintenance window, or Idle

store == <<row, slot>>
world == <<market, ready>>
local == <<held, call, tick, maint>>
vars == <<store, world, alive, local>>

Leases == [epoch : Nat, left : Int]
SlotRows == [run : Run \cup {NoRun}, epoch : Nat]
Ticks == [pc : {"idle", "look", "watch", "lease", "stage"},
          session : Session \cup {Closed}, age : Nat, epoch : Nat,
          run : Run \cup {NoRun}]
Calls == [pc : {"none", "reread", "acquire"}, for : Callers, age : Nat]

TypeOK ==
    /\ row \in [owner : Owner \cup {NoOwner}, epoch : Nat, left : Int]
    /\ slot \in [Session -> SlotRows]
    /\ market \in Session \cup {Closed}
    /\ ready \in BOOLEAN
    /\ alive \in [Owner -> {"new", "up", "dead"}]
    /\ held \in [Owner -> Leases]
    /\ call \in [Owner -> Calls]
    /\ tick \in [Owner -> Ticks]
    /\ maint \in [Owner -> Nat \cup {Idle}]
------------------------------------------------------------------------------
(***************************************************************************)
(* The Store's lease operations, for a `now` of the given age.             *)
(***************************************************************************)
\* Mutant: a lease that ends at this very moment may be taken over.
GrantsEarly(age) == row.left + age <= 1

\* Mutant: a row that exists is never taken over.
GrantsOnce(age) == row.epoch = 0

\* acquire_daemon_lease answers Some: no row yet, or an expired one, whoever
\* its owner is.
Grants(age) == row.left + age <= 0

Holds(o, epoch) == row.owner = o /\ row.epoch = epoch

\* assert_daemon_lease: owner and epoch match and expires_at > now.
Accepts(o, epoch, age) == Holds(o, epoch) /\ row.left + age > 0

\* Mutant: the heartbeat writes its own deadline.
OverwrittenLeft(age) == LeaseTime - age

\* heartbeat_daemon_lease never takes a deadline back.
HeartbeatLeft(age) ==
    IF LeaseTime - age > row.left THEN LeaseTime - age ELSE row.left

\* Run ids are random: the next one is in no slot and in no other hand.
FreshRun(r) ==
    /\ \A s \in Session : slot[s].run # r
    /\ \A o \in Owner : tick[o].run # r
------------------------------------------------------------------------------
(***************************************************************************)
(* acquire_or_renew: the mutex is held over up to three transactions.      *)
(***************************************************************************)
\* The caller gets a lease of this epoch: a tick with work draws the Run it
\* is going to reserve for, and the others are done.
Granted(o, for, epoch) ==
    CASE for = "lease" ->
            \E r \in Run :
                /\ FreshRun(r)
                /\ tick' = [tick EXCEPT ![o] =
                        [pc |-> "stage", session |-> tick[o].session,
                         age |-> tick[o].age, epoch |-> epoch, run |-> r]]
      [] for = "watch" -> tick' = [tick EXCEPT ![o] = NoTick]
      [] for = "task" -> UNCHANGED tick

\* NotLeader: the tick fails closed until the next one.
Refused(o, for) ==
    tick' = IF for = "task" THEN tick ELSE [tick EXCEPT ![o] = NoTick]

\* Mutant: the new owner goes on under the epoch of the old one.
TakeSameEpoch(o, for, age) ==
    LET epoch == IF row.epoch = 0 THEN 1 ELSE row.epoch
    IN  /\ call' = [call EXCEPT ![o] = NoCall]
        /\ IF Grants(age)
           THEN /\ row' = [owner |-> o, epoch |-> epoch, left |-> LeaseTime - age]
                /\ held' = [held EXCEPT ![o] =
                        [epoch |-> epoch, left |-> LeaseTime - age]]
                /\ Granted(o, for, epoch)
           ELSE /\ UNCHANGED row
                /\ held' = [held EXCEPT ![o] = NoLease]
                /\ Refused(o, for)

\* acquire_daemon_lease, and the cache.
Take(o, for, age) ==
    /\ call' = [call EXCEPT ![o] = NoCall]
    /\ IF Grants(age)
       THEN /\ row' = [owner |-> o, epoch |-> row.epoch + 1,
                       left |-> LeaseTime - age]
            /\ held' = [held EXCEPT ![o] =
                    [epoch |-> row.epoch + 1, left |-> LeaseTime - age]]
            /\ Granted(o, for, row.epoch + 1)
       ELSE /\ UNCHANGED row
            /\ held' = [held EXCEPT ![o] = NoLease]
            /\ Refused(o, for)

\* The first transaction of a call: the heartbeat of a cached lease, or the
\* acquisition when there is none.
Renew(o, for, age) ==
    /\ alive[o] = "up"
    /\ call[o].pc = "none"
    /\ \/ /\ held[o].epoch = 0
          /\ Take(o, for, age)
       \/ /\ held[o].epoch # 0
          /\ Accepts(o, held[o].epoch, age)
          /\ row' = [row EXCEPT !.left = HeartbeatLeft(age)]
          /\ call' = [call EXCEPT ![o] =
                        [pc |-> "reread", for |-> for, age |-> age]]
          /\ UNCHANGED <<held, tick>>
       \/ /\ held[o].epoch # 0
          /\ ~Accepts(o, held[o].epoch, age)
          /\ held' = [held EXCEPT ![o] = NoLease]
          /\ call' = [call EXCEPT ![o] =
                        [pc |-> "acquire", for |-> for, age |-> age]]
          /\ UNCHANGED <<row, tick>>
    /\ UNCHANGED <<slot, world, alive, maint>>

\* The heartbeat found no live lease: acquire with the same `now`.
Acquire(o) ==
    /\ call[o].pc = "acquire"
    /\ Take(o, call[o].for, call[o].age)
    /\ UNCHANGED <<slot, world, alive, maint>>

\* The cached deadline becomes the durable one, which a maintenance window may
\* have pushed further; a lease that changed hands meanwhile is NotLeader.
Reread(o) ==
    /\ call[o].pc = "reread"
    /\ call' = [call EXCEPT ![o] = NoCall]
    /\ IF Holds(o, held[o].epoch)
       THEN /\ held' = [held EXCEPT ![o].left = row.left]
            /\ Granted(o, call[o].for, held[o].epoch)
       ELSE UNCHANGED held /\ Refused(o, call[o].for)
    /\ UNCHANGED <<store, world, alive, maint>>

\* active_lease: a task asks with the `now` its attempt started from.  It does
\* not go through the executor queue.
ActiveLease(o) ==
    /\ row.epoch < MaxEpoch
    /\ \E age \in 0..MaxAge : Renew(o, "task", age)
------------------------------------------------------------------------------
(***************************************************************************)
(* The scheduler loop: serve and tick.  Its Store work waits for the       *)
(* process's executor, which a maintenance window keeps for itself.        *)
(***************************************************************************)
Executor(o) == alive[o] = "up" /\ maint[o] = Idle

\* Bound: with nothing left to reserve, ticks only take over MaxEpoch leases;
\* with something, two more per process, in a world that is calm by then.
EpochBound ==
    IF market \in Session /\ slot[market].run = NoRun
    THEN MaxEpoch + 2 * Cardinality(Owner) ELSE MaxEpoch

\* Bound: from MaxEpoch on the market leaves no session and readiness stays.
Restless == row.epoch < MaxEpoch

\* The tick reads `now` and asks the broker for the open session.
StartTick(o) ==
    /\ alive[o] = "up"
    /\ tick[o].pc = "idle"
    /\ market # Closed
    /\ row.epoch < EpochBound
    /\ tick' = [tick EXCEPT ![o] = [pc |-> "look", session |-> market,
                                    age |-> 0, epoch |-> 0, run |-> NoRun]]
    /\ UNCHANGED <<store, world, alive, held, call, maint>>

\* session_slot: a reserved session is only watched.  A new one needs the
\* approval, the identities and a proposal.
LookUp(o) ==
    /\ tick[o].pc = "look"
    /\ Executor(o)
    /\ tick' = IF slot[tick[o].session].run # NoRun
               THEN [tick EXCEPT ![o].pc = "watch"]
               ELSE IF ready THEN [tick EXCEPT ![o].pc = "lease"]
               ELSE [tick EXCEPT ![o] = NoTick]
    /\ UNCHANGED <<store, world, alive, held, call, maint>>

\* Anything else a tick waits for may end in an error while not all is ready.
TickFails(o) ==
    /\ ~ready
    /\ tick[o].pc \in {"look", "stage"}
    /\ tick' = [tick EXCEPT ![o] = NoTick]
    /\ UNCHANGED <<store, world, alive, held, call, maint>>

\* acquire_or_renew_async: `now` is read when the queue lets the call start.
TickLease(o) ==
    /\ tick[o].pc \in {"watch", "lease"}
    /\ Executor(o)
    /\ Renew(o, tick[o].pc, 0)

\* Mutant: the fence only looks at the deadline.
ReserveByDeadline(o) ==
    LET t == tick[o]
    IN  /\ t.pc = "stage"
        /\ Executor(o)
        /\ slot' = IF row.left + t.age > 0 /\ slot[t.session].run = NoRun
                   THEN [slot EXCEPT ![t.session] =
                            [run |-> t.run, epoch |-> t.epoch]]
                   ELSE slot
        /\ tick' = [tick EXCEPT ![o] = NoTick]
        /\ UNCHANGED <<row, world, alive, held, call, maint>>

\* reserve_session_slot and reserve_paper_session_with_binding: one transaction
\* that is fenced with the tick's own `now`, keeps a slot that exists and
\* otherwise creates the Run and its slot.  A fenced tick is SubmissionUnknown.
Reserve(o) ==
    LET t == tick[o]
    IN  /\ t.pc = "stage"
        /\ Executor(o)
        /\ slot' = IF Accepts(o, t.epoch, t.age)
                         /\ slot[t.session].run = NoRun
                   THEN [slot EXCEPT ![t.session] =
                            [run |-> t.run, epoch |-> t.epoch]]
                   ELSE slot
        /\ tick' = [tick EXCEPT ![o] = NoTick]
        /\ UNCHANGED <<row, world, alive, held, call, maint>>
------------------------------------------------------------------------------
(***************************************************************************)
(* StoreExecutor.execute_maintenance around the lease row.                 *)
(***************************************************************************)
\* The window starts when the queue is drained.  Bound: not on top of a
\* deadline that another window has already pushed.
StartMaintenance(o) ==
    /\ MaxMaint > 0
    /\ Executor(o)
    /\ call[o].pc # "none" => call[o].for = "task"
    /\ row.left <= LeaseTime
    /\ maint' = [maint EXCEPT ![o] = 0]
    /\ UNCHANGED <<store, world, alive, held, call, tick>>

\* defer_live_leases_for_maintenance: what was live when the window began, or
\* was taken since, gets the elapsed time back, also when it has expired.
EndMaintenance(o) ==
    /\ maint[o] # Idle
    /\ row' = IF row.epoch > 0 /\ maint[o] > 0 /\ row.left + maint[o] > 0
              THEN [row EXCEPT !.left = @ + maint[o]] ELSE row
    /\ maint' = [maint EXCEPT ![o] = Idle]
    /\ UNCHANGED <<slot, world, alive, held, call, tick>>
------------------------------------------------------------------------------
(***************************************************************************)
(* Processes, the market and time.                                         *)
(***************************************************************************)
Start(o) ==
    /\ alive[o] = "new"
    /\ alive' = [alive EXCEPT ![o] = "up"]
    /\ UNCHANGED <<store, world, local>>

\* Nothing releases the scheduler's lease: a successor waits for its end.
Crash(o) ==
    /\ alive[o] = "up"
    /\ alive' = [alive EXCEPT ![o] = "dead"]
    /\ held' = [held EXCEPT ![o] = NoLease]
    /\ call' = [call EXCEPT ![o] = NoCall]
    /\ tick' = [tick EXCEPT ![o] = NoTick]
    /\ maint' = [maint EXCEPT ![o] = Idle]
    /\ UNCHANGED <<store, world>>

MarketMoves ==
    /\ Restless \/ market = Closed
    /\ market' \in (Session \cup {Closed}) \ {market}
    /\ UNCHANGED <<store, ready, alive, local>>

ReadinessChanges ==
    /\ Restless \/ ~ready
    /\ ready' = ~ready
    /\ UNCHANGED <<store, market, alive, local>>

\* Bound: no `now` in use gets older than MaxAge, and after MaxEpoch than the
\* lease: two ticks slower than the lease take it from each other for ever.
Slowest ==
    IF row.epoch <= MaxEpoch \/ MaxAge < LeaseTime THEN MaxAge ELSE LeaseTime - 1

\* Bound: no window takes longer than MaxMaint.
Timely(o) ==
    /\ tick[o].pc # "idle" => tick[o].age < Slowest
    /\ call[o].pc # "none" => call[o].age < Slowest
    /\ maint[o] < MaxMaint

Pass ==
    /\ \A o \in Owner : Timely(o)
    /\ row' = [row EXCEPT !.left = IF @ > -Horizon THEN @ - 1 ELSE @]
    /\ held' = [o \in Owner |-> [held[o] EXCEPT !.left = IF @ > 0 THEN @ - 1 ELSE 0]]
    /\ tick' = [o \in Owner |-> IF tick[o].pc = "idle" THEN tick[o]
                                ELSE [tick[o] EXCEPT !.age = @ + 1]]
    /\ call' = [o \in Owner |-> IF call[o].pc = "none" THEN call[o]
                                ELSE [call[o] EXCEPT !.age = @ + 1]]
    /\ maint' = [o \in Owner |-> IF maint[o] = Idle THEN Idle ELSE maint[o] + 1]
    /\ UNCHANGED <<slot, world, alive>>
------------------------------------------------------------------------------
Init ==
    /\ row = [owner |-> NoOwner, epoch |-> 0, left |-> -Horizon]
    /\ slot = [s \in Session |-> [run |-> NoRun, epoch |-> 0]]
    /\ market = Closed
    /\ ready = FALSE
    /\ alive = [o \in Owner |-> "new"]
    /\ held = [o \in Owner |-> NoLease]
    /\ call = [o \in Owner |-> NoCall]
    /\ tick = [o \in Owner |-> NoTick]
    /\ maint = [o \in Owner |-> Idle]

\* What the process does next by itself.
Work(o) ==
    \/ LookUp(o) \/ TickLease(o) \/ Acquire(o) \/ Reread(o) \/ Reserve(o)
    \/ EndMaintenance(o)

Next ==
    \/ \E o \in Owner :
          \/ StartTick(o)
          \/ Work(o)
          \/ TickFails(o)
          \/ ActiveLease(o)
          \/ StartMaintenance(o)
          \/ Start(o)
          \/ Crash(o)
    \/ MarketMoves
    \/ ReadinessChanges
    \/ Pass

Spec == Init /\ [][Next]_vars

\* serve polls for ever, futures are polled, time passes.  TickLease competes
\* with the tasks for the mutex.
Fairness ==
    /\ \A o \in Owner :
          /\ SF_vars(StartTick(o))
          /\ SF_vars(TickLease(o))
          /\ WF_vars(LookUp(o))
          /\ WF_vars(Acquire(o))
          /\ WF_vars(Reread(o))
          /\ WF_vars(Reserve(o))
          /\ WF_vars(EndMaintenance(o))
    /\ WF_vars(Pass)

FairSpec == Spec /\ Fairness
------------------------------------------------------------------------------
(***************************************************************************)
(* Properties.                                                             *)
(***************************************************************************)
\* A process whose cached lease has time left is the leader: nobody has taken
\* over behind its back, however old the `now` of an acquisition was and
\* however often windows pushed the deadline (acquire_daemon_lease).
CacheMeansLeader ==
    \A o \in Owner :
        held[o].epoch # 0 /\ held[o].left > 0 =>
            Holds(o, held[o].epoch)

\* "A successor always receives a higher epoch so stale leaders cannot mutate
\* a Paper session slot": two processes never work under the same epoch, in
\* the cache or in a tick, and none is ahead of the Store.
EpochsApart ==
    \A o \in Owner :
        /\ held[o].epoch <= row.epoch
        /\ tick[o].epoch <= row.epoch
        /\ \A p \in Owner \ {o} :
              /\ held[o].epoch # 0 => held[o].epoch # held[p].epoch
              /\ tick[o].epoch # 0 =>
                    tick[o].epoch \notin {held[p].epoch, tick[p].epoch}

\* "A heartbeat cannot undo a maintenance window's lease extension": within an
\* epoch the deadline moves forward only, also when a task renews with a `now`
\* that is older than the scheduler's.  Only time itself takes from it.
DeadlineKept ==
    [][row'.epoch = row.epoch => (row'.left >= row.left \/ Pass)]_vars

\* Whatever the processes, windows and crashes do, the sessions see one leader
\* after the other, and one Run each.
Slots == INSTANCE SessionSlots WITH epoch <- row.epoch
SessionSlotsSpec == Slots!Spec

\* A session that stays open and ready is reserved as long as some process
\* lives and maintenance comes to an end: the lease of a dead leader, and what
\* windows added to it, only delay it.  Windows without end would keep it alive.
OpenSessionReserved ==
    \A s \in Session :
        /\ <>[](market = s /\ ready)
        /\ <>[](\E o \in Owner : alive[o] = "up")
        /\ <>[](\A o \in Owner : maint[o] = Idle)
        => <>(slot[s].run # NoRun)
==============================================================================
