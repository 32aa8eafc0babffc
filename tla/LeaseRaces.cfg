\* Two incarnations and one session: old times, a maintenance window, crashes
\* and takeovers around one lease, and the end of it under fairness.
CONSTANTS
    o1 = o1
    o2 = o2
    s1 = s1
    s2 = s2
    r1 = r1
    r2 = r2
    r3 = r3
    NoOwner = NoOwner
    Closed = Closed
    NoRun = NoRun
    Owner = {o1, o2}
    Session = {s1}
    Run = {r1, r2}
    LeaseTime = 2
    MaxAge = 2
    MaxMaint = 1
    MaxEpoch = 1
SPECIFICATION FairSpec
CHECK_DEADLOCK FALSE
INVARIANTS
    CacheMeansLeader
PROPERTIES
    DeadlineKept
    SessionSlotsSpec
    OpenSessionReserved
