\* Two worker threads, one repair, one fault: an attempt that was suspended
\* wakes up beside its successor, and the end of the worker under fairness.
CONSTANTS
    p1 = p1
    p2 = p2
    Procs = {p1, p2}
    MaxFaults = 1
    MaxRepairs = 1
SPECIFICATION Spec
CHECK_DEADLOCK FALSE
INVARIANTS
    StagesInOrder
    SettledMeansLearnt
PROPERTIES
    FactsFrozen
    HolderAlone
    WorkerSettles
