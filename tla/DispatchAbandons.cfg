\* A write whose answer is lost fails the task that would look for the order.
CONSTANTS
    a1 = a1
    a2 = a2
    NoAttempt = NoAttempt
    Attempt = {a1, a2}
    Orders = 1
    MaxFaults = 1
SPECIFICATION Spec
SYMMETRY AttemptSymmetry
CHECK_DEADLOCK FALSE
INVARIANTS
    LiveOrderKeepsDispatch
