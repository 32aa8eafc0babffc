\* One order, two attempts, two faults: every race of a stalled attempt with
\* its successor around one order, its reprice and its cancel.
CONSTANTS
    a1 = a1
    a2 = a2
    NoAttempt = NoAttempt
    Attempt = {a1, a2}
    Orders = 1
    MaxFaults = 2
SPECIFICATION Spec
SYMMETRY AttemptSymmetry
CHECK_DEADLOCK FALSE
INVARIANTS
    SettledMeansClosed
    IntentBeforeWrite
    CancelKeepsOrders
PROPERTIES
    NoExposureAfterCancel
