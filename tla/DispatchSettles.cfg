\* Two orders, one attempt at a time: partial submissions, an expired window
\* and restarts between the orders, under fairness.
CONSTANTS
    a1 = a1
    a2 = a2
    NoAttempt = NoAttempt
    Attempt = {a1}
    Orders = 2
    MaxFaults = 1
SPECIFICATION FairSpec
CHECK_DEADLOCK FALSE
PROPERTIES
    HandedOverSettles
