SPECIFICATION FairSpec
CONSTANTS
    research = research
    extra = extra
    reconcile = reconcile
    evaluate = evaluate
    outcome = outcome
    w1 = w1
    w2 = w2
    w3 = w3
    NoPermit = NoPermit
    Task <- MCForkTasks
    Worker = {w1, w2, w3}
    Deps <- MCForkDeps
    OnFailure <- MCForkOnFailure
    MaxAttempts <- MCMaxAttempts
    MayRetry <- MCMayRetry
    MaySkip = {extra}
    Reconcile = reconcile
    Schedule = evaluate
    Outcome = outcome
    Workload <- MCReserved
    Stages = 2
    LeaseFor = 2
    MaxDelay = 1
    MaxDeferrals = 0
    MaxLosses = 1
INVARIANTS
    RunVerdictSound
PROPERTIES
    LostAttemptRecovered
    RunSettles
CHECK_DEADLOCK FALSE
