SPECIFICATION Spec
CONSTANTS
    research = research
    extra = extra
    reconcile = reconcile
    evaluate = evaluate
    outcome = outcome
    w1 = w1
    w2 = w2
    w3 = w3
    NoPermit = NoPermit
    Task <- MCPaperTasks
    Worker = {w1, w2}
    Deps <- MCPaperDeps
    OnFailure <- MCPaperOnFailure
    MaxAttempts <- MCMaxAttempts
    MayRetry <- MCMayRetry
    MaySkip = {}
    Reconcile = reconcile
    Schedule = evaluate
    Outcome = outcome
    Workload <- MCShared
    Stages = 2
    LeaseFor = 2
    MaxDelay = 1
    MaxDeferrals = 1
    MaxLosses = 2
SYMMETRY WorkerSymmetry
INVARIANTS
    EffectKeepsReconcile
    BudgetRespected
PROPERTIES
    LiveAttemptExclusive
    VerdictSurvivesOutcome
CHECK_DEADLOCK FALSE
