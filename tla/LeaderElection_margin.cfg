SPECIFICATION Spec
CONSTANTS
    a = a
    b = b
    Replicas <- MCReplicas
    LeaseDuration = 4
    RenewPeriod = 1
    RenewDeadline = 2
    RetryPeriod = 1
    AttemptTimeout = 2
    CampaignTimeout = 2
    MaxLatency = 2
    MaxTime = 6
    Budgets <- MCBudgets
SYMMETRY Symmetry
CHECK_DEADLOCK FALSE
INVARIANTS TypeOK ReconcileExclusive  TermsDistinct
PROPERTIES ReconfirmProvesOwnership TakeoverWaits
