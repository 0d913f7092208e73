SPECIFICATION Spec
CONSTANTS
    user1 = user1
    user2 = user2
    prune1 = prune1
    prune2 = prune2
    prune3 = prune3
    Snapshots <- TwoExternal
    Prunes <- NoPrunes
    Threshold = 2
    Cap = 1
    MaxBatch = 2
    Concurrency = 2
    MaxFailures = 1
    MaxRestarts = 1
    MaxSkips = 1
    MaxAcks = 1
    MaxAhead = 1
    MaxMishaps = 2
SYMMETRY Symmetry
CHECK_DEADLOCK FALSE
INVARIANTS TypeOK DrainedMeansGone NoLeakedReservation InFlightBelowThreshold
PROPERTIES SkipIsFinal DeletesAsPromised
