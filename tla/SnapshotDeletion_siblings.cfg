SPECIFICATION Spec
CONSTANTS
    user1 = user1
    user2 = user2
    prune1 = prune1
    prune2 = prune2
    prune3 = prune3
    Snapshots <- ThreePrunes
    Prunes <- ThreePrunes
    Threshold = 0
    Cap = 1
    MaxBatch = 2
    Concurrency = 2
    MaxFailures = 0
    MaxRestarts = 0
    MaxSkips = 0
    MaxAcks = 0
    MaxAhead = 0
    MaxMishaps = 0
SYMMETRY Symmetry
CHECK_DEADLOCK FALSE
INVARIANTS RepoOvershoot RidesBounded
