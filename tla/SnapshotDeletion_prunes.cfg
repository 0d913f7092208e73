SPECIFICATION FairSpec
CONSTANTS
    user1 = user1
    user2 = user2
    prune1 = prune1
    prune2 = prune2
    prune3 = prune3
    Snapshots <- Two
    Prunes <- OnePrune
    Threshold = 1
    Cap = 1
    MaxBatch = 2
    Concurrency = 2
    MaxFailures = 1
    MaxRestarts = 0
    MaxSkips = 0
    MaxAcks = 1
    MaxAhead = 0
    MaxMishaps = 2
CHECK_DEADLOCK FALSE
PROPERTIES PrunesDrain
