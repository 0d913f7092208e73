SPECIFICATION FairSpec
CONSTANTS
    backup1 = backup1
    backup2 = backup2
    replication1 = replication1
    restore1 = restore1
    repo1 = repo1
    Global = Global
    Backups <- TwoBackups
    Replications <- OneReplication
    Restores <- OneRestore
    Pools <- MCPools
    RepoOf <- OneRepo
    Cap <- MCCap
    Concurrency = 2
    MaxFailures = 1
    MaxRestarts = 1
    MaxVanished = 1
    MaxSuspended = 1
    MaxMishaps = 1
CHECK_DEADLOCK FALSE
INVARIANTS TypeOK PoolOvershoot NoLeakedReservation
PROPERTIES RunsComplete
