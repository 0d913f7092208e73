SPECIFICATION FairSpec
CONSTANTS
    CopyMethods = {"Direct", "Snapshot"}
    Filesystem = TRUE
    Backoff = 1
    MaxAborts = 1
    MaxLags = 1
    MaxMover = 1
    MaxEvents = 1
CHECK_DEADLOCK FALSE
INVARIANTS TypeOK SourceOutlivesJob
PROPERTIES QuiesceThenJob Resumed EndsClean
