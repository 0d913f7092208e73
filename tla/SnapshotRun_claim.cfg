SPECIFICATION Spec
CONSTANTS
    CopyMethods = {"Direct"}
    Filesystem = TRUE
    Backoff = 0
    MaxAborts = 0
    MaxLags = 0
    MaxMover = 1
    MaxEvents = 0
CHECK_DEADLOCK FALSE
INVARIANTS ClaimsOwnManifest
