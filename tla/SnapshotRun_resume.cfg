SPECIFICATION Spec
CONSTANTS
    CopyMethods = {"Direct"}
    Filesystem = FALSE
    Backoff = 1
    MaxAborts = 0
    MaxLags = 0
    MaxMover = 1
    MaxEvents = 0
CHECK_DEADLOCK FALSE
PROPERTIES ResumeAfterWork
