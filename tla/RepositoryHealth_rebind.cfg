SPECIFICATION Spec
CONSTANTS
    OnFailure = {"Degrade"}
    CreateEnabled = {TRUE}
    Threshold = 2
    MaxLevel = 2
    SlowLevel = 1
    MaxStreak = 3
    MaxIds = 2
    MaxEdits = 0
    MaxOutages = 1
    MaxLags = 0
    MaxAborts = 1
CHECK_DEADLOCK FALSE
PROPERTIES ProbeNeverRebinds
