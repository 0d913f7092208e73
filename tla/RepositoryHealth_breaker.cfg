SPECIFICATION FairSpec
CONSTANTS
    OnFailure = {"Degrade", "Alert"}
    CreateEnabled = {TRUE}
    Threshold = 2
    MaxLevel = 2
    SlowLevel = 2
    MaxStreak = 3
    MaxIds = 2
    MaxEdits = 1
    MaxOutages = 2
    MaxLags = 1
    MaxAborts = 1
CHECK_DEADLOCK FALSE
INVARIANTS TypeOK StreakIsHonest
PROPERTIES NoSilentRecreate UsableBecomesReady OutageStaysClosed AckedWipeIsRepaired
