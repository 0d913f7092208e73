SPECIFICATION FairSpec
CONSTANTS
    a = a
    b = b
    hourly = hourly
    daily = daily
    berlin = berlin
    utc = utc
    Targets <- TwoTargets
    Crons <- TwoCrons
    Zones <- OneZone
    UTC = utc
    Occurs <- MCOccurs
    Jitter <- MCJitter
    Concurrency = {"Forbid"}
    Deadlines = {9}
    OnCreate = {FALSE}
    HistoryLimit = 1
    MaxTime = 2
    MaxDelays = 1
    MaxFailures = 1
    MaxEvents = 1
    MaxMishaps = 1
CHECK_DEADLOCK FALSE
PROPERTIES DueSlotSettles 
