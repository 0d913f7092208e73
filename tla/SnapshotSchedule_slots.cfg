SPECIFICATION Spec
CONSTANTS
    a = a
    b = b
    hourly = hourly
    daily = daily
    berlin = berlin
    utc = utc
    Targets <- OneTarget
    Crons <- OneCron
    Zones <- TwoZones
    UTC = utc
    Occurs <- MCOccurs
    Jitter <- MCJitter
    Concurrency = {"Forbid", "Replace"}
    Deadlines = {0}
    OnCreate = {TRUE}
    HistoryLimit = 0
    MaxTime = 2
    MaxDelays = 1
    MaxFailures = 1
    MaxEvents = 1
    MaxMishaps = 2
CHECK_DEADLOCK FALSE
INVARIANTS TypeOK RecordedSlotMinted
PROPERTIES NoOverlap ReplaceSparesOwnSlot KeepsContract
