SPECIFICATION SchedSpec
CONSTANTS
    Ids = {i1, i2}
    Everys = {0}
    MinEvery = 2
    MaxSchedules = 2
    Width = 5
    MaxClock = 1
    MaxCrashes = 0
PROPERTY
    RunsRespectKillSwitch
