SPECIFICATION McSpec
CONSTANTS
    Conns = {c1, c2}
    Writers = {t1, t2}
    Keys = {k1, k2}
    NoKey = NoKey
    MaxRecords = 4
    MaxBoots = 3
    Polls = {q1, q2}
    MaxCores = 3
    MaxPends = 2
    MaxPrompts = 2
    Ids = {i1, i2}
    Everys = {0, 33}
    MinEvery = 2
    MaxSchedules = 2
    Width = 5
    MaxClock = 4
    MaxCrashes = 1
INVARIANTS
    FileFollowsMemory
    AckedPanicHolds
    ChainVerifies
    AckedStay
    NoFalseAlarm
    AnchoredKept
    ConsentHolds
    StoreIsFaithful
    RunsCounted
    FloorKept
PROPERTIES
    DueIsTaken
    NoAdmissionDuringPanic
    TierMonotonic
    AppReconnects
CHECK_DEADLOCK FALSE
