SPECIFICATION Spec
CONSTANTS
    c1 = c1
    c2 = c2
    c3 = c3
    Convs = {c1, c2, c3}
    Old = {c1, c2}
    NoConv = NoConv
    Slots = {k1}
    MaxMsgs = 3
    MaxQueue = 1
    MaxQuits = 1
SYMMETRY Interchangeable
CONSTRAINT Orderly
INVARIANTS
    TurnsKept
    DeletedStay
    SidebarMatchesDisk
    RepliesStay
CHECK_DEADLOCK FALSE
