SPECIFICATION Spec
CONSTANTS
    c1 = c1
    c2 = c2
    c3 = c3
    Convs = {c1, c2, c3}
    Old = {c1, c2}
    NoConv = NoConv
    Slots = {k1}
    MaxMsgs = 2
    MaxQueue = 2
    MaxQuits = 0
INVARIANT
    ChatKeptMidStream
CHECK_DEADLOCK FALSE
