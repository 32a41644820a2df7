SPECIFICATION AuditSpec
CONSTANTS
    Writers = {t1}
    Keys = {k1, k2, k3}
    NoKey = NoKey
    MaxRecords = 3
    MaxBoots = 3
INVARIANT
    PriorAnchorIsAncestor
CHECK_DEADLOCK FALSE
