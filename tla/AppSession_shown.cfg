SPECIFICATION SessionSpec
CONSTANTS
    Polls = {q1}
    MaxCores = 2
    MaxPends = 2
    MaxPrompts = 2
INVARIANT ShownIsMinted
