SPECIFICATION ConnSpec
CONSTANTS
    Bodies = {0, 2}
    MaxBody = 2
    Tries = 2
    Room = 12
    MaxPushed = 1
INVARIANT
    FramesArrive
CHECK_DEADLOCK FALSE
