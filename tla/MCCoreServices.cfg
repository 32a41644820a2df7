SPECIFICATION McSpec
CONSTANTS
    MaxText = 5
    MaxLater = 2
    MaxIters = 2
    MaxCalls = 1
    MaxFrames = 3
    MaxLines = 2
    Callers = {c1, c2}
    Facts <- McFacts
    Exports <- McExports
    Blocks = {"profile", "b"}
    Values = {"v1"}
    ChunkSize = 2
    MaxFacts = 3
    MaxOps = 3
    Clients = {p1, p2}
    BootPlans <- McPlans
    Remotes <- McRemotes
    MaxToolCalls = 2
    MaxOwn = 1
    Writers = {w1, w2}
    Paths <- McPaths
    Additions = {"e1", "e2"}
    MaxEdits = 4
    Inputs <- McInputs
    Ascii = {"@", "space"}
    MaxBlocks = 3
    Bodies = {0, 2, 10, 11}
    MaxBody = 10
    Tries = 2
    Room = 12
    MaxPushed = 1
INVARIANTS
    FramesInOrder
    StreamedIsAnswer
    RememberedIsFound
    VectorsBelong
    BlocksKept
    PlaceholdersFaithful
    RegistryGuarded
    AnswersMatch
    NotesKept
    LinesInMargins
    TextComplete
    ExchangeWhole
PROPERTIES
    HandlerReturns
    ToolsReturn
CHECK_DEADLOCK FALSE
