SPECIFICATION FairSpec
CONSTANTS
    read = read
    write = write
    shell = shell
    ghost = ghost
    r1 = r1
    n1 = n1
    Calls = {read, write, shell, ghost}
    Nonces = {n1}
    MintTTL = 1
    MaxTTL = 1
    MaxClock = 0
    MaxBoot = 0
    Runs = {r1}
    Irreversible = {write, shell}
    HardGated = {shell}
    Unregistered = {ghost}
    AllowListed = {}
    Turns <- MCTurns
    Modes <- MCModes
    GrantCounts = {0, 1}
    MaxIters = 2
    MaxWorkerIters = 1
    MaxSubtasks = 2
    MaxCouncil = 2
    MaxSyntheticCalls = 2
    NoToken = NoToken
INVARIANTS
    WorkersReadOnly
    UsageIsExact
    CostBounded
PROPERTY
    RunsEnd
