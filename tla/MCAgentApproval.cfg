SPECIFICATION Spec
CONSTANTS
    write = write
    shell = shell
    r1 = r1
    r2 = r2
    n1 = n1
    n2 = n2
    Calls = {write, shell}
    Nonces = {n1, n2}
    MintTTL = 1
    MaxTTL = 1
    MaxClock = 1
    MaxBoot = 1
    Runs = {r1, r2}
    Irreversible = {write, shell}
    HardGated = {shell}
    Unregistered = {}
    AllowListed = {}
    Turns <- MCTurns
    Modes <- MCModes
    GrantCounts = {0, 1}
    MaxIters = 1
    MaxWorkerIters = 1
    MaxSubtasks = 0
    MaxCouncil = 1
    MaxSyntheticCalls = 1
    NoToken = NoToken
INVARIANTS
    OnlyApprovedEffects
    SingleUse
    BurntMeansRun
PROPERTY
    ImplementsPromise
