SPECIFICATION FairSpec
CONSTANTS
    a = a
    b = b
    p1 = p1
    p2 = p2
    p3 = p3
    NoProc = NoProc
    Callers <- OneCaller
    MayCall <- MayCallAll
    StartFrom <- NotFailed
    Procs <- ThreeProcs
    MaxRestarts = 1
    RestartWindow = 2
    MaxAttempts = 3
    MaxTime = 2
INVARIANTS
    EveryChildHasAReaper
PROPERTIES
    ImplementsLifecycle
    CallsReturn
    DeathIsReported
