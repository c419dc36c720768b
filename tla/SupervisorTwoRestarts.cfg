SPECIFICATION Spec
CONSTANTS
    a = a
    b = b
    p1 = p1
    p2 = p2
    p3 = p3
    NoProc = NoProc
    Callers <- TwoCallers
    MayCall <- MayRestart
    StartFrom <- AllStates
    Procs <- ThreeProcs
    MaxRestarts = 2
    RestartWindow = 2
    MaxAttempts = 3
    MaxTime = 0

INVARIANT
    EveryChildHasAReaper
