SPECIFICATION Spec
CONSTANTS
    a = a
    b = b
    p1 = p1
    p2 = p2
    p3 = p3
    NoProc = NoProc
    Callers <- OneCaller
    MayCall <- MayCallAll
    StartFrom <- AllStates
    Procs <- TwoProcs
    MaxRestarts = 1
    RestartWindow = 2
    MaxAttempts = 2
    MaxTime = 0

INVARIANT
    FailedMeansNoChild
