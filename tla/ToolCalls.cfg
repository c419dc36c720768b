SPECIFICATION ToolSpec
CONSTANTS
    loop = loop
    watch = watch
    p1 = p1
    p2 = p2
    p3 = p3
    NoProc = NoProc
    Callers <- LoopAndWatch
    ToolUsers <- OnlyLoop
    MayCall <- Each
    StartFrom <- AllStates
    Procs <- TwoProcs
    MaxRestarts = 1
    RestartWindow = 2
    MaxAttempts = 3
    MaxTime = 2
SYMMETRY AnyProc
INVARIANTS
    RestartsBounded
    SuccessIsFresh
    ForceGetsThrough
