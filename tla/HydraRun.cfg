SPECIFICATION FairHydraSpec
CONSTANTS
    w = w
    p1 = p1
    p2 = p2
    p3 = p3
    NoProc = NoProc
    Callers <- OnlyWatch
    Watch = w
    WatchEnabled = TRUE
    MayCall <- OnlyRestart
    StartFrom <- NoState
    Procs <- ThreeProcs
    MaxRestarts = 1
    RestartWindow = 1
    MaxAttempts = 3
    MaxTime = 1
INVARIANTS
    CleanStartIsSafe
PROPERTY
    ProgramEnds
