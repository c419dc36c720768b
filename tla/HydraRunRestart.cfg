SPECIFICATION HydraSpec
CONSTANTS
    w = w
    p1 = p1
    p2 = p2
    p3 = p3
    NoProc = NoProc
    Callers <- OnlyWatch
    Watch = w
    WatchEnabled = TRUE
    MayCall <- OnlyRestart
    StartFrom <- NoState
    Procs <- ThreeProcs
    MaxRestarts = 2
    RestartWindow = 2
    MaxAttempts = 4
    MaxTime = 0
PROPERTY
    HydraOutlivesRestart
