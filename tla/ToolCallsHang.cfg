SPECIFICATION FairToolSpec
CONSTANTS
    loop = loop
    watch = watch
    p1 = p1
    p2 = p2
    p3 = p3
    NoProc = NoProc
    Callers <- LoopAndWatch
    ToolUsers <- OnlyLoop
    MayCall <- ToolAndRestart
    StartFrom <- AllStates
    Procs <- ThreeProcs
    MaxRestarts = 3
    RestartWindow = 1
    MaxAttempts = 3
    MaxTime = 0
PROPERTY
    ToolAnswers
