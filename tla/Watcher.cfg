SPECIFICATION FairTreeSpec
CONSTANTS
    py = py
    tmp = tmp
    sub = sub
    deep = deep
    top = top
    NoPath = NoPath
    Paths <- AllPaths
    Watched <- OnlySource
    Top = top
    Dirs <- Nested
    DirOf <- Places
    Ignored <- OnlyTmp
    Debounce = 1
    BatchWindow = 2
    EventsCap = 1
    MayStop = TRUE
    MaxChanges = 3
    MaxTime = 2
INVARIANTS
    PendingIsScheduled
    NoEventWithoutAChange
    SeenUnlessLate
PROPERTY
    ChangesAreServed
