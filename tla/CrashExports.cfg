SPECIFICATION Spec
CONSTANTS
    s1 = s1
    s2 = s2
    tmp = tmp
    stamped = stamped
    own = own
    NoConfig = NoConfig
    NoFile = NoFile
    Servers <- TwoServers
    Paths <- ThreePaths
    DefaultPath <- tmp
    Glob <- TmpMatches
    Patterns <- OnePattern
    DefaultBuffer = 2
    DefaultRestarts = 10
    Entries <- SomeEntries
    Locals <- SomeLocals
    Words <- TwoWords
    Matches <- TwoMatch
    Traffic <- OneEach
    MaxMessages = 4
    MaxCrashes = 2
SYMMETRY Swaps
CHECK_DEADLOCK FALSE
INVARIANTS
    ExportIsTheTail
    NoSecretIsExported
PROPERTY
    ShownIsOwn
