SPECIFICATION FairSpec
CONSTANTS
    i1 = i1
    i2 = i2
    j1 = j1
    l1 = l1
    Instances <- ThreeInstances
    Lists <- OneList
    NumServers = 2
    ServerOf <- NameOf
    Overlapping = TRUE
INVARIANTS
    NoGhosts
    StaleFilesGo
PROPERTY
    StateIsSaved
