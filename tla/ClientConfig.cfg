SPECIFICATION Spec
CONSTANTS
    c1 = c1
    c2 = c2
    s1 = s1
    s2 = s2
    Commands <- TwoCommands
    Servers <- TwoServers
    ClientServers <- FirstServer
SYMMETRY AnyCommand
INVARIANTS
    OriginalIsKept
    RoutedIsRegistered
    SavedIsKept
