SPECIFICATION CommandSpec
CONSTANTS
    s1 = s1
    s2 = s2
    ServerNames <- OneServer
    Subcommands <- RootOrder
    TypedClients <- Typed
    TypedPaths <- Typed
    Edits <- SomeEdits
    EditedPaths <- Files
    MaxEdits = 3
INVARIANTS
    RunHearsItsOptions
    PlainUninitFindsBackup
PROPERTIES
    DryRunChangesNothing
    MergeAddsWhatIsMissing
