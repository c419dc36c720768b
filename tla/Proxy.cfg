SPECIFICATION Spec
CONSTANTS
    u1 = u1
    u2 = u2
    NoUri = NoUri
    hydra_restart = hydra_restart
    other_tool = other_tool
    Uris <- OneUri
    ClientSends <- OfSession
    QueueMax = 2
    QueueTTL = 1
    HydraTools <- Hydra
    ChildTools <- AnyTools
    CollisionPolicy = "error"
    MaxRequests = 3
    MaxRestarts = 2
    MaxTime = 2
INVARIANTS
    SubscriptionsSurvive
    OrderIsKept
    ReplayComesFirst
    AnsweredOnce
    NothingVanishes
    ToldNamesAreDistinct
PROPERTY
    FailedIsFinal
