SPECIFICATION TuneSpec
CONSTANTS
    Nothing = Nothing
    Latencies <- Durations
    Waits <- SomeWaits
    Instants <- Clock
    MaxEvents = 4
    Learned <- SomeLearned
    Behaviors <- SomeBehaviors
    MaxDebounce = 500
INVARIANTS
    PercentilesAreOrdered
PROPERTIES
    ScoresFollowEvents
    TunedLimitHasRoom
