SPECIFICATION FairSpec
CONSTANTS
    Sends <- Noisy
    ReadsAhead <- BothRead
    PipeMax = 1
    MaxLines <- TwoAndThree
INVARIANT
    EofComesLast
PROPERTIES
    IsARelay
    MessagesGetThrough
    EndIsNoticed
