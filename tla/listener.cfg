SPECIFICATION FairSpec
CONSTANTS
    Watches = {w1, w2}
    Statements = {q1}
    Malformed <- MCMalformed
    NotifySize = 2
    MaxAttempts = 3
    MaxNotifications = 5
INVARIANTS
    TypeOK
    ExitsForAReason
    DestroyStopsWatches
PROPERTIES
    ImplementsFeed
    LossExplained
    DestroyReturns
    RecoversOrExits
    ReceivedIsTold
