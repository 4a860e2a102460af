SPECIFICATION Spec
CONSTANTS
    MaxSaves = 3
    MaxSessions = 2
    Window = 1
INVARIANTS
    TypeOK
    NeverSendsOnClosed
    NewestOnItsWay
    FreshSinceSubscribe
PROPERTIES
    Converges
    SubscriptionsReleased
    SaveCompletes
    StopWaitsOnlyForClients
    ImplementsRegister
