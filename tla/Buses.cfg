SPECIFICATION BusesSpec
CONSTANTS
    Providers = {t1, t2, t3}
    Cap = 1
    MaxPublishes = 2
    BusIsL2 = TRUE
    MaxSent = 5
    ChanSize = 2
    OutSize = 1
INVARIANTS
    NoPanic
    DeafOnlyAfterBusClose
    NothingLost
PROPERTIES
    AcceptedHandled
    CloseReturns
    SubscriptionReclaimed
    ImplementsStream
    ForwarderEnds
CHECK_DEADLOCK FALSE
