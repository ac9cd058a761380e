SPECIFICATION FairSpec
CONSTANTS
    t1 = t1
    t2 = t2
    b1 = b1
    Tasks = {t1, t2}
    Broadcasts = {b1}
    Created <- MCCreated
    Pollers = {p1, p2}
    Limit = 2
    MaxRetries = 3
    MaxFaults = 4
    MaxCrashes = 1
INVARIANTS
    TypeOK
    OneJobPerEvent
    ProcessedWasHandedOver
    RepeatedOnlyByCrash
PROPERTIES
    SettledIsFinal
    EventuallySettled
CHECK_DEADLOCK FALSE
