SPECIFICATION FairSpec
CONSTANTS
    t1 = t1
    t2 = t2
    b1 = b1
    Tasks = {t1, t2}
    Broadcasts = {b1}
    Created <- MCCreated
    Pollers = {p1}
    Limit = 1
    MaxRetries = 3
    MaxFaults = 3
    MaxCrashes = 0
PROPERTIES
    CronIsSafetyNet
CHECK_DEADLOCK FALSE
