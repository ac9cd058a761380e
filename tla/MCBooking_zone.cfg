SPECIFICATION Spec
CONSTANTS
    c1 = c1
    c2 = c2
    Cases = {c1, c2}
    Requests = {r1}
    BlockIds = {i1}
    Blocks <- EarlyShift
    NoBlock = NoBlock
    NoTime = NoTime
    DayLen = 4
    WeekLen = 2
    Duration = 2
    Dates = {0, 1}
    Times = {0, 1, 2, 3, 4, 5, 6, 7}
SYMMETRY Symmetry
INVARIANTS
    OfferedIsBookable
CHECK_DEADLOCK FALSE
