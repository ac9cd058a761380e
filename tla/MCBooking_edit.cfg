SPECIFICATION Spec
CONSTANTS
    c1 = c1
    c2 = c2
    Cases = {c1, c2}
    Requests = {r1, r2}
    BlockIds = {i1}
    Blocks <- DayAndNight
    NoBlock = NoBlock
    NoTime = NoTime
    DayLen = 4
    WeekLen = 2
    Duration = 2
    Dates = {0, 1}
    Times = {1, 2, 7, 12}
SYMMETRY Symmetry
INVARIANTS
    TypeOK
    SerialBookingsAreDisjoint
    HoursAreShifts
    OfferedIsOpen
PROPERTIES
    BookingIsFinal
CHECK_DEADLOCK FALSE
