\* A visitor of the booking page, whom nothing should sign out.
CONSTANTS
    Users = {u1}
    Admins = {}
    NoUser = NoUser
    Unknown = Unknown
SPECIFICATION SessionSpec
INVARIANT VisitorStays
CHECK_DEADLOCK FALSE
