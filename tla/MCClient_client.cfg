\* The browser's modules, one part at a time.
CONSTANTS
    \* files
    Files <- MCFiles
    Texts <- MCTexts
    RiskRows <- MCRiskRows
    RiskHeaders <- MCRiskHeaders
    Thresholds = {50, 65}
    CaseRows <- MCCaseRows
    TeamItems <- MCTeam
    DemoItems <- MCDemo
    GoalItems <- MCGoals
    Offsets <- MCOffsets
    NoFigures = NoFigures
    NoNumber = NoNumber
    NumberOf <- MCNumberOf
    \* import page
    l1 = l1
    s1 = s1
    s2 = s2
    LmsFiles = {l1}
    SisFiles = {s1, s2}
    TextIn <- MCText
    NoFile = NoFile
    HighAvg = 50
    MaxUploads = 1
    MaxReloads = 1
    MaxReaders = 1
    \* session
    Users = {u1, u2}
    Admins = {u1}
    NoUser = NoUser
    Unknown = Unknown
    \* socket
    SocketIds = {w1, w2, w3}
    NoSocket = NoSocket
    MaxLeaked = 2
    \* board
    Never = Never
    Nobody = Nobody
    PageSize = 5
    NoRows = NoRows
    k1 = k1
    k2 = k2
    BoardCases = {k1, k2}
    StudentOf <- MCStudentOf
    StartOf <- MCStart
    MaxFeed = 2
    MaxCalls = 1
    MaxMoves = 2
    \* mail
    NoMailCase = NoMailCase
    MailCases = {m1}
    MaxTexts = 2
    MaxRequests = 1
    MaxSends = 1
    MaxSessions = 1
    \* schedule and the students' pages
    DayKeys = {"mon"}
    DayOf <- MCDayOf
    Words = {"y"}
    Duration = 30
    Buffer = 10
    Weekdays = {"mon"}
    Monday = "mon"
    DefaultSchedule <- MCDefault
    InitialRows <- MCRows
    TimeInputs <- MCInputs
    NoteInputs <- MCNotes
    Horizon = {1}
    NewDates = {1, 2}
    NoSchedule = NoSchedule
    MaxRanges = 2
    MaxEdits = 1
    MaxSaves = 2
    PageSchedules <- MCPages
    Today = 1
    NoDate = NoDate
    NoSlot = NoSlot
    NoAppointment = NoAppointment
    MaxOthers = 1
    MaxPosts = 1
    MaxReads = 2
    \* settings and notifications
    Entries = {e1}
    DefaultEntry = e0
    NotLoaded = NotLoaded
    MaxEntries = 1
    MaxUpdates = 2
    MaxRefocuses = 1
    Notes = {n1, n2}
    NoNotes = NoNotes
    AllNotes = AllNotes
    MaxMarks = 2
    MaxNoteFails = 1
    \* goals
    GoalStudents = {g1}
    BoardTabs = {t1, t2}
    Deadlines = {Never, 1}
    NoStudent = NoStudent
    MaxGoals = 3
    MaxLeaves = 2
SPECIFICATION Spec
INVARIANTS
    ClientTypeOK
    MergeIsUnion
    StatsOfRows
    ShownIsSent
    SuccessWasStored
    ShownUserIsSignedIn
    OneLiveSocket
    
    OfferedIsLegal
    ReceivedWasChosen
    ScheduleShownIsServers
    BookingPageIsTrue
    SettingsShownAreServers
    
    GoalsSurvive
    ScreensAgree
PROPERTIES
    LostIsRetried
    TypedTextStays
    SaveReachesServer
    
\* The parts' actors may stop.
CHECK_DEADLOCK FALSE
