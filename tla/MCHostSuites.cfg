INIT SuitesInit
NEXT SuitesNext
CONSTANTS
    MaxFrames = 3
    MaxBinaryBody = 4
    MaxHops = 3
    Callers = {c1, c2}
    MaxWrites = 2
    MaxRequests = 2
    LiveReplies <- RowReplies
    Rotations <- RowRotations
    Operators <- RowOperators
    CalendarDays = 3000
    Sections <- GateSections
    Stored <- GateStored
    Statuses <- GateStatuses
    Instants <- GateInstants
INVARIANTS
    SuitesJudged
    RelaySound
    FetchSafe
    RowSound
    DateIsTheCalendars
    RecipesSound
CHECK_DEADLOCK FALSE
