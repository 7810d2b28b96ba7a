INIT CutInit
NEXT SuitesNext
CONSTANTS
    MaxFrames = 2
    MaxBinaryBody = 4
    MaxHops = 3
    Callers = {c1, c2}
    MaxWrites = 2
    MaxRequests = 2
    LiveReplies <- RowReplies
    Rotations <- RowRotations
    Operators <- RowOperators
    CalendarDays = 3000
    Sections <- GateSections
    Stored <- GateStored
    Statuses <- GateStatuses
    Instants <- GateInstants
INVARIANT FailureEventDispatched
CHECK_DEADLOCK FALSE
