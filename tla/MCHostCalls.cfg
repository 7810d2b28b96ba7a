SPECIFICATION HostSpec
CONSTANTS
    Slots = {"bound", "other"}
    Headers <- MCHeaders
    Declarations <- MCDeclarations
    Emissions <- MCEmissions
    NoDeadline = NoDeadline
    Unlimited = Unlimited
    MaxTime = 2
    MaxBytes = 4
    MaxRead = 3
    MaxChunk = 2
    IdleTimeout = 2
    StreamDeadlines = {0, 2}
    MaxEmpty = 1
    MaxPulls = 4
    WaitDeadlines = {0, 1, 4, 5}
    Intervals = {0, 1, 2, 6}
INVARIANTS
    WireAuthorized
    AskedAtMostOnce
    CallDisciplined
    WaitDisciplined
    ReferenceConforms
    WrongAdaptersFail
PROPERTIES
    StreamKept
    AwaitsEnd
    SuiteEnds
CHECK_DEADLOCK FALSE
