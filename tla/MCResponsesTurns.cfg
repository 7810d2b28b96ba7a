SPECIFICATION TurnsSpec
CONSTANTS
    ChatChoices = {0, 1}
    ChatReasons = {"stop", "null"}
    U64Max = 3
    Reports <- MCReports
    ChatEvents = 5
    ChatBatch = 2
    Slots = {0, 1}
    MaxInput = 2
    Reasons = {"stop", "length"}
    ChoiceIds = {0}
    Blocks = {0, 1}
    ToolIndexes = {0, 1}
    Modes = {"raw", "summary"}
    MaxBlockBytes = 3
    MaxTotalBytes = 5
    MaxLayout = 4
    MaxEncoded = 24
    BlockAllowance = 2
    LifecycleKinds <- LifecycleEvents
    LifecycleLength = 4
    LifecycleBatch = 2
    ReasoningKinds <- BlockNumberedEvents
    ReasoningLength = 5
INVARIANT EveryTurnReplays
CHECK_DEADLOCK FALSE
