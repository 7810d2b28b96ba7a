SPECIFICATION Spec
CONSTANTS
    ChatChoices = {0, 1}
    ChatReasons = {"stop", "null"}
    U64Max = 3
    Reports <- MCReports
    ChatEvents = 5
    ChatBatch = 2
    Slots = {0, 1}
    MaxInput = 2
    Reasons = {"stop", "length"}
    ChoiceIds = {0}
    Blocks = {0, 1}
    ToolIndexes = {0}
    Modes = {"raw", "summary"}
    MaxBlockBytes = 2
    MaxTotalBytes = 4
    MaxLayout = 3
    MaxEncoded = 16
    BlockAllowance = 2
    LifecycleKinds <- LifecycleEvents
    LifecycleLength = 4
    LifecycleBatch = 2
    ReasoningKinds <- ReplayEvents
    ReasoningLength = 5
INVARIANTS
    ChatTold
    AnthropicFollows
    ResponsesTurnWhole
CHECK_DEADLOCK FALSE
