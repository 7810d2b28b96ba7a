INIT AdaptersInit
NEXT AdaptersNext
CONSTANTS
    MAX_BLOCKS = 6
    Says <- MCSays
    Targets <- MCTargets
    Answers <- MCAnswers
    Outputs <- MCOutputs
    Plans <- MCPlans
    MaxEdits = 1
    MAX_ARTIFACT_URLS = 2
    MaxVeoReferences = 3
    MaxXaiReferences = 2
    MaxBytePlusReferences = 2
    MaxOmniImages = 2
    Requests <- MCRequests
    SubmitAnswers <- MCSubmitAnswers
    PollAnswers <- MCPollAnswers
    FileAnswers <- MCFileAnswers
INVARIANTS
    ConversationKept
    OpaqueStaysHome
    RequestObeysModel
    TaskNeverLost
    SettledOnEvidence
    ReservationCoversBill
CHECK_DEADLOCK FALSE
