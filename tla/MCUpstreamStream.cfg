SPECIFICATION StreamSpec
CONSTANTS
    MaxCount = 6
    Plans <- MCPlans
    Alphabet <- MCAlphabet
    MaxFramesInChunk = 2
INVARIANTS
    FirstErrorStands
    StreamSound
    UsageIsEvidence
CHECK_DEADLOCK FALSE
