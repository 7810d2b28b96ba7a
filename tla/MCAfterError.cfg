SPECIFICATION StreamSpec
CONSTANTS
    MaxCount = 6
    Plans <- MCPlans
    Alphabet <- MCAlphabet
    MaxFramesInChunk = 2
INVARIANTS
    NothingAfterError
CHECK_DEADLOCK FALSE
