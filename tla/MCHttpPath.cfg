INIT PathInit
NEXT PathNext
CONSTANTS
    MAX_PROVIDER_HEADER_COUNT = 3
    MAX_PROVIDER_HEADER_TOTAL_BYTES = 4
    MAX_QUERY_TOTAL_BYTES = 5
    MAX_DECLARED_SECRET_HEADERS = 2
    MAX_RESPONSE_TRANSCRIPT_COUNT = 2
    MAX_RESPONSE_TRANSCRIPT_TOTAL_BYTES = 5
    MAX_METADATA_VALUE_BYTES = 4
    ResponseHeaders <- MCResponseHeaders
    TextCap = 2
    BinaryCap = 4
    ErrorCap = 3
    MaxBody = 6
    MaxRead = 3
    Requests = {r1, r2}
    Pairs = {p1, p2, p3}
    MaxHistory = 2
    TTL = 2
    MaxId = 3
    MaxTime = 2
    MaxReports = 4
    Symbols = {"CR", "LF", "BOM", "d", "e", "x", "!"}
    MaxLine = 2
    MaxEvent = 2
    MaxInput = 5
    MaxChunk = 2
    Bodies <- MCBodies
    MaxFrame = 7
    MaxHeaders = 2
    AwsChunk = 4
    SplitSymbols = {"CR", "LF", "B1", "B2", "d", "e", "x"}
    MaxSplit = 2
    SplitInput = 5
    SplitChunk = 3
INVARIANTS
    RawCallSound
    WholeBodyOrRefused
    ObserverAgrees
    HistoryIsTrue
    SameAsWhole
CHECK_DEADLOCK FALSE
