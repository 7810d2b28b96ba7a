SPECIFICATION MCSpec
CONSTANTS
    Threads = {t1, t2}
    NoThread = NoThread
    Streams = {s1, s2}
    MaxStreams = 1
    CallTimeout = 15
    EpochTick = 10
    MaxRepolls = 2
    Directories = 3
    PackageWorlds = {"provider", "task"}
    Families = {"a", "b"}
    Digests = {"d1", "d2"}
    Declarations <- MCDeclarations
    PackageFaults <- MCFaults
    NoPin = NoPin
INVARIANTS
    OwnHostLinked
CHECK_DEADLOCK FALSE
