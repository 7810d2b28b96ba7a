SPECIFICATION Spec
CONSTANTS
    Requests = {r1, r2}
    NoRequest = NoRequest
    Submitters = {s1, s2}
    Observers = {o1, o2}
    Cancellers = {c1}
SYMMETRY Symmetry
INVARIANTS
    SuitePasses
    SentAtMostOnce
    ClosedOnEvidence
PROPERTIES
    OneFinalAnswer
CHECK_DEADLOCK FALSE
