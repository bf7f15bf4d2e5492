CONSTANTS
    PageSize = 2
    Bytes = {0, 2, 3}
    MaxRuns = 3
    Thread = {t1, t2}
    Handle = {h1, h2, h3}
SYMMETRY Interchangeable
SPECIFICATION Spec
INVARIANTS
    KnownIsUsable
    NoLeak
    RoundTrip
CHECK_DEADLOCK FALSE
