SPECIFICATION Spec
CONSTANTS
    Ids = {dq1, dq2}
    Options = {a, b}
    Sessions = {s1, s2}
    People = {p1, p2}
    Concurrent = FALSE
    None = None
    Other = Other
INVARIANTS
    AnswersAgree
    HandedOnce
    EntriesAreKept
SYMMETRY Interchangeable
CHECK_DEADLOCK FALSE
