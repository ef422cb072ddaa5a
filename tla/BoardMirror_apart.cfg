CONSTANTS
    s1 = s1
    c1 = c1
    c2 = c2
    Stories = {s1}
    Cases = {c1, c2}
    StoryOf <- MCStoryOf
    Contents = {v, w}
    Absent = Absent
    Sessions = {a, b}
    None = None
    Overlap = FALSE
    MaxWrites = 6
    MaxFaults = 2
SPECIFICATION Spec
SYMMETRY Interchangeable
INVARIANTS DriftHasACause MirrorKeepsHierarchy
PROPERTY AttachedIsWhole
CHECK_DEADLOCK FALSE
