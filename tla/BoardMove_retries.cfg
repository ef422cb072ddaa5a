CONSTANTS
    s1 = s1
    s2 = s2
    c1 = c1
    c2 = c2
    p0 = p0
    p1 = p1
    p2 = p2
    None = None
    Stories <- MCStories
    Cases <- MCCases
    StoryOf <- MCStoryOf
    Criteria = {c1}
    Pieces = {p0, p1, p2}
    Carries <- MCCarries
    Blobs <- MCBlobs
    Sessions = {1}
    Targets = {"trello", "plane", "native"}
    MaxFaults = 2
    MaxCalls = 2
SPECIFICATION MoveSpec
INVARIANTS RepeatsAddNoCards MissingIsNamed UntroubledIsWhole
PROPERTY DeclaredIsWhatLands
CHECK_DEADLOCK FALSE
