SPECIFICATION FairSpec
CONSTANTS
    SessionIds = {s1}
    Devs = {d1, d2}
    Ucs = {u1}
    Calls = {c1}
    Limit = 1
    MaxWaits = 3
    NoUc = NoUc
    NoRow = NoRow
    Idle = Idle
INVARIANTS
    WaitsAreAnnounced
PROPERTIES
    FirstStopIsAnnounced
    RevivedByItsOwner
    QuietSessionsEnd
