SPECIFICATION FairSpec
CONSTANTS
    p1 = p1
    p2 = p2
    t1 = t1
    t2 = t2
    NoTask = NoTask
    Servers = {p1}
    Tasks = {t1, t2}
    ServerOf <- OneServer
    TokenRequired = TRUE
    Tokens = {"right", "wrong"}
    Windows = {"bad", "fine"}
    MaxBytes = 2
    Sizes = {2, 3}
    WritesFail = TRUE
    MaxCalls = 2
INVARIANTS
    TypeOK
    TrailMatchesAnswer
    ReadsAreOnRecord
    FailClosed
    FileMatchesStderr
    GluedOnlyWhereCut
PROPERTIES
    CallsAnswered
CHECK_DEADLOCK FALSE
