SPECIFICATION Spec
CONSTANTS
    p1 = p1
    p2 = p2
    t1 = t1
    t2 = t2
    NoTask = NoTask
    Servers = {p1, p2}
    Tasks = {t1, t2}
    ServerOf <- TwoServers
    TokenRequired = FALSE
    Tokens = {"right"}
    Windows = {"fine"}
    MaxBytes = 2
    Sizes = {2, 3}
    WritesFail = FALSE
    MaxCalls = 2
INVARIANTS
    JsonLines
CHECK_DEADLOCK FALSE
