SPECIFICATION Spec
CONSTANTS
    Awaited = Awaited
    Loads = {l1, l2}
    Windows = {1, 24, 72}
    FirstWindow = 24
    PollsIn <- SlotsPerWindow
    SensorCount = 2
    RowLimit = 4
    Outages = FALSE
    MaxPolls = 3
    MaxChanges = 2
INVARIANTS
    SelectionShown
