SPECIFICATION Spec
CONSTANTS
    s1 = s1
    s2 = s2
    w1 = w1
    w2 = w2
    d1 = d1
    AnySensor = AnySensor
    Sensors = {s1, s2}
    Temps = {40}
    Callers = {w1, w2}
    Web = {w1, w2}
    Daemons = {}
    Inserts = {}
    Lookups = {}
    RowLimit = 2
    RowWindow = 2
    MaxHours = 1
    Hours = {0, 1}
    Collections <- AllSensors
    ClockSteady = TRUE
    MaxUptime = 2
INVARIANTS
    RefreshUpdates
SYMMETRY RequestTasks
CHECK_DEADLOCK FALSE
