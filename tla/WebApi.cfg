SPECIFICATION Spec
CONSTANTS
    s1 = s1
    s2 = s2
    w1 = w1
    w2 = w2
    d1 = d1
    AnySensor = AnySensor
    Sensors = {s1, s2}
    Temps = {40}
    Callers = {w1, d1}
    Web = {w1}
    Daemons = {d1}
    Inserts = {}
    Lookups = {}
    RowLimit = 2
    RowWindow = 2
    MaxHours = 1
    Hours = {0, 1}
    Collections <- OneOrBoth
    ClockSteady = FALSE
    MaxUptime = 3
INVARIANTS
    TypeOK
    PageIsStored
    PageIsCurrent
    HistoryComplete
    OnlyBootstraps
CHECK_DEADLOCK FALSE
