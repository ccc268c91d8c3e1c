SPECIFICATION Spec
CONSTANTS
    s1 = s1
    s2 = s2
    web = web
    daemon = daemon
    w1 = w1
    w2 = w2
    d1 = d1
    AnySensor = AnySensor
    NoActor = NoActor
    Sensors = {s1, s2}
    Temps = {40, 50}
    Processes = {web, daemon}
    Actors = {w1, w2, d1}
    ProcessOf <- TwoProcesses
    MaxAnalysisRows = 1
    Batches <- MCBatches
    Queries <- MCQueries
    MaxBatches = 2
INVARIANTS
    AnalysisBounded
SYMMETRY RequestTasks
