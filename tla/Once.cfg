SPECIFICATION OnceSpec
CONSTANTS
    Sources <- Backends
    SensorsOf <- Machine
    AtOnce = {"nvidia"}
    Nested = {"hwmon"}
    MaxChanges = 2
INVARIANTS
    TypeOK
    FailedSourceDropped
    OnlyNeighboursHide
    ExitStatusTells
CHECK_DEADLOCK FALSE
