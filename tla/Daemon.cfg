SPECIFICATION FairSpec
CONSTANTS
    Intervals = {0, 1, 3}
    MaxLate = 7
INVARIANTS
    TypeOK
    OnePollPerSlot
    NoDrift
    StopsOnlyOnSigint
PROPERTIES
    SigintStops
    PollsGoOn
CHECK_DEADLOCK FALSE
