SPECIFICATION Spec
CONSTANTS
    YearLength = 3
    Day = 1
    Times <- MCTimes
    Words <- MCWords
    Found <- MCFound
    Absent = Absent
    MaxRows = 2
INVARIANTS
    TypeOK
    WindowByInstant
    GroupsMixNamesakesOnly
