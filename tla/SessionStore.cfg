SPECIFICATION Spec
CONSTANTS
    a = a
    b = b
    Absent = Absent
    Files <- MCFiles
    Present <- MCPresent
    MaxEvents = 5
INVARIANTS
    EditIsCovered
    RewindIsExact
CHECK_DEADLOCK FALSE
