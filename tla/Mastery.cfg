SPECIFICATION Spec
CONSTANTS
    a1 = a1
    a2 = a2
    a3 = a3
    k1 = k1
    k2 = k2
    m1 = m1
    m2 = m2
    None = None
    Attempts <- MCThree
    Points <- MCPoints
    Cites <- MCCitesThree
    Teachers <- MCTeachers
    WriteLock = TRUE
    MaxFaults = 1
INVARIANTS
    LedgerIsReplay
    CountedOnce
    AttemptsKept
CHECK_DEADLOCK FALSE
