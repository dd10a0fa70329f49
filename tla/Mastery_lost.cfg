SPECIFICATION Spec
CONSTANTS
    a1 = a1
    a2 = a2
    a3 = a3
    k1 = k1
    k2 = k2
    m1 = m1
    m2 = m2
    None = None
    Attempts <- MCAttempts
    Points <- MCOnePoint
    Cites <- MCCitesOne
    Teachers <- MCOneTeacher
    WriteLock = TRUE
    MaxFaults = 0
INVARIANT
    EvidenceKept
CHECK_DEADLOCK FALSE
