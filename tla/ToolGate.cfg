SPECIFICATION Spec
CONSTANTS
    p1 = p1
    p2 = p2
    dir = dir
    e1 = e1
    read1 = read1
    read2 = read2
    edit1 = edit1
    edit2 = edit2
    A = A
    B = B
    Nobody = Nobody
    Managers <- MCManagers
    Calls <- MCCalls
    Together <- MCTogether
    KindOf <- MCKindOf
    ScopeOf <- MCScopeOf
    Plan <- MCPlan
    MaxTurns = 2
    MaxAsks = 3
    MaxFaults = 1
SYMMETRY MCSymmetry
INVARIANTS
    GrantIsDecided
    DenialHolds
CHECK_DEADLOCK FALSE
