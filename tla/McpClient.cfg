SPECIFICATION FairSpec
CONSTANTS
    Candidates = 2
    MaxSpawns = 2
    MaxCalls = 2
    MaxFaults = 1
INVARIANTS
    AnswerIsOwn
    PendingIsOwed
    CacheIsCurrent
PROPERTY
    CallEnds
CHECK_DEADLOCK FALSE
