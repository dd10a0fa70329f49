SPECIFICATION MCSpec
CONSTANTS
    t1 = t1
    t2 = t2
    t3 = t3
    s1 = s1
    s2 = s2
    NoTurn = NoTurn
    Sessions <- MCSessions
    Turns <- MCTurns
    SessionOf <- MCSessionOf
    MaxConcurrent = 1
    MaxCrashes = 1
    MaxFaults = 1
INVARIANTS
    OneTurnPerSession
    ActiveIsLive
    SequenceIsFresh
    HistoryIsCurrent
    TerminalHasAnswer
    ShutdownDrains
PROPERTIES
    KeepsSessionLog
    SessionReleased
    ShutdownEnds
CHECK_DEADLOCK FALSE
