SPECIFICATION Spec
CONSTANTS
    t1 = t1
    t2 = t2
    t3 = t3
    s1 = s1
    s2 = s2
    NoTurn = NoTurn
    Sessions <- MCOneSession
    Turns <- MCTwoTurns
    SessionOf <- MCSameSession
    MaxConcurrent = 1
    MaxCrashes = 0
    MaxFaults = 0
INVARIANT
    AnswerIsOwn
CHECK_DEADLOCK FALSE
