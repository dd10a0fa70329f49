SPECIFICATION FairSpec
CONSTANTS
    read = read
    write = write
    ask = ask
    Tools <- MCTools
    SafeTools <- MCSafe
    AskTools <- MCAsk
    Limits <- MCLimits
    MaxCalls = 3
    MaxSteps = 3
    EmptyLimit = 1
    ThinkLimit = 1
    WidenAfter = 2
    Bonus = 2
    Deep = TRUE
    ContextGuard = TRUE
    Scored = FALSE
INVARIANTS
    SerialAlone
    SerialInOrder
    BatchAccounted
    ToolsEndInTurn
    StepsBounded
PROPERTIES
    TurnEnds
CHECK_DEADLOCK FALSE
