SPECIFICATION FairSpec
CONSTANTS
    p1 = p1
    p2 = p2
    r1 = r1
    r2 = r2
    allow = allow
    deny = deny
    typo = typo
    None = None
    Prompts <- MCPrompts
    Resolvers <- MCResolvers
    Decisions <- MCDecisions
    Choices <- MCChoices
    Allow = allow
    Deny = deny
    MaxFaults = 1
    MaxCrashes = 1
INVARIANTS
    TypeOK
    AllowIsCommitted
    DecidedWakesWorker
    WaitingIsAnswerable
PROPERTIES
    LostIsFrozen
    PromptReturns
CHECK_DEADLOCK FALSE
