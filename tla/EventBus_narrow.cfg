SPECIFICATION FairLoyalSpec
CONSTANTS
    w1 = w1
    w2 = w2
    w3 = w3
    r1 = r1
    close = close
    ws = ws
    sse = sse
    Nobody = Nobody
    Closer = close
    WorkerCalls <- MCThreeCalls
    RequestCalls <- MCNoCalls
    Subscribers <- MCSubscribers
    SSEReaders <- MCSSEReaders
    QueueSize = 1
    HistorySize = 3
    MaxFaults = 0
    TimeoutsOn = FALSE
INVARIANTS
    EndedIsComplete
PROPERTIES
    ReadersEnd
    CloseReturns
CHECK_DEADLOCK FALSE
