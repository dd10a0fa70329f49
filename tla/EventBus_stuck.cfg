SPECIFICATION FairSpec
CONSTANTS
    w1 = w1
    w2 = w2
    w3 = w3
    r1 = r1
    close = close
    ws = ws
    sse = sse
    Nobody = Nobody
    Closer = close
    WorkerCalls <- MCThreeCalls
    RequestCalls <- MCNoCalls
    Subscribers <- MCOneReader
    SSEReaders <- MCNoCalls
    QueueSize = 1
    HistorySize = 3
    MaxFaults = 0
    TimeoutsOn = FALSE
PROPERTY
    CloseReturns
CHECK_DEADLOCK FALSE
