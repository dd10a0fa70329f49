SPECIFICATION Spec
CONSTANTS
    w1 = w1
    w2 = w2
    w3 = w3
    r1 = r1
    close = close
    ws = ws
    sse = sse
    Nobody = Nobody
    Closer = close
    WorkerCalls <- MCWorkerCalls
    RequestCalls <- MCRequestCalls
    Subscribers <- MCSubscribers
    SSEReaders <- MCSSEReaders
    QueueSize = 3
    HistorySize = 4
    MaxFaults = 2
    TimeoutsOn = TRUE
INVARIANTS
    ReadersSeePrefix
    EndedIsComplete
PROPERTY
    ClosedIsFinal
CHECK_DEADLOCK FALSE
