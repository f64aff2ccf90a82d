SPECIFICATION FairSpec
CONSTANTS
    Producer = {p1, p2}
    c1 = c1
    c2 = c2
    Consumer = {c1}
    Addr = {a1, a2, a3}
    NULL = NULL
    m1 = m1
    m2 = m2
    Msg = {m1, m2}
    Requests <- OneQueueRequests
    TotalMem = 8
    Header = 1
    MaxSent = 3
PROPERTIES
    EveryChunkProcessed
    EverySendReturns
