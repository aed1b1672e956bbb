SPECIFICATION Spec
CONSTANTS
    r1 = r1
    r2 = r2
    p1 = p1
    p2 = p2
    b1 = b1
    Reqs <- TwoReqs
    Gated <- SecondReq
    Retryable <- SecondReq
    PoolProcs = {p1}
    BurstProcs = {}
    PoolSize = 1
    BurstSize = 0
    NoReq = NoReq
    NoWorker = NoWorker
    Faults = {"none"}
PROPERTIES CancelIsTerminal
CHECK_DEADLOCK FALSE
