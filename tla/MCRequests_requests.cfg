SPECIFICATION Spec
CONSTANTS
    r1 = r1
    r2 = r2
    p1 = p1
    p2 = p2
    b1 = b1
    Reqs <- TwoReqs
    Gated <- SecondReq
    Retryable <- SecondReq
    PoolProcs = {p1, p2}
    BurstProcs = {b1}
    PoolSize = 1
    BurstSize = 1
    NoReq = NoReq
    NoWorker = NoWorker
    Faults = {"enqueue", "dispatch", "die", "drain", "ack"}
INVARIANTS TypeOK TeardownExclusive PidNamesWorker RunningIsHeld InterruptedWasCancelled
PROPERTIES OutcomeStands
CHECK_DEADLOCK FALSE
SYMMETRY PoolSymmetry
