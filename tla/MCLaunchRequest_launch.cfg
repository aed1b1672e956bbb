SPECIFICATION FairSpec
CONSTANTS
    Ids = {1, 2, 3}
    NoId = 0
    MaxMissing = 2
    MaxErrors = 2
    Faults = {"answer", "vanish", "unseen", "unreachable", "carried", "stream", "database", "crash"}
ACTION_CONSTRAINT IdsInOrder
INVARIANTS TypeOK  NothingOutlivesJob 
PROPERTIES CancelEnds
CHECK_DEADLOCK FALSE
