SPECIFICATION FairSpec
CONSTANTS
    Statuses <- AllStatuses
    Column <- StatusColumn
    Calls <- Updates
    From <- Guards
    To <- Targets
    Counted <- Accumulates
    Idempotent <- DoneIdempotent
    Verifying <- Verified
    OtherMoves <- Foreign
    MaxRetries = 5
INVARIANTS TypeOK
PROPERTIES KeepsPromise CallReturns
