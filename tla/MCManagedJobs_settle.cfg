SPECIFICATION FairSpec
CONSTANTS
    NumTasks = 2
    Jobs = {1}
    Deps <- NoDeps
    EmptyTasks = {2}
    Priority <- LaterFirst
    User <- OneUser
    LaunchLimit = 1
    Procs = {p1, p2}
    NoProc = NoProc
    NoJob = NoJob
    PoolSize = 1
    MaxEmergency = 1
    MaxRestarts = 1
    EnvReadFails = FALSE
    MayCancel = {1}
    MayStray = {}
    RecoveryFails = TRUE
ACTION_CONSTRAINT InOrder
CHECK_DEADLOCK FALSE
PROPERTIES
    CancelTakesEffect
    OrphansSettled
